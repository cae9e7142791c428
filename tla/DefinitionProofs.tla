---------------------------- MODULE DefinitionProofs ----------------------------
(***************************************************************************)
(* Theorems of DefinitionController, for any values and names, any lists,  *)
(* edits, answers of Inventory, incarnations, failures and restarts.       *)
(***************************************************************************)
EXTENDS DefinitionController, FiniteSetTheorems, TLAPS

-----------------------------------------------------------------------------
(***************************************************************************)
(* A fresh identity exists, because only finitely many are in use.         *)
(***************************************************************************)
LEMMA ImageFinite ==
  ASSUME NEW S, IsFiniteSet(S), NEW f
  PROVE  IsFiniteSet({f[x] : x \in S})
  <1> DEFINE T == {f[x] : x \in S}
             g == [x \in S |-> f[x]]
  <1>1. g \in Surjection(S, T)
    BY DEF Surjection
  <1>2. QED
    BY <1>1, FS_Surjection

LEMMA UsedInFinite ==
  ASSUME NEW f
  PROVE  IsFiniteSet(UsedIn(f))
  <1> DEFINE S == {m \in Name : f[m] # Nil}
             g == [n \in S |-> f[n].uid]
  <1>1. IsFiniteSet(S)
    BY DefinitionAssumption, FS_Subset
  <1>2. UsedIn(f) = {g[n] : n \in S}
    BY DEF UsedIn
  <1> HIDE DEF g, S
  <1>3. IsFiniteSet({g[n] : n \in S})
    BY <1>1, ImageFinite
  <1>4. QED
    BY <1>2, <1>3

LEMMA SecondsFinite ==
  ASSUME NEW K, IsFiniteSet(K)
  PROVE  IsFiniteSet({pair[2] : pair \in K})
  <1> DEFINE g == [pair \in K |-> pair[2]]
  <1>1. {pair[2] : pair \in K} = {g[pair] : pair \in K}
    OBVIOUS
  <1> HIDE DEF g
  <1>2. IsFiniteSet({g[pair] : pair \in K})
    BY ImageFinite
  <1>3. QED
    BY <1>1, <1>2

LEMMA KnownFinite ==
  ASSUME KnownInv, NEW d \in {def, dcache, obj}
  PROVE  IsFiniteSet(KnownTo(d))
  <1>1. CASE d = Nil
    BY <1>1, FS_EmptySet DEF KnownTo
  <1>2. CASE d # Nil
    BY <1>2, SecondsFinite DEF KnownTo, KnownInv
  <1>3. QED
    BY <1>1, <1>2

LEMMA UsedFinite ==
  ASSUME KnownInv
  PROVE  IsFiniteSet(Used)
  <1> DEFINE A == UsedIn(child)
             B == UsedIn(ccache)
             C == KnownTo(def)
             D == KnownTo(dcache)
             E == KnownTo(obj)
             F == {pair[2] : pair \in known}
  <1>1. IsFiniteSet(A) /\ IsFiniteSet(B)
    BY UsedInFinite
  <1>2. IsFiniteSet(C) /\ IsFiniteSet(D) /\ IsFiniteSet(E)
    BY KnownFinite
  <1>3. IsFiniteSet(F)
    BY SecondsFinite DEF KnownInv
  <1>4. Used = ((((A \union B) \union C) \union D) \union E) \union F
    BY DEF Used
  <1> HIDE DEF A, B, C, D, E, F
  <1>5. IsFiniteSet((A \union B) \union C)
    BY <1>1, <1>2, FS_Union
  <1>6. IsFiniteSet((((A \union B) \union C) \union D) \union E)
    BY <1>2, <1>5, FS_Union
  <1>7. QED
    BY <1>3, <1>4, <1>6, FS_Union

LEMMA FreshUidType ==
  ASSUME KnownInv
  PROVE  FreshUid \in Nat /\ FreshUid \notin Used
  <1> DEFINE N == Cardinality(Used)
  <1>1. IsFiniteSet(Used) /\ N \in Nat
    BY UsedFinite, FS_CardinalityType
  <1>2. \E u \in 1..N + 1 : u \notin Used
    <2>1. SUFFICES ASSUME 1..N + 1 \subseteq Used PROVE FALSE
      OBVIOUS
    <2>2. Cardinality(1..N + 1) <= N
      BY <1>1, <2>1, FS_Subset
    <2>3. Cardinality(1..N + 1) = N + 1
      <3> HIDE DEF N
      <3>1. 1 \in Int /\ N + 1 \in Int /\ ~(1 > N + 1)
        BY <1>1
      <3>2. Cardinality(1..N + 1) = (N + 1) - 1 + 1
        BY <3>1, FS_Interval
      <3>3. QED
        BY <1>1, <3>2
    <2> HIDE DEF N
    <2>4. QED
      BY <1>1, <2>2, <2>3
  <1>3. FreshUid \in 1..N + 1 /\ FreshUid \notin Used
    BY <1>2 DEF FreshUid
  <1> HIDE DEF N
  <1>4. QED
    BY <1>1, <1>3

-----------------------------------------------------------------------------
(***************************************************************************)
(* What one step can do.                                                   *)
(***************************************************************************)
Typed == TypeOK /\ KnownInv /\ IndexInv

\* The object named n is collected, or its status is written by its own controller.
Collected(n) == child'[n] = Nil /\ child[n] # Nil /\ ~Owned(n)
Touched(n) ==
  /\ child[n] # Nil /\ child'[n] \in Objects /\ child'[n] # Nil
  /\ child'[n].uid = child[n].uid /\ child'[n].owner = child[n].owner
  /\ child'[n].value = child[n].value /\ child'[n].version = child[n].version
  /\ child'[n].touched >= child[n].touched
ObjectsMove ==
  /\ {child', ccache'} \subseteq [Name -> Objects \union {Nil}]
  /\ \A n \in Name : child'[n] = child[n] \/ Collected(n) \/ Touched(n)
Stays ==
  UNCHANGED <<definition, pending, worker, faults>> /\ offer' \in DOMAIN Offers /\ ObjectsMove

\* The users.
Created ==
  /\ def = Nil /\ def' \in Definitions /\ def' # Nil
  /\ def'.status = "" /\ def'.known = {}
Edited ==
  /\ def # Nil /\ def' \in Definitions /\ def' # Nil
  /\ def'.uid = def.uid /\ def'.version = def.version + 1
  /\ def'.known = def.known /\ def'.status = def.status
Deleted == def' = Nil
ByUser ==
  /\ UNCHANGED <<dcache, offer, objects, pending, worker, faults>> /\ defs' \in Nat
  /\ Created \/ Edited \/ Deleted

Delivers ==
  UNCHANGED <<def, defs, offer, objects, worker, faults>> /\ dcache' = def /\ pending' = TRUE

LEMMA WorldSteps ==
  ASSUME TypeOK, World \/ UNCHANGED vars
  PROVE  Stays \/ ByUser \/ Delivers
  <1>1. CASE CreateDefinition
    <2>1. PICK first \in FirstDefinitions :
            def' = [uid |-> defs + 1, kind |-> first.kind, source |-> first.source,
                    list |-> first.list, version |-> 1, status |-> "", known |-> {}]
      BY <1>1 DEF CreateDefinition
    <2> DEFINE u == defs + 1
               d == [uid |-> u, kind |-> first.kind, source |-> first.source,
                     list |-> first.list, version |-> 1, status |-> "", known |-> {}]
    <2>2. def' = d
      BY <2>1
    <2>3. defs' = u /\ UNCHANGED <<dcache, offer, objects, pending, worker, faults>> /\ def = Nil
      BY <1>1 DEF CreateDefinition
    <2>4. u \in Nat
      BY DEF TypeOK
    <2>5. first \in [kind: Kinds, source: Sources, list: Lists]
      BY DefinitionAssumption
    <2> HIDE DEF u
    <2>6. d \in Definitions
      BY <2>4, <2>5 DEF Definitions
    <2>7. d # Nil /\ d.status = "" /\ d.known = {}
      BY <2>6, DefinitionAssumption
    <2> HIDE DEF d
    <2>8. Created
      BY <2>2, <2>3, <2>6, <2>7 DEF Created
    <2>9. QED
      BY <2>3, <2>4, <2>8 DEF ByUser
  <1>2. CASE EditDefinition
    <2>1. PICK list \in IF def.source = "list" THEN Lists ELSE {def.list} :
            def' = [def EXCEPT !.list = list, !.version = @ + 1]
      BY <1>2 DEF EditDefinition
    <2>2. def \in Definitions /\ def # Nil
      BY <1>2 DEF EditDefinition, TypeOK
    <2>3. def.version \in Nat /\ def.list \in Lists
      BY <2>2 DEF Definitions
    <2>4. list \in Lists
      BY <2>3
    <2> DEFINE v == def.version + 1
               d == [def EXCEPT !.list = list, !.version = v]
    <2>5. def' = d /\ UNCHANGED <<dcache, defs, offer, objects, pending, worker, faults>>
      BY <1>2, <2>1 DEF EditDefinition
    <2>6. v \in Nat /\ v = def.version + 1
      BY <2>3
    <2> HIDE DEF v
    <2>7. d \in Definitions
      BY <2>2, <2>4, <2>6 DEF Definitions
    <2>8. /\ d # Nil /\ d.uid = def.uid /\ d.version = v
          /\ d.known = def.known /\ d.status = def.status
      BY <2>2, <2>7, DefinitionAssumption DEF Definitions
    <2> HIDE DEF d
    <2>9. Edited
      BY <2>2, <2>5, <2>6, <2>7, <2>8 DEF Edited
    <2>10. QED
      BY <2>5, <2>9 DEF ByUser, TypeOK
  <1>3. CASE DeleteDefinition
    BY <1>3 DEF DeleteDefinition, ByUser, Deleted, TypeOK
  <1>4. CASE DeliverDefinition
    BY <1>4 DEF DeliverDefinition, Delivers
  <1>5. CASE Offer
    BY <1>5 DEF Offer, Stays, ObjectsMove, objects, TypeOK
  <1>6. ASSUME NEW n \in Name, Touch(n) PROVE Stays
    <2> DEFINE t == child[n].touched + 1
               x == [child[n] EXCEPT !.touched = t]
    <2>1. child[n] \in Objects /\ child[n] # Nil
      BY <1>6 DEF Touch, TypeOK
    <2>2. t \in Nat /\ t >= child[n].touched
      BY <2>1 DEF Objects
    <2>3. child' = [child EXCEPT ![n] = x] /\ UNCHANGED <<definition, offer, ccache, pending, worker, faults>>
      BY <1>6 DEF Touch, TypeOK
    <2> HIDE DEF t
    <2>4. x \in Objects
      BY <2>1, <2>2 DEF Objects
    <2>5. /\ x # Nil /\ x.uid = child[n].uid /\ x.owner = child[n].owner
          /\ x.value = child[n].value /\ x.version = child[n].version /\ x.touched = t
      BY <2>1, <2>4, DefinitionAssumption DEF Objects
    <2> HIDE DEF x
    <2>6. Touched(n)
      BY <2>1, <2>2, <2>3, <2>4, <2>5 DEF Touched, TypeOK
    <2>7. /\ child' \in [Name -> Objects \union {Nil}]
          /\ \A m \in Name : m # n => child'[m] = child[m]
      BY <2>3, <2>4 DEF TypeOK
    <2>8. QED
      BY <2>3, <2>6, <2>7 DEF Stays, ObjectsMove, TypeOK
  <1>7. ASSUME NEW n \in Name, DeliverObject(n) PROVE Stays
    BY <1>7 DEF DeliverObject, Stays, ObjectsMove, TypeOK
  <1>8. ASSUME NEW n \in Name, Collect(n) PROVE Stays
    BY <1>8 DEF Collect, Collected, Stays, ObjectsMove, TypeOK
  <1>9. CASE UNCHANGED vars
    BY <1>9 DEF vars, Stays, ObjectsMove, objects, TypeOK
  <1>10. QED
    BY <1>1, <1>2, <1>3, <1>4, <1>5, <1>6, <1>7, <1>8, <1>9 DEF World

-----------------------------------------------------------------------------
\* The worker.
Locals == <<values, index, known>>

GivenUp == Requeue /\ UNCHANGED <<definition, objects>>
Drops == pc = "idle" /\ dcache = Nil /\ UNCHANGED <<definition, objects, worker>> /\ pending' = FALSE
Begins ==
  /\ pc = "idle" /\ dcache # Nil /\ obj' = dcache /\ pc' \in {"pending", "resolve"}
  /\ pc' = "pending" => dcache.status = ""
  /\ pending' = FALSE /\ UNCHANGED <<definition, objects, Locals>>
Writes ==
  /\ def # Nil /\ def' \in Definitions /\ def' # Nil
  /\ def'.uid = def.uid /\ def'.version = def.version /\ def'.kind = def.kind
  /\ def'.source = def.source /\ def'.list = def.list
  /\ \/ /\ pc = "pending" /\ pc' = "reread" /\ def = obj
        /\ def'.status = "Pending" /\ def'.known = def.known
        /\ UNCHANGED <<obj, Locals, pending>>
     \/ pc = "ready" /\ dcache = def /\ def' = Ready(def) /\ Done
  /\ UNCHANGED <<dcache, defs, objects>>
Advances ==
  /\ UNCHANGED <<definition, objects, pending>>
  /\ \/ /\ pc = "reread" /\ dcache # Nil /\ obj' = dcache /\ pc' = "resolve" /\ UNCHANGED Locals
     \/ /\ pc = "resolve" /\ values' = Resolved /\ pc' = "expand" /\ UNCHANGED <<obj, index, known>>
     \/ pc = "expand" /\ index > Len(values) /\ pc' = "ready" /\ UNCHANGED <<obj, Locals>>

\* The object named n is written from the value the worker is at.
Written(n) ==
  /\ child'[n] \in Objects /\ child'[n] # Nil
  /\ child'[n].value = ValueNow /\ child'[n].version = obj.version
  /\ \/ child[n] = Nil /\ child'[n].owner = obj.uid
     \/ /\ child[n] # Nil /\ child'[n].owner = child[n].owner /\ child'[n].uid = child[n].uid
        /\ child'[n].touched = child[n].touched
  /\ child' = [child EXCEPT ![n] = child'[n]]
Expands ==
  /\ pc = "expand" /\ index <= Len(values) /\ index' = index + 1
  /\ NameNow \in Name /\ Written(NameNow)
  /\ known' = known \union {<<NameNow, child'[NameNow].uid>>}
  /\ UNCHANGED <<definition, ccache, pending, pc, obj, values>>

LEMMA ValuesType ==
  ASSUME TypeOK
  PROVE  values \in Seq(Value)
  <1>1. CASE values \in Lists
    BY <1>1, DefinitionAssumption
  <1>2. ASSUME NEW i \in DOMAIN Offers, values = Offers[i] PROVE values \in Seq(Value)
    <2>1. Offers \in Seq(Seq(Value))
      BY DefinitionAssumption
    <2>2. QED
      BY <1>2, <2>1
  <1>3. CASE values = << >>
    BY <1>3
  <1>4. QED
    BY <1>1, <1>2, <1>3 DEF TypeOK

LEMMA ResolvedType ==
  ASSUME TypeOK, obj \in Definitions
  PROVE  Resolved \in Lists \union {Offers[i] : i \in DOMAIN Offers} /\ Resolved \in Seq(Value)
  <1>1. CASE Resolved \in Lists
    BY <1>1, DefinitionAssumption
  <1>2. ASSUME NEW i \in DOMAIN Offers, Resolved = Offers[i] PROVE Resolved \in Seq(Value)
    <2>1. Offers \in Seq(Seq(Value))
      BY DefinitionAssumption
    <2>2. QED
      BY <1>2, <2>1
  <1>3. Resolved \in Lists \union {Offers[i] : i \in DOMAIN Offers}
    BY DEF Resolved, Definitions, TypeOK
  <1>4. QED
    BY <1>1, <1>2, <1>3

LEMMA NowTyped ==
  ASSUME TypeOK, pc = "expand", index <= Len(values)
  PROVE  index \in 1..Len(values) /\ ValueNow \in Value /\ NameNow \in Name /\ obj \in Definitions
  <1>1. values \in Seq(Value) /\ index \in 1..Len(values) + 1
    BY ValuesType DEF TypeOK
  <1>2. index \in 1..Len(values)
    BY <1>1
  <1>3. ValueNow \in Value
    BY <1>1, <1>2 DEF ValueNow
  <1>4. QED
    BY <1>2, <1>3, DefinitionAssumption DEF NameNow, TypeOK

LEMMA CreateWrites ==
  ASSUME Typed, pc = "expand", index <= Len(values), CreateObject
  PROVE  Written(NameNow)
  <1> DEFINE n == NameNow
             x == [uid |-> FreshUid, owner |-> obj.uid, value |-> ValueNow, version |-> obj.version,
                   annotations |-> WithAnnotations, touched |-> 0]
  <1>1. n \in Name /\ ValueNow \in Value /\ obj.uid \in Nat /\ obj.version \in Nat
    BY NowTyped DEF Typed, Definitions
  <1>2. FreshUid \in Nat
    BY FreshUidType DEF Typed
  <1>3. WithAnnotations \in BOOLEAN
    BY DEF WithAnnotations
  <1>4. x \in Objects
    BY <1>1, <1>2, <1>3 DEF Objects
  <1>5. x # Nil /\ x.owner = obj.uid /\ x.value = ValueNow /\ x.version = obj.version
    BY <1>4, DefinitionAssumption
  <1>6. child' = [child EXCEPT ![n] = x] /\ child[n] = Nil
    BY DEF CreateObject
  <1> HIDE DEF x
  <1>7. child'[n] = x
    BY <1>1, <1>6 DEF Typed, TypeOK
  <1>8. QED
    BY <1>4, <1>5, <1>6, <1>7 DEF Written

LEMMA UpdateWrites ==
  ASSUME Typed, pc = "expand", index <= Len(values), UpdateObject
  PROVE  Written(NameNow)
  <1> DEFINE n == NameNow
             x == [child[n] EXCEPT !.value = ValueNow, !.version = obj.version]
  <1>1. n \in Name /\ ValueNow \in Value /\ obj.version \in Nat
    BY NowTyped DEF Typed, Definitions
  <1>2. child[n] \in Objects /\ child[n] # Nil
    BY <1>1 DEF UpdateObject, Typed, TypeOK
  <1>3. x \in Objects
    BY <1>1, <1>2 DEF Objects
  <1>4. /\ x # Nil /\ x.value = ValueNow /\ x.version = obj.version /\ x.uid = child[n].uid
        /\ x.owner = child[n].owner /\ x.touched = child[n].touched
    BY <1>2, <1>3, DefinitionAssumption DEF Objects
  <1>5. child' = [child EXCEPT ![n] = x]
    BY <1>1 DEF UpdateObject, Typed, TypeOK
  <1> HIDE DEF x
  <1>6. child'[n] = x
    BY <1>1, <1>5 DEF Typed, TypeOK
  <1>7. QED
    BY <1>2, <1>3, <1>4, <1>5, <1>6 DEF Written

LEMMA ReadyWrites ==
  ASSUME NEW d \in Definitions, known \subseteq Name \X Nat
  PROVE  /\ Ready(d) \in Definitions /\ Ready(d) # Nil
         /\ Ready(d).uid = d.uid /\ Ready(d).version = d.version /\ Ready(d).status = "Ready"
         /\ Ready(d).source = d.source /\ Ready(d).list = d.list /\ Ready(d).kind = d.kind
         /\ Ready(d).known \in {known, d.known}
         /\ d.kind = "ResourceDefinition" => Ready(d).known = known
  <1>1. Ready(d) \in Definitions
    BY DEF Ready, ReadyWithList, ReadyAlone, Definitions
  <1>2. Ready(d) # Nil
    BY <1>1, DefinitionAssumption
  <1>3. QED
    BY <1>1, <1>2 DEF Ready, ReadyWithList, ReadyAlone, Definitions

LEMMA PendingWrites ==
  ASSUME NEW d \in Definitions
  PROVE  /\ [d EXCEPT !.status = "Pending"] \in Definitions
         /\ [d EXCEPT !.status = "Pending"] # Nil
         /\ [d EXCEPT !.status = "Pending"].uid = d.uid
         /\ [d EXCEPT !.status = "Pending"].version = d.version
         /\ [d EXCEPT !.status = "Pending"].known = d.known
         /\ [d EXCEPT !.status = "Pending"].status = "Pending"
         /\ [d EXCEPT !.status = "Pending"].kind = d.kind
         /\ [d EXCEPT !.status = "Pending"].source = d.source
         /\ [d EXCEPT !.status = "Pending"].list = d.list
  <1>1. [d EXCEPT !.status = "Pending"] \in Definitions
    BY DEF Definitions
  <1>2. QED
    BY <1>1, DefinitionAssumption DEF Definitions

LEMMA WorkerSteps ==
  ASSUME Typed, Reconcile
  PROVE  /\ UNCHANGED <<dcache, defs, offer, ccache>> /\ faults' \in Nat
         /\ GivenUp \/ Drops \/ Begins \/ Writes \/ Advances \/ Expands
  <1>0. TypeOK
    BY DEF Typed
  <1>1. Fault => faults' \in Nat
    BY <1>0 DEF Fault, TypeOK
  <1>2. CASE Start
    BY <1>0, <1>2 DEF Start, Drops, Begins, Locals, definition, objects, TypeOK
  <1>3. CASE WritePending
    <2>1. CASE def = obj /\ def' = [obj EXCEPT !.status = "Pending"] /\ Goto("reread")
               /\ UNCHANGED <<obj, values, index, known, faults>>
      <3>1. def \in Definitions /\ def # Nil
        BY <1>0, <1>3, <2>1 DEF WritePending, TypeOK
      <3>2. /\ def' \in Definitions /\ def' # Nil /\ def'.uid = def.uid
            /\ def'.version = def.version /\ def'.known = def.known /\ def'.status = "Pending"
            /\ def'.kind = def.kind /\ def'.source = def.source /\ def'.list = def.list
        BY <2>1, <3>1, PendingWrites
      <3>3. Writes
        BY <1>3, <2>1, <3>1, <3>2 DEF WritePending, Writes, Goto, Locals
      <3>4. QED
        BY <1>0, <1>3, <2>1, <3>3 DEF WritePending, objects, TypeOK
    <2>2. CASE Requeue /\ UNCHANGED def
      BY <1>0, <1>1, <1>3, <2>2 DEF WritePending, GivenUp, definition, objects, TypeOK
    <2>3. QED
      BY <1>3, <2>1, <2>2 DEF WritePending
  <1>4. CASE Reread
    BY <1>0, <1>4 DEF Reread, GivenUp, Advances, Goto, Locals, definition, objects, TypeOK
  <1>5. CASE Resolve
    BY <1>0, <1>1, <1>5 DEF Resolve, GivenUp, Advances, Goto, definition, objects, TypeOK
  <1>6. CASE Expand
    <2>1. CASE /\ CreateObject \/ UpdateObject
               /\ index' = index + 1
               /\ known' = known \union {<<NameNow, child'[NameNow].uid>>}
               /\ UNCHANGED <<pc, obj, values, pending, faults>>
      <3>1. NameNow \in Name /\ Written(NameNow)
        BY <1>0, <1>6, <2>1, NowTyped, CreateWrites, UpdateWrites DEF Expand
      <3>2. Expands
        BY <1>6, <2>1, <3>1 DEF Expand, Expands
      <3>3. QED
        BY <1>0, <1>6, <2>1, <3>2 DEF Expand, definition, TypeOK
    <2>2. CASE Requeue /\ UNCHANGED child
      BY <1>0, <1>1, <1>6, <2>2 DEF Expand, GivenUp, definition, objects, TypeOK
    <2>3. QED
      BY <1>6, <2>1, <2>2 DEF Expand
  <1>7. CASE Expanded
    BY <1>0, <1>7 DEF Expanded, Advances, Goto, Locals, definition, objects, TypeOK
  <1>8. CASE WriteReady
    <2>1. CASE dcache # Nil /\ dcache = def /\ def' = Ready(dcache) /\ Done /\ UNCHANGED faults
      <3>1. def \in Definitions /\ def # Nil /\ known \subseteq Name \X Nat
        BY <1>0, <2>1 DEF TypeOK
      <3>2. /\ def' \in Definitions /\ def' # Nil /\ def'.uid = def.uid
            /\ def'.version = def.version /\ def'.kind = def.kind
            /\ def'.source = def.source /\ def'.list = def.list
        BY <2>1, <3>1, ReadyWrites
      <3>3. Writes
        BY <1>8, <2>1, <3>1, <3>2 DEF WriteReady, Writes
      <3>4. QED
        BY <1>0, <1>8, <2>1, <3>3 DEF WriteReady, objects, TypeOK
    <2>2. CASE Requeue /\ UNCHANGED def
      BY <1>0, <1>1, <1>8, <2>2 DEF WriteReady, GivenUp, definition, objects, TypeOK
    <2>3. QED
      BY <1>8, <2>1, <2>2 DEF WriteReady
  <1>9. QED
    BY <1>2, <1>3, <1>4, <1>5, <1>6, <1>7, <1>8 DEF Reconcile

Restarts ==
  /\ UNCHANGED <<def, defs, offer, child>> /\ dcache' = def /\ ccache' = child
  /\ Return /\ pending' = (def # Nil) /\ faults' \in Nat
ByWorker ==
  /\ UNCHANGED <<dcache, defs, offer, ccache>> /\ faults' \in Nat
  /\ GivenUp \/ Drops \/ Begins \/ Writes \/ Advances \/ Expands

LEMMA Steps ==
  ASSUME Typed, [Next]_vars
  PROVE  Stays \/ ByUser \/ Delivers \/ Restarts \/ ByWorker
  <1>1. CASE World \/ UNCHANGED vars
    BY <1>1, WorldSteps DEF Typed
  <1>2. CASE Crash
    BY <1>2 DEF Crash, Fault, Restarts, Typed, TypeOK
  <1>3. CASE Reconcile
    BY <1>3, WorkerSteps DEF ByWorker
  <1>4. QED
    BY <1>1, <1>2, <1>3 DEF Next

-----------------------------------------------------------------------------
(***************************************************************************)
(* The invariants of types, of finite lists and of the worker's position.  *)
(***************************************************************************)
LEMMA TypeStep ==
  ASSUME Typed, Stays \/ ByUser \/ Delivers \/ Restarts \/ ByWorker
  PROVE  TypeOK'
  <1>0. TypeOK /\ IndexInv
    BY DEF Typed
  <1>1. CASE Stays
    BY <1>0, <1>1 DEF Stays, ObjectsMove, definition, worker, TypeOK
  <1>2. CASE ByUser
    BY <1>0, <1>2 DEF ByUser, Created, Edited, Deleted, objects, worker, TypeOK
  <1>3. CASE Delivers
    BY <1>0, <1>3 DEF Delivers, objects, worker, TypeOK
  <1>4. CASE Restarts
    BY <1>0, <1>4 DEF Restarts, Return, TypeOK
  <1>5. CASE ByWorker
    <2>0. UNCHANGED <<dcache, defs, offer, ccache>> /\ faults' \in Nat
      BY <1>5 DEF ByWorker
    <2>1. CASE GivenUp
      BY <1>0, <2>0, <2>1 DEF GivenUp, Requeue, Return, definition, objects, TypeOK
    <2>2. CASE Drops
      BY <1>0, <2>0, <2>2 DEF Drops, definition, objects, worker, TypeOK
    <2>3. CASE Begins
      <3>1. /\ UNCHANGED <<def, child, ccache, values, index, known>>
            /\ obj' = dcache /\ dcache # Nil /\ pc' \in {"pending", "resolve"} /\ pending' = FALSE
        BY <2>3 DEF Begins, Locals, definition, objects
      <3>2. (pc' = "idle") = (obj' = Nil)
        BY <3>1
      <3>3. pc' # "expand" /\ pc' \in {"idle", "pending", "reread", "resolve", "expand", "ready"}
        BY <3>1
      <3>4. QED
        BY <1>0, <2>0, <3>1, <3>2, <3>3 DEF TypeOK
    <2>4. CASE Writes
      <3>1. def' \in Definitions /\ UNCHANGED objects
        BY <2>4 DEF Writes
      <3>2. CASE /\ pc = "pending" /\ pc' = "reread"
                 /\ UNCHANGED <<obj, Locals, pending>>
        BY <1>0, <2>0, <3>1, <3>2 DEF Locals, objects, TypeOK
      <3>3. CASE Done
        BY <1>0, <2>0, <3>1, <3>3 DEF Done, Return, objects, TypeOK
      <3>4. QED
        BY <2>4, <3>2, <3>3 DEF Writes
    <2>5. CASE Advances
      <3>0. UNCHANGED <<def, child, ccache, pending>>
        BY <2>5 DEF Advances, definition, objects
      <3>1. CASE /\ pc = "reread" /\ dcache # Nil /\ obj' = dcache /\ pc' = "resolve"
                 /\ UNCHANGED Locals
        BY <1>0, <2>0, <3>0, <3>1 DEF Locals, TypeOK
      <3>2. CASE /\ pc = "resolve" /\ values' = Resolved /\ pc' = "expand"
                 /\ UNCHANGED <<obj, index, known>>
        <4>1. obj \in Definitions /\ index = 1
          BY <1>0, <3>2 DEF TypeOK, IndexInv
        <4>2. values' \in Lists \union {Offers[i] : i \in DOMAIN Offers} /\ values' \in Seq(Value)
          BY <1>0, <3>2, <4>1, ResolvedType
        <4>4. index' \in 1..Len(values') + 1
          BY <3>2, <4>1, <4>2
        <4>5. QED
          BY <1>0, <2>0, <3>0, <3>2, <4>2, <4>4 DEF TypeOK
      <3>3. CASE /\ pc = "expand" /\ index > Len(values) /\ pc' = "ready"
                 /\ UNCHANGED <<obj, Locals>>
        BY <1>0, <2>0, <3>0, <3>3 DEF Locals, TypeOK
      <3>4. QED
        BY <2>5, <3>1, <3>2, <3>3 DEF Advances
    <2>6. CASE Expands
      <3>1. /\ pc = "expand" /\ index <= Len(values) /\ index' = index + 1
            /\ UNCHANGED <<def, pending, pc, obj, values>>
        BY <2>6 DEF Expands, definition
      <3>2. values \in Seq(Value) /\ index \in 1..Len(values)
        BY <1>0, <3>1, ValuesType, NowTyped
      <3>3. index' \in 1..Len(values') + 1
        BY <3>1, <3>2
      <3>4. NameNow \in Name /\ child'[NameNow] \in Objects
            /\ child' = [child EXCEPT ![NameNow] = child'[NameNow]]
            /\ known' = known \union {<<NameNow, child'[NameNow].uid>>}
        BY <2>6 DEF Expands, Written
      <3>5. child'[NameNow].uid \in Nat
        BY <3>4 DEF Objects
      <3>6. known' \subseteq Name \X Nat
        BY <1>0, <3>4, <3>5 DEF TypeOK
      <3>7. child' \in [Name -> Objects \union {Nil}]
        BY <1>0, <3>4 DEF TypeOK
      <3>8. QED
        BY <1>0, <2>0, <3>1, <3>3, <3>6, <3>7 DEF TypeOK
    <2>7. QED
      BY <1>5, <2>1, <2>2, <2>3, <2>4, <2>5, <2>6 DEF ByWorker
  <1>6. QED
    BY <1>1, <1>2, <1>3, <1>4, <1>5

LEMMA KnownStep ==
  ASSUME Typed, Stays \/ ByUser \/ Delivers \/ Restarts \/ ByWorker
  PROVE  KnownInv'
  <1>0. /\ TypeOK /\ IsFiniteSet(known)
        /\ \A d \in {def, dcache, obj} \ {Nil} : IsFiniteSet(d.known)
    BY DEF Typed, KnownInv
  <1>1. CASE Stays
    BY <1>0, <1>1 DEF Stays, definition, worker, KnownInv
  <1>2. CASE ByUser
    BY <1>0, <1>2, FS_EmptySet DEF ByUser, Created, Edited, Deleted, worker, KnownInv
  <1>3. CASE Delivers
    BY <1>0, <1>3 DEF Delivers, worker, KnownInv
  <1>4. CASE Restarts
    BY <1>0, <1>4, FS_EmptySet DEF Restarts, Return, KnownInv
  <1>5. CASE ByWorker
    <2>0. UNCHANGED dcache
      BY <1>5 DEF ByWorker
    <2>1. CASE GivenUp
      BY <1>0, <2>0, <2>1, FS_EmptySet DEF GivenUp, Requeue, Return, definition, KnownInv
    <2>2. CASE Drops
      BY <1>0, <2>0, <2>2 DEF Drops, definition, worker, KnownInv
    <2>3. CASE Begins
      BY <1>0, <2>0, <2>3 DEF Begins, Locals, definition, KnownInv
    <2>4. CASE Writes
      <3>1. CASE def'.known = def.known /\ UNCHANGED <<obj, Locals>> /\ def # Nil
        BY <1>0, <2>0, <3>1 DEF Locals, KnownInv
      <3>2. CASE def' = Ready(def) /\ Done /\ def # Nil
        <4>1. def \in Definitions /\ known \subseteq Name \X Nat
          BY <1>0, <3>2 DEF TypeOK
        <4>2. def'.known \in {known, def.known}
          BY <3>2, <4>1, ReadyWrites
        <4>3. IsFiniteSet(def'.known)
          BY <1>0, <3>2, <4>2
        <4>4. obj' = Nil /\ known' = {}
          BY <3>2 DEF Done, Return
        <4>5. QED
          BY <1>0, <2>0, <4>3, <4>4, FS_EmptySet DEF KnownInv
      <3>3. QED
        BY <2>4, <3>1, <3>2 DEF Writes
    <2>5. CASE Advances
      BY <1>0, <2>0, <2>5 DEF Advances, Locals, definition, KnownInv
    <2>6. CASE Expands
      <3>1. IsFiniteSet(known')
        BY <1>0, <2>6, FS_AddElement DEF Expands
      <3>2. QED
        BY <1>0, <2>0, <2>6, <3>1 DEF Expands, definition, KnownInv
    <2>7. QED
      BY <1>5, <2>1, <2>2, <2>3, <2>4, <2>5, <2>6 DEF ByWorker
  <1>6. QED
    BY <1>1, <1>2, <1>3, <1>4, <1>5

LEMMA IndexStep ==
  ASSUME Typed, Stays \/ ByUser \/ Delivers \/ Restarts \/ ByWorker
  PROVE  IndexInv'
  <1>0. TypeOK /\ IndexInv
    BY DEF Typed
  <1>1. CASE UNCHANGED worker
    BY <1>0, <1>1 DEF worker, IndexInv
  <1>2. CASE Return
    BY <1>2 DEF Return, IndexInv
  <1>3. CASE Begins
    BY <1>0, <1>3 DEF Begins, Locals, IndexInv
  <1>4. CASE Writes
    BY <1>0, <1>2, <1>4 DEF Writes, Locals, Done, IndexInv
  <1>5. CASE Advances
    <2>1. CASE pc = "expand" /\ index > Len(values) /\ pc' = "ready" /\ UNCHANGED <<obj, Locals>>
      <3>1. values \in Seq(Value) /\ index \in 1..Len(values) + 1
        BY <1>0, <2>1, ValuesType DEF TypeOK
      <3>2. index = Len(values) + 1
        BY <2>1, <3>1
      <3>3. QED
        BY <2>1, <3>2 DEF Locals, IndexInv
    <2>2. QED
      BY <1>0, <1>5, <2>1 DEF Advances, Locals, IndexInv
  <1>6. CASE Expands
    BY <1>6 DEF Expands, IndexInv
  <1>7. QED
    BY <1>1, <1>2, <1>3, <1>4, <1>5, <1>6
       DEF Stays, ByUser, Delivers, Restarts, ByWorker, GivenUp, Requeue, Drops

LEMMA TypedInit == Init => Typed
  <1> SUFFICES ASSUME Init PROVE Typed
    OBVIOUS
  <1>1. TypeOK
    <2>1. Offers \in Seq(Seq(Value)) /\ Offers # << >>
      BY DefinitionAssumption
    <2>2. 1 \in DOMAIN Offers
      BY <2>1
    <2>3. child \in [Name -> Objects \union {Nil}] /\ ccache = child
      BY DEF Init
    <2>4. (pc = "idle") = (obj = Nil)
      BY DEF Init
    <2>5. pc = "idle" /\ known = {} /\ pending \in BOOLEAN /\ offer = 1
      BY DEF Init
    <2>8. values \in Lists \union {Offers[i] : i \in DOMAIN Offers} \union {<< >>}
      BY Zenon DEF Init
    <2>6. def = Nil /\ dcache = Nil /\ obj = Nil /\ defs = 0 /\ faults = 0
      BY DEF Init
    <2>7. QED
      BY <2>2, <2>3, <2>4, <2>5, <2>6, <2>8 DEF TypeOK
  <1>2. KnownInv
    BY FS_EmptySet DEF Init, KnownInv
  <1>3. IndexInv
    BY DEF Init, IndexInv
  <1>4. QED
    BY <1>1, <1>2, <1>3 DEF Typed

LEMMA TypedStep == Typed /\ [Next]_vars => Typed'
  BY Steps, TypeStep, KnownStep, IndexStep DEF Typed

\* The definition, the objects and the worker are what the module says they are,
\* and an object is always created with an identity of its own.
THEOREM DefinitionTyped == Spec => []TypeOK
  <1>1. Typed => TypeOK
    BY DEF Typed
  <1>2. QED
    BY <1>1, TypedInit, TypedStep, PTL DEF Spec

-----------------------------------------------------------------------------
(***************************************************************************)
(* As long as a name rests before it is used again.                        *)
(***************************************************************************)
NamesFree == def = Nil /\ def' # Nil => NameIsFree

\* All but AtRestExpanded.
Running == Typed /\ VersionsInv /\ OwnersInv /\ CopyInv /\ ValuesInv /\ ExpandedInv

\* No step takes a definition back to an earlier version.
LEMMA VersionStep ==
  ASSUME Typed, [Next]_vars, def # Nil, def' # Nil, def'.uid = def.uid
  PROVE  def'.version >= def.version
  <1>0. def \in Definitions /\ def # Nil /\ def' # Nil
    BY DEF Typed, TypeOK
  <1>1. def.version \in Nat
    BY <1>0 DEF Definitions
  <1>2. def'.version \in {def.version, def.version + 1}
    BY <1>0, Steps DEF Stays, ByUser, Created, Edited, Deleted, Delivers, Restarts, ByWorker,
       GivenUp, Drops, Begins, Writes, Advances, Expands, definition
  <1>3. QED
    BY <1>1, <1>2

LEMMA CopyStep ==
  ASSUME CopyInv, Stays \/ ByUser \/ Delivers \/ Restarts \/ ByWorker
  PROVE  CopyInv'
  <1>1. CASE Stays \/ ByUser
    BY <1>1 DEF Stays, ByUser, definition, worker, CopyInv
  <1>2. CASE Delivers
    BY <1>2 DEF Delivers, CopyInv
  <1>3. CASE Restarts
    BY <1>3 DEF Restarts, Return, CopyInv
  <1>4. CASE ByWorker
    <2>1. CASE Writes
      BY <1>4, <2>1 DEF ByWorker, Writes, Done, Return, CopyInv
    <2>2. CASE GivenUp \/ Drops \/ Begins
      BY <1>4, <2>2 DEF ByWorker, GivenUp, Requeue, Return, Drops, Begins, worker, CopyInv
    <2>3. CASE Advances
      BY <1>4, <2>3 DEF ByWorker, Advances, CopyInv
    <2>4. CASE Expands
      BY <1>4, <2>4 DEF ByWorker, Expands, CopyInv
    <2>5. QED
      BY <1>4, <2>1, <2>2, <2>3, <2>4 DEF ByWorker
  <1>5. QED
    BY <1>1, <1>2, <1>3, <1>4

LEMMA ValuesStep ==
  ASSUME ValuesInv, Stays \/ ByUser \/ Delivers \/ Restarts \/ ByWorker
  PROVE  ValuesInv'
  <1>1. CASE Stays \/ ByUser \/ Delivers
    BY <1>1 DEF Stays, ByUser, Delivers, worker, ValuesInv
  <1>2. CASE Restarts
    BY <1>2 DEF Restarts, Return, ValuesInv
  <1>3. CASE ByWorker
    BY <1>3 DEF ByWorker, GivenUp, Requeue, Return, Drops, Begins, Writes, Done, Advances, Expands,
       Locals, worker, Resolved, ValuesInv
  <1>4. QED
    BY <1>1, <1>2, <1>3

LEMMA VersionsStep ==
  ASSUME Typed, VersionsInv, [Next]_vars, NamesFree
  PROVE  VersionsInv'
  <1> SUFFICES ASSUME def' # Nil, dcache' # Nil, dcache'.uid = def'.uid
               PROVE  dcache'.version <= def'.version
    BY DEF VersionsInv
  <1>0. def' \in Definitions /\ def'.version \in Nat
    BY TypedStep DEF Typed, TypeOK, Definitions
  <1>1. CASE dcache' = def'
    BY <1>0, <1>1
  <1>2. CASE dcache' # def'
    <2>1. dcache' = dcache
      BY <1>2, Steps DEF Stays, ByUser, Delivers, Restarts, ByWorker, definition
    <2>2. def # Nil
      BY <2>1 DEF NamesFree, NameIsFree
    <2>3. def'.uid = def.uid
      BY <2>2, Steps DEF Stays, ByUser, Created, Edited, Deleted, Delivers, Restarts, ByWorker,
         GivenUp, Drops, Begins, Writes, Advances, Expands, definition
    <2>4. def'.version >= def.version
      BY <2>2, <2>3, VersionStep
    <2>5. dcache.version <= def.version
      BY <2>1, <2>2, <2>3 DEF VersionsInv
    <2>6. {def, dcache} \subseteq Definitions
      BY <2>1, <2>2 DEF Typed, TypeOK
    <2>7. def.version \in Nat /\ dcache.version \in Nat
      BY <2>6 DEF Definitions
    <2>8. QED
      BY <1>0, <2>1, <2>4, <2>5, <2>7
  <1>3. QED
    BY <1>1, <1>2

LEMMA OwnersStep ==
  ASSUME Typed, OwnersInv, [Next]_vars, NamesFree
  PROVE  OwnersInv'
  <1> SUFFICES ASSUME def' # Nil
               PROVE  /\ dcache' # Nil => dcache'.uid = def'.uid
                      /\ pc' # "idle" => obj'.uid = def'.uid
                      /\ \A n \in Name : child'[n] # Nil => child'[n].owner = def'.uid
    BY DEF OwnersInv, Owned
  <1>0. TypeOK
    BY DEF Typed
  <1>1. CASE def = Nil
    <2>1. ByUser /\ NameIsFree
      BY <1>1, Steps DEF Stays, Delivers, Restarts, ByWorker, GivenUp, Drops, Begins, Writes,
         Advances, Expands, definition, NamesFree
    <2>2. QED
      BY <2>1 DEF ByUser, NameIsFree, objects, worker
  <1>2. CASE def # Nil
    <2>0. /\ dcache # Nil => dcache.uid = def.uid
          /\ pc # "idle" => obj.uid = def.uid
          /\ \A n \in Name : child[n] # Nil => child[n].owner = def.uid
      BY <1>2 DEF OwnersInv, Owned
    <2>1. def'.uid = def.uid
      BY <1>2, Steps DEF Stays, ByUser, Created, Edited, Deleted, Delivers, Restarts, ByWorker,
         GivenUp, Drops, Begins, Writes, Advances, Expands, definition
    <2>2. dcache' # Nil => dcache'.uid = def'.uid
      BY <2>0, <2>1, Steps DEF Stays, ByUser, Delivers, Restarts, ByWorker, definition
    <2>3. pc' # "idle" => obj'.uid = def'.uid
      <3>1. CASE UNCHANGED worker \/ Return
        BY <2>0, <2>1, <3>1 DEF worker, Return
      <3>2. CASE Begins \/ Writes \/ Advances \/ Expands
        BY <2>0, <2>1, <3>2 DEF Begins, Writes, Done, Return, Advances, Expands
      <3>3. QED
        BY <3>1, <3>2, Steps DEF Stays, ByUser, Delivers, Restarts, ByWorker, GivenUp, Requeue, Drops
    <2>4. ASSUME NEW n \in Name, child'[n] # Nil PROVE child'[n].owner = def'.uid
      <3>1. CASE Stays
        BY <2>0, <2>1, <2>4, <3>1 DEF Stays, ObjectsMove, Collected, Touched
      <3>2. CASE Expands
        <4>1. Written(NameNow) /\ NameNow \in Name /\ pc = "expand"
          BY <3>2 DEF Expands
        <4>2. CASE n = NameNow
          BY <2>0, <2>1, <4>1, <4>2 DEF Written
        <4>3. CASE n # NameNow
          BY <1>0, <2>0, <2>1, <2>4, <4>1, <4>3 DEF Written, TypeOK
        <4>4. QED
          BY <4>2, <4>3
      <3>3. CASE UNCHANGED child
        BY <2>0, <2>1, <2>4, <3>3
      <3>4. QED
        BY <3>1, <3>2, <3>3, Steps DEF ByUser, Delivers, Restarts, ByWorker, GivenUp, Drops, Begins,
           Writes, Advances, objects
    <2>5. QED
      BY <2>2, <2>3, <2>4
  <1>3. QED
    BY <1>1, <1>2

\* What belongs to the living definition is not collected.
LEMMA OwnedStays ==
  ASSUME OwnersInv, Stays, def # Nil, NEW n \in Name, child[n] # Nil
  PROVE  /\ child'[n] # Nil /\ child'[n].uid = child[n].uid
         /\ child'[n].value = child[n].value /\ child'[n].version = child[n].version
  BY DEF Stays, ObjectsMove, Collected, Touched, OwnersInv

\* One more value is expanded: those before it keep their objects, but for one
\* of the same name, which is now written from this value.
LEMMA ExpandsOne ==
  ASSUME Running, Expands, def # Nil
  PROVE  ExpandedInv'
  <1> DEFINE k == index
             named(i) == NameOf[values[i]]
             ver == obj.version
  <1>0. TypeOK
    BY DEF Running, Typed
  <1>1. /\ k \in 1..Len(values) /\ index' = k + 1 /\ named(k) \in Name /\ Written(named(k))
        /\ known' = known \union {<<named(k), child'[named(k)].uid>>}
        /\ UNCHANGED <<def, pc, obj, values>> /\ pc = "expand"
    BY <1>0, NowTyped DEF Expands, NameNow, ValueNow, definition
  <1>2. values \in Seq(Value) /\ k \in Nat /\ k - 1 \in Nat
    BY <1>0, <1>1, ValuesType
  <1>3. \A i \in 1..k : named(i) \in Name
    <2> SUFFICES ASSUME NEW i \in 1..k PROVE named(i) \in Name
      OBVIOUS
    <2>1. i \in 1..Len(values)
      BY <1>1, <1>2
    <2>2. values[i] \in Value
      BY <1>2, <2>1
    <2>3. QED
      BY <2>2, DefinitionAssumption
  <1>4. /\ \A i \in 1..k - 1 : WrittenFrom(named(i), k - 1, ver)
        /\ known = {<<named(i), child[named(i)].uid>> : i \in 1..k - 1}
    BY <1>1 DEF Running, ExpandedInv
  <1>5. \A n \in Name : n # named(k) => child'[n] = child[n]
    BY <1>0, <1>1 DEF Written, TypeOK
  <1>6. /\ child'[named(k)] # Nil /\ child'[named(k)].value = values[k]
        /\ child'[named(k)].version = ver
        /\ child[named(k)] # Nil => child'[named(k)].uid = child[named(k)].uid
    BY <1>1 DEF Written, ValueNow
  <1>7. 1..k = (1..k - 1) \union {k} /\ k \notin 1..k - 1 /\ \A j \in 1..k : j <= k
    BY <1>1, <1>2
  <1> DEFINE Good(n) ==
        /\ child'[n] # Nil
        /\ child'[n].version = ver
        /\ \E i \in 1..k :
             /\ named(i) = n /\ child'[n].value = values[i]
             /\ \A j \in 1..k : named(j) = n => j <= i
  <1>8. ASSUME NEW i \in 1..k PROVE Good(named(i))
    <2>1. CASE named(i) = named(k)
      <3> HIDE DEF named, ver
      <3>1. k \in 1..k
        BY <1>7
      <3>2. /\ named(k) = named(i) /\ child'[named(i)].value = values[k]
            /\ \A j \in 1..k : named(j) = named(i) => j <= k
        BY <1>6, <1>7, <2>1
      <3>3. QED
        BY <1>6, <2>1, <3>1, <3>2
    <2>2. CASE named(i) # named(k)
      <3> DEFINE n == named(i)
      <3>1. i \in 1..k - 1 /\ n \in Name
        BY <1>3, <1>7, <2>2
      <3>2. WrittenFrom(n, k - 1, ver)
        BY <1>4, <3>1
      <3>3. child'[n] = child[n]
        BY <1>5, <2>2, <3>1
      <3>4. PICK i0 \in 1..k - 1 :
              /\ named(i0) = n /\ child[n].value = values[i0]
              /\ \A j \in 1..k - 1 : named(j) = n => j <= i0
        BY <3>2 DEF WrittenFrom
      <3>5. child[n] # Nil /\ child[n].version = ver
        BY <3>2 DEF WrittenFrom
      <3>6. \A j \in 1..k : named(j) = n => j <= i0
        BY <1>7, <2>2, <3>4
      <3>7. i0 \in 1..k
        BY <1>7
      <3> HIDE DEF named, ver, n
      <3>8. Good(n)
        BY <3>3, <3>4, <3>5, <3>6, <3>7
      <3>9. QED
        BY <3>8 DEF n
    <2>3. QED
      BY <2>1, <2>2
  <1>9. ASSUME NEW i \in 1..k - 1 PROVE child'[named(i)].uid = child[named(i)].uid
    <2>1. child[named(i)] # Nil
      BY <1>4 DEF WrittenFrom
    <2>2. named(i) \in Name
      BY <1>3, <1>7
    <2>3. QED
      BY <1>5, <1>6, <2>1, <2>2
  <1>10. known' = {<<named(i), child'[named(i)].uid>> : i \in 1..k}
    <2> DEFINE u(i) == child[named(i)].uid
               w(i) == child'[named(i)].uid
    <2>1. \A i \in 1..k - 1 : u(i) = w(i)
      BY <1>9
    <2>2. known = {<<named(i), u(i)>> : i \in 1..k - 1}
      BY <1>4
    <2>3. known' = known \union {<<named(k), w(k)>>}
      BY <1>1
    <2> HIDE DEF named, u, w
    <2>4. {<<named(i), u(i)>> : i \in 1..k - 1} = {<<named(i), w(i)>> : i \in 1..k - 1}
      BY <2>1
    <2>5. {<<named(i), w(i)>> : i \in 1..k - 1} \union {<<named(k), w(k)>>}
            = {<<named(i), w(i)>> : i \in 1..k}
      BY <1>7
    <2>6. known' = {<<named(i), w(i)>> : i \in 1..k}
      BY <2>2, <2>3, <2>4, <2>5
    <2>7. QED
      BY <2>6 DEF w
  <1>11. index' - 1 = k
    BY <1>1, <1>2
  <1>12. SUFFICES
           /\ \A i \in 1..index' - 1 :
                /\ child'[NameOf[values'[i]]] # Nil
                /\ child'[NameOf[values'[i]]].version = obj'.version
                /\ \E l \in 1..index' - 1 :
                     /\ NameOf[values'[l]] = NameOf[values'[i]]
                     /\ child'[NameOf[values'[i]]].value = values'[l]
                     /\ \A j \in 1..index' - 1 :
                          NameOf[values'[j]] = NameOf[values'[i]] => j <= l
           /\ known' = {<<NameOf[values'[i]], child'[NameOf[values'[i]]].uid>> : i \in 1..index' - 1}
    BY DEF ExpandedInv, WrittenFrom
  <1>13. values' = values /\ obj' = obj
    BY <1>1
  <1>14. QED
    BY <1>8, <1>10, <1>11, <1>13

LEMMA ExpandedStep ==
  ASSUME Running, [Next]_vars, NamesFree
  PROVE  ExpandedInv'
  <1>0. Typed /\ TypeOK /\ IndexInv /\ OwnersInv /\ ExpandedInv
    BY DEF Running, Typed
  <1>1. CASE Expands
    <2>1. CASE def = Nil
      BY <1>1, <2>1 DEF Expands, definition, ExpandedInv
    <2>2. CASE def # Nil
      BY <1>1, <2>2, ExpandsOne
    <2>3. QED
      BY <2>1, <2>2
  <1>2. CASE pc' \notin {"expand", "ready"} \/ def' = Nil
    BY <1>2 DEF ExpandedInv
  <1>3. ASSUME pc \in {"expand", "ready"}, def # Nil, UNCHANGED <<obj, Locals>>,
               \A n \in Name : child[n] # Nil =>
                 /\ child'[n] # Nil /\ child'[n].uid = child[n].uid
                 /\ child'[n].value = child[n].value /\ child'[n].version = child[n].version
        PROVE  ExpandedInv'
    <2> DEFINE named(i) == NameOf[values[i]]
               k == index - 1
    <2>1. /\ \A i \in 1..k : WrittenFrom(named(i), k, obj.version)
          /\ known = {<<named(i), child[named(i)].uid>> : i \in 1..k}
      BY <1>0, <1>3 DEF ExpandedInv
    <2>2. \A i \in 1..k : named(i) \in Name
      <3> SUFFICES ASSUME NEW i \in 1..k PROVE named(i) \in Name
        OBVIOUS
      <3>1. values \in Seq(Value)
        BY <1>0, ValuesType
      <3>2. index \in 1..Len(values) + 1
        <4>1. CASE pc = "expand"
          BY <1>0, <4>1 DEF TypeOK
        <4>2. CASE pc = "ready"
          BY <1>0, <3>1, <4>2 DEF IndexInv
        <4>3. QED
          BY <1>3, <4>1, <4>2
      <3>3. i \in 1..Len(values)
        BY <3>1, <3>2
      <3>4. values[i] \in Value
        BY <3>1, <3>3
      <3>5. QED
        BY <3>4, DefinitionAssumption
    <2>3. ASSUME NEW i \in 1..k
          PROVE  /\ child'[named(i)] # Nil
                 /\ child'[named(i)].version = obj.version
                 /\ child'[named(i)].uid = child[named(i)].uid
                 /\ child'[named(i)].value = child[named(i)].value
      BY <1>3, <2>1, <2>2 DEF WrittenFrom
    <2>4. ASSUME NEW i \in 1..k
          PROVE  \E l \in 1..k :
                   /\ named(l) = named(i) /\ child'[named(i)].value = values[l]
                   /\ \A j \in 1..k : named(j) = named(i) => j <= l
      BY <2>1, <2>3 DEF WrittenFrom
    <2>5. known = {<<named(i), child'[named(i)].uid>> : i \in 1..k}
      <3> DEFINE u(i) == child[named(i)].uid
                 w(i) == child'[named(i)].uid
      <3>1. \A i \in 1..k : u(i) = w(i)
        BY <2>3
      <3>2. known = {<<named(i), u(i)>> : i \in 1..k}
        BY <2>1
      <3> HIDE DEF named, u, w
      <3>3. known = {<<named(i), w(i)>> : i \in 1..k}
        BY <3>1, <3>2
      <3>4. QED
        BY <3>3 DEF w
    <2>6. SUFFICES
           /\ \A i \in 1..index' - 1 :
                /\ child'[NameOf[values'[i]]] # Nil
                /\ child'[NameOf[values'[i]]].version = obj'.version
                /\ \E l \in 1..index' - 1 :
                     /\ NameOf[values'[l]] = NameOf[values'[i]]
                     /\ child'[NameOf[values'[i]]].value = values'[l]
                     /\ \A j \in 1..index' - 1 :
                          NameOf[values'[j]] = NameOf[values'[i]] => j <= l
           /\ known' = {<<NameOf[values'[i]], child'[NameOf[values'[i]]].uid>> : i \in 1..index' - 1}
      BY DEF ExpandedInv, WrittenFrom
    <2>7. values' = values /\ obj' = obj /\ index' = index /\ known' = known
      BY <1>3 DEF Locals
    <2>8. QED
      BY <2>3, <2>4, <2>5, <2>7
  <1>4. CASE Stays
    <2>1. UNCHANGED <<def, pc, obj, Locals>>
      BY <1>4 DEF Stays, definition, worker, Locals
    <2>2. CASE pc \in {"expand", "ready"} /\ def # Nil
      <3>1. \A n \in Name : child[n] # Nil =>
              /\ child'[n] # Nil /\ child'[n].uid = child[n].uid
              /\ child'[n].value = child[n].value /\ child'[n].version = child[n].version
        BY <1>0, <1>4, <2>2, OwnedStays
      <3>2. QED
        BY <1>3, <2>1, <2>2, <3>1
    <2>3. QED
      BY <1>2, <2>1, <2>2
  <1>5. CASE ByUser \/ Delivers
    <2>1. UNCHANGED <<child, pc, obj, Locals>>
      BY <1>5 DEF ByUser, Delivers, objects, worker, Locals
    <2>2. CASE pc \in {"expand", "ready"} /\ def # Nil
      BY <1>3, <2>1, <2>2
    <2>3. CASE pc \in {"expand", "ready"} /\ def = Nil /\ def' # Nil
      BY <2>3 DEF NamesFree, NameIsFree
    <2>4. QED
      BY <1>2, <2>1, <2>2, <2>3
  <1>6. CASE Restarts \/ GivenUp \/ Drops \/ Begins \/ Writes
    <2>1. pc' \notin {"expand", "ready"}
      BY <1>6 DEF Restarts, GivenUp, Requeue, Return, Drops, Begins, Writes, Done, worker
    <2>2. QED
      BY <1>2, <2>1
  <1>7. CASE Advances
    <2>0. UNCHANGED <<def, child>>
      BY <1>7 DEF Advances, definition, objects
    <2>1. CASE pc' = "resolve"
      BY <1>2, <2>1
    <2>2. CASE pc = "resolve" /\ pc' = "expand" /\ UNCHANGED <<obj, index, known>>
      <3>1. index' = 1 /\ known' = {}
        BY <1>0, <2>2 DEF IndexInv
      <3>2. 1..index' - 1 = {}
        BY <3>1
      <3>3. QED
        BY <3>1, <3>2 DEF ExpandedInv
    <2>3. CASE pc = "expand" /\ UNCHANGED <<obj, Locals>>
      <3>1. CASE def # Nil
        BY <1>3, <2>0, <2>3, <3>1
      <3>2. QED
        BY <1>2, <2>0, <3>1
    <2>4. QED
      BY <1>7, <2>1, <2>2, <2>3 DEF Advances
  <1>8. QED
    BY <1>0, <1>1, <1>4, <1>5, <1>6, <1>7, Steps DEF ByWorker

LEMMA RunningStep ==
  ASSUME Running, [Next]_vars, NamesFree
  PROVE  Running'
  BY Steps, TypedStep, VersionsStep, OwnersStep, CopyStep, ValuesStep, ExpandedStep DEF Running

\* The last value of a name is the only one that no other of the name follows.
LEMMA LastIs ==
  ASSUME NEW list \in Seq(Value), NEW n, NEW i \in DOMAIN list, NameOf[list[i]] = n,
         \A j \in DOMAIN list : NameOf[list[j]] = n => j <= i
  PROVE  Last(list, n) = list[i]
  <1> DEFINE P(l) == NameOf[list[l]] = n /\ \A j \in DOMAIN list : NameOf[list[j]] = n => j <= l
             l0 == CHOOSE l \in DOMAIN list : P(l)
  <1>1. l0 \in DOMAIN list /\ P(l0)
    OBVIOUS
  <1>2. l0 <= i /\ i <= l0
    BY <1>1
  <1>3. l0 = i
    <2>1. DOMAIN list \subseteq Nat
      OBVIOUS
    <2>2. l0 \in Nat /\ i \in Nat
      BY <1>1, <2>1
    <2> HIDE DEF l0
    <2>3. QED
      BY <1>2, <2>2
  <1>4. Last(list, n) = list[l0]
    BY DEF Last
  <1>5. QED
    BY <1>3, <1>4

\* At the end of a round the objects are there, and `known` is the list of them.
LEMMA RoundDone ==
  ASSUME Running, pc = "ready", def # Nil
  PROVE  /\ values \in Seq(Value) /\ index - 1 = Len(values) /\ Names(values) \subseteq Name
         /\ \A n \in Names(values) : WrittenFrom(n, Len(values), obj.version)
         /\ known = {<<n, child[n].uid>> : n \in Names(values)}
  <1> DEFINE named(i) == NameOf[values[i]]
             k == Len(values)
             u(n) == child[n].uid
  <1>1. values \in Seq(Value) /\ index - 1 = k /\ DOMAIN values = 1..k
    BY ValuesType DEF Running, Typed, IndexInv
  <1>2. /\ \A i \in 1..k : WrittenFrom(named(i), k, obj.version)
        /\ known = {<<named(i), u(named(i))>> : i \in 1..k}
    BY <1>1 DEF Running, ExpandedInv
  <1>3. Names(values) = {named(i) : i \in 1..k}
    BY <1>1 DEF Names
  <1>4. \A i \in 1..k : named(i) \in Name
    BY <1>1, DefinitionAssumption
  <1>5. known = {<<n, u(n)>> : n \in Names(values)}
    <2> HIDE DEF named, u, k
    <2>1. QED
      BY <1>2, <1>3
  <1>6. QED
    BY <1>1, <1>2, <1>3, <1>4, <1>5

\* At rest, over a step that leaves the definition and the worker alone.
LEMMA RestStays ==
  ASSUME Running, AtRestExpanded, Stays
  PROVE  AtRestExpanded'
  <1> SUFFICES ASSUME AtRest', def' # Nil
               PROVE  /\ def'.status = "Ready"
                      /\ \A n \in Names(Current)' :
                           /\ child'[n] # Nil
                           /\ child'[n].version = def'.version
                           /\ child'[n].value = Last(Current, n)'
                      /\ def'.kind = "ResourceDefinition" =>
                           def'.known = {<<n, child'[n].uid>> : n \in Names(Current)'}
    BY DEF AtRestExpanded, Last
  <1>0. Typed /\ TypeOK /\ OwnersInv
    BY DEF Running, Typed
  <1>1. /\ UNCHANGED <<def, dcache, pc, pending, values>> /\ Current' = Current
    BY DEF Stays, definition, worker, Current
  <1>2. AtRest /\ def # Nil
    BY <1>1 DEF AtRest
  <1>3. /\ def.status = "Ready"
        /\ \A n \in Names(Current) :
             /\ child[n] # Nil
             /\ child[n].version = def.version
             /\ child[n].value = Last(Current, n)
        /\ def.kind = "ResourceDefinition" =>
             def.known = {<<n, child[n].uid>> : n \in Names(Current)}
    BY <1>2 DEF AtRestExpanded
  <1>4. Names(Current)' = Names(Current) /\ \A n \in Name : Last(Current, n)' = Last(Current, n)
    BY <1>1 DEF Names, Last
  <1>5. Names(Current) \subseteq Name
    <2> DEFINE list == Current
    <2>1. def \in Definitions
      BY <1>0, <1>2 DEF TypeOK
    <2>2. list \in Seq(Value)
      BY <1>0, <2>1, ValuesType, DefinitionAssumption DEF Current, Definitions
    <2> HIDE DEF list
    <2>3. \A i \in DOMAIN list : list[i] \in Value
      BY <2>2
    <2>4. Names(list) \subseteq Name
      BY <2>3, DefinitionAssumption DEF Names
    <2>5. QED
      BY <2>4 DEF list
  <1>6. ASSUME NEW n \in Names(Current)
        PROVE  /\ child'[n] # Nil /\ child'[n].uid = child[n].uid
               /\ child'[n].value = child[n].value /\ child'[n].version = child[n].version
    BY <1>0, <1>2, <1>3, <1>5, OwnedStays
  <1>7. {<<n, child[n].uid>> : n \in Names(Current)} = {<<n, child'[n].uid>> : n \in Names(Current)}
    <2> DEFINE S == Names(Current)
               u(n) == child[n].uid
               w(n) == child'[n].uid
    <2>1. \A n \in S : u(n) = w(n)
      BY <1>6
    <2> HIDE DEF S, u, w
    <2>2. {<<n, u(n)>> : n \in S} = {<<n, w(n)>> : n \in S}
      BY <2>1
    <2>3. QED
      BY <2>2 DEF S, u, w
  <1>8. QED
    BY <1>1, <1>3, <1>4, <1>5, <1>6, <1>7

\* The write of Ready that changes nothing, which no event follows: the copy it
\* is made from, and was expanded from, is the definition.
LEMMA RestReached ==
  ASSUME Running, pc = "ready", dcache = def, def # Nil, def' = Ready(def), Done,
         UNCHANGED <<dcache, child>>, AtRest'
  PROVE  AtRestExpanded'
  <1>0. /\ TypeOK /\ IndexInv /\ CopyInv /\ ValuesInv /\ ExpandedInv
    BY DEF Running, Typed
  <1>1. pending' = pending /\ values' = values /\ ~pending
    BY DEF Done, Return, AtRest
  <1>2. def' = def
    BY DEF AtRest
  <1>3. def \in Definitions /\ known \subseteq Name \X Nat
    BY <1>0 DEF TypeOK
  <1>4. def.status = "Ready" /\ (def.kind = "ResourceDefinition" => def.known = known)
    <2>1. Ready(def) = def
      BY <1>2
    <2>2. /\ Ready(def).status = "Ready"
          /\ def.kind = "ResourceDefinition" => Ready(def).known = known
      BY <1>3, ReadyWrites
    <2>3. QED
      BY <2>1, <2>2
  <1>5. obj = def
    BY <1>0, <1>1 DEF CopyInv
  <1>6. Current = values
    BY <1>0, <1>5 DEF ValuesInv, Current
  <1> DEFINE k == Len(values)
  <1>7. values \in Seq(Value) /\ DOMAIN values = 1..k
    BY RoundDone
  <1>8. \A n \in Names(values) : WrittenFrom(n, k, def.version)
    BY <1>5, RoundDone
  <1>10. ASSUME NEW n \in Names(values)
         PROVE  /\ child[n] # Nil
                /\ child[n].version = def.version
                /\ child[n].value = Last(values, n)
    <2>1. child[n] # Nil /\ child[n].version = def.version
      BY <1>8 DEF WrittenFrom
    <2>2. PICK i \in 1..k :
            /\ NameOf[values[i]] = n /\ child[n].value = values[i]
            /\ \A j \in 1..k : NameOf[values[j]] = n => j <= i
      BY <1>8 DEF WrittenFrom
    <2>3. Last(values, n) = values[i]
      BY <1>7, <2>2, LastIs
    <2>4. QED
      BY <2>1, <2>2, <2>3
  <1>11. known = {<<n, child[n].uid>> : n \in Names(values)}
    BY RoundDone
  <1>12. Current' = values /\ Names(Current)' = Names(values)
         /\ \A n \in Name : Last(Current, n)' = Last(values, n)
    BY <1>1, <1>2, <1>6 DEF Current, Names, Last
  <1>13. SUFFICES /\ def'.status = "Ready"
                  /\ \A n \in Names(Current)' :
                       /\ child'[n] # Nil
                       /\ child'[n].version = def'.version
                       /\ child'[n].value = Last(Current, n)'
                  /\ def'.kind = "ResourceDefinition" =>
                       def'.known = {<<n, child'[n].uid>> : n \in Names(Current)'}
    BY DEF AtRestExpanded, Last
  <1>14. \A n \in Names(values) : Last(Current, n)' = Last(values, n)
    BY <1>12 DEF Last
  <1> HIDE DEF k
  <1>15. QED
    BY <1>2, <1>4, <1>10, <1>11, <1>12, <1>14

LEMMA RestStep ==
  ASSUME Running, AtRestExpanded, [Next]_vars, NamesFree
  PROVE  AtRestExpanded'
  <1>0. Typed /\ TypeOK /\ VersionsInv /\ OwnersInv
    BY DEF Running, Typed
  <1>1. CASE ~(AtRest' /\ def' # Nil)
    BY <1>1 DEF AtRestExpanded
  <1>2. CASE Stays
    BY <1>2, RestStays
  <1>3. CASE ByUser /\ AtRest' /\ def' # Nil
    <2>1. dcache' = dcache /\ dcache' = def' /\ UNCHANGED worker
      BY <1>3 DEF ByUser, AtRest
    <2>2. CASE def = Nil
      BY <1>3, <2>1, <2>2 DEF NamesFree, NameIsFree
    <2>3. CASE Edited
      <3>1. dcache.uid = def.uid /\ dcache.version = def.version + 1 /\ def # Nil /\ dcache # Nil
        BY <1>3, <2>1, <2>3 DEF Edited
      <3>2. def \in Definitions
        BY <1>0, <3>1 DEF TypeOK
      <3>3. def.version \in Nat
        BY <3>2 DEF Definitions
      <3>4. dcache.version <= def.version
        BY <1>0, <3>1 DEF VersionsInv
      <3>5. QED
        BY <3>1, <3>3, <3>4
    <2>4. QED
      BY <1>3, <2>2, <2>3 DEF ByUser, Created, Deleted
  <1>4. CASE Delivers
    BY <1>1, <1>4 DEF Delivers, AtRest
  <1>5. CASE Restarts
    BY <1>1, <1>5 DEF Restarts, AtRest
  <1>6. CASE ByWorker
    <2>1. CASE GivenUp \/ Drops
      BY <1>1, <1>6, <2>1 DEF ByWorker, GivenUp, Requeue, Drops, definition, AtRest
    <2>2. CASE Begins \/ Advances \/ Expands
      BY <1>1, <2>2 DEF Begins, Advances, Expands, AtRest
    <2>3. CASE Writes /\ AtRest'
      <3>1. def # Nil /\ UNCHANGED <<dcache, child>> /\ pc' = "idle"
        BY <2>3 DEF Writes, objects, AtRest
      <3>2. pc = "ready" /\ dcache = def /\ def' = Ready(def) /\ Done
        BY <2>3, <3>1 DEF Writes
      <3>3. QED
        BY <2>3, <3>1, <3>2, RestReached
    <2>4. QED
      BY <1>1, <1>6, <2>1, <2>2, <2>3 DEF ByWorker
  <1>7. QED
    BY <1>0, <1>1, <1>2, <1>3, <1>4, <1>5, <1>6, Steps

\* As long as the name of a definition is only used again when nothing is left of
\* the one that had it: when everything is quiet the definition is Ready, every
\* value of its generator has its object, written from the current template and
\* the last value of the name, and the status lists exactly those, whatever was
\* edited, refused, failed or restarted on the way.
THEOREM DefinitionExpanded == Spec /\ NamesRest => []AtRestExpanded
  <1> DEFINE Inv == Running /\ AtRestExpanded
  <1>1. Init => Inv
    <2> SUFFICES ASSUME Init PROVE Inv
      OBVIOUS
    <2>1. Typed
      BY TypedInit
    <2>2. VersionsInv /\ OwnersInv /\ CopyInv /\ ValuesInv /\ ExpandedInv /\ AtRestExpanded
      BY DEF Init, VersionsInv, OwnersInv, CopyInv, ValuesInv, ExpandedInv, AtRestExpanded
    <2>3. QED
      BY <2>1, <2>2 DEF Running
  <1>2. Inv /\ [Next]_vars /\ [NamesFree]_vars => Inv'
    <2> SUFFICES ASSUME Inv, [Next]_vars, [NamesFree]_vars PROVE Inv'
      OBVIOUS
    <2>1. NamesFree
      BY DEF NamesFree, vars, definition
    <2>2. QED
      BY <2>1, RunningStep, RestStep
  <1>3. Inv => AtRestExpanded
    OBVIOUS
  <1>4. NamesRest => [][NamesFree]_vars
    BY DEF NamesRest, NamesFree
  <1> HIDE DEF Inv
  <1>5. QED
    BY <1>1, <1>2, <1>3, <1>4, PTL DEF Spec

-----------------------------------------------------------------------------
(***************************************************************************)
(* The rounds of an expansion, as ExpansionContract has them.              *)
(***************************************************************************)
Expanding == Running /\ PendingInv /\ OrderInv /\ SpecsInv

LEMMA PendingStep ==
  ASSUME PendingInv, Stays \/ ByUser \/ Delivers \/ Restarts \/ ByWorker
  PROVE  PendingInv'
  <1>1. CASE Stays \/ ByUser \/ Delivers
    BY <1>1 DEF Stays, ByUser, Delivers, worker, PendingInv
  <1>2. CASE Restarts
    BY <1>2 DEF Restarts, Return, PendingInv
  <1>3. CASE ByWorker
    BY <1>3 DEF ByWorker, GivenUp, Requeue, Return, Drops, Begins, Writes, Done, Advances, Expands,
       worker, PendingInv
  <1>4. QED
    BY <1>1, <1>2, <1>3

LEMMA SpecsStep ==
  ASSUME Running, OrderInv, SpecsInv, [Next]_vars, NamesFree
  PROVE  SpecsInv'
  <1> SUFFICES ASSUME def' # Nil, NEW d \in {dcache', obj'}, d # Nil, d.version = def'.version
               PROVE  d.source = def'.source /\ d.list = def'.list
    BY DEF SpecsInv
  <1>0. Typed /\ TypeOK /\ OwnersInv /\ VersionsInv
    BY DEF Running, Typed
  <1>1. CASE def = Nil
    <2>1. ByUser /\ NameIsFree
      BY <1>1, Steps, <1>0 DEF Stays, Delivers, Restarts, ByWorker, GivenUp, Drops, Begins, Writes,
         Advances, Expands, definition, NamesFree
    <2>2. QED
      BY <1>0, <2>1 DEF ByUser, NameIsFree, worker, TypeOK
  <1>2. CASE def # Nil /\ d = def'
    BY <1>2
  <1>3. CASE def # Nil /\ d \in {dcache, obj}
    <2>1. def \in Definitions /\ d \in Definitions
      BY <1>0, <1>3 DEF TypeOK
    <2>2. def.version \in Nat /\ d.version \in Nat
      BY <2>1 DEF Definitions
    <2>3. d.version <= def.version
      BY <1>0, <1>3 DEF OrderInv, VersionsInv, OwnersInv
    <2>4. CASE Edited
      BY <2>2, <2>3, <2>4 DEF Edited
    <2>5. CASE def'.version = def.version /\ def'.source = def.source /\ def'.list = def.list
      BY <1>3, <2>5 DEF SpecsInv
    <2>6. QED
      BY <1>0, <1>3, <2>4, <2>5, Steps DEF Stays, ByUser, Created, Deleted, Delivers, Restarts,
         ByWorker, GivenUp, Drops, Begins, Writes, Advances, Expands, definition
  <1>4. d \in {def', dcache, obj}
    BY <1>0, Steps DEF Stays, ByUser, Delivers, Restarts, ByWorker, GivenUp, Requeue, Return, Drops,
       Begins, Writes, Done, Advances, Expands, definition, worker
  <1>5. QED
    BY <1>1, <1>2, <1>3, <1>4

LEMMA OrderStep ==
  ASSUME Running, OrderInv, [Next]_vars, NamesFree
  PROVE  OrderInv'
  <1>0. Typed /\ TypeOK /\ OwnersInv /\ VersionsInv
    BY DEF Running, Typed
  <1>1. CASE def = Nil /\ def' # Nil
    <2>1. ByUser /\ NameIsFree
      BY <1>0, <1>1, Steps DEF Stays, Delivers, Restarts, ByWorker, GivenUp, Drops, Begins, Writes,
         Advances, Expands, definition, NamesFree
    <2>2. dcache' = Nil /\ obj' = Nil /\ \A n \in Name : child'[n] = Nil
      BY <1>0, <2>1 DEF ByUser, NameIsFree, worker, objects, TypeOK
    <2>3. QED
      BY <2>2 DEF OrderInv
  <1>2. ASSUME def' = Nil \/ def # Nil PROVE OrderInv'
    <2>1. /\ def' # Nil => def.version \in Nat /\ def'.version \in {def.version, def.version + 1}
          /\ def' # Nil /\ dcache # Nil => dcache.version <= def.version
      <3> SUFFICES ASSUME def' # Nil
                   PROVE  /\ def.version \in Nat
                          /\ def'.version \in {def.version, def.version + 1}
                          /\ dcache # Nil => dcache.version <= def.version
        OBVIOUS
      <3>1. def \in Definitions /\ def # Nil
        BY <1>0, <1>2 DEF TypeOK
      <3>2. def'.version \in {def.version, def.version + 1}
        BY <1>0, <3>1, Steps DEF Stays, ByUser, Created, Edited, Deleted, Delivers, Restarts,
           ByWorker, GivenUp, Drops, Begins, Writes, Advances, Expands, definition
      <3>3. dcache # Nil => dcache.version <= def.version
        BY <1>0, <3>1 DEF OwnersInv, VersionsInv
      <3>4. QED
        BY <3>1, <3>2, <3>3 DEF Definitions
    <2>2. /\ \A d \in {def, dcache, obj} \ {Nil} : d.version \in Nat
          /\ \A n \in Name : child[n] # Nil => child[n].version \in Nat
      BY <1>0 DEF TypeOK, Definitions, Objects
    <2>3. /\ \/ dcache' = dcache
             \/ dcache' = def' /\ def' = def
          /\ \/ obj' \in {obj, Nil}
             \/ obj' = dcache /\ UNCHANGED <<def, dcache, objects>>
      BY <1>0, Steps DEF Stays, ByUser, Delivers, Restarts, ByWorker, GivenUp, Requeue, Return,
         Drops, Begins, Writes, Done, Advances, Expands, definition, worker
    <2>4. ASSUME NEW d \in {def', dcache', obj'}, d # Nil
          PROVE  \E e \in {def, dcache, obj} \ {Nil} : e.version <= d.version
      <3>1. CASE d = def'
        <4>1. def # Nil /\ def.version <= d.version
          BY <1>2, <2>1, <2>4, <3>1
        <4>2. QED
          BY <4>1
      <3>2. CASE d \in {def, dcache, obj}
        <4>1. d.version <= d.version
          BY <2>2, <2>4, <3>2
        <4>2. QED
          BY <2>4, <3>2, <4>1
      <3>3. QED
        BY <2>3, <2>4, <3>1, <3>2
    <2>5. obj' # Nil => \A d \in {def', dcache'} \ {Nil} : obj'.version <= d.version
      BY <1>2, <2>1, <2>2, <2>3 DEF OrderInv
    <2>6. ASSUME NEW n \in Name, child'[n] # Nil
          PROVE  \/ child[n] # Nil /\ child'[n].version = child[n].version
                 \/ Expands /\ child'[n].version = obj.version
      <3>1. CASE Stays
        BY <2>6, <3>1 DEF Stays, ObjectsMove, Collected, Touched
      <3>2. CASE Expands
        BY <1>0, <2>6, <3>2 DEF Expands, Written, TypeOK
      <3>3. CASE UNCHANGED child
        BY <2>6, <3>3
      <3>4. QED
        BY <1>0, <3>1, <3>2, <3>3, Steps DEF ByUser, Delivers, Restarts, ByWorker, GivenUp, Drops,
           Begins, Writes, Advances, objects
    <2>7. ASSUME NEW d \in {def', dcache', obj'}, d # Nil, NEW n \in Name, child'[n] # Nil
          PROVE  child'[n].version <= d.version
      <3>1. CASE child[n] # Nil /\ child'[n].version = child[n].version
        <4>1. PICK e \in {def, dcache, obj} \ {Nil} : e.version <= d.version
          BY <2>4, <2>7
        <4>2. child[n].version <= e.version /\ child[n].version \in Nat /\ e.version \in Nat
          BY <2>2, <3>1 DEF OrderInv
        <4>3. d \in Definitions
          BY <1>0, <2>7, TypedStep DEF Typed, TypeOK
        <4>4. d.version \in Nat
          BY <4>3 DEF Definitions
        <4>5. QED
          BY <3>1, <4>1, <4>2, <4>4
      <3>2. CASE Expands /\ child'[n].version = obj.version
        <4>1. UNCHANGED <<def, dcache, obj>> /\ obj # Nil
          BY <1>0, <3>2 DEF Expands, definition, TypeOK
        <4>2. obj.version \in Nat
          BY <2>2, <4>1
        <4>3. QED
          BY <2>7, <3>2, <4>1, <4>2 DEF OrderInv
      <3>3. QED
        BY <2>6, <2>7, <3>1, <3>2
    <2>8. QED
      BY <2>5, <2>7 DEF OrderInv
  <1>3. QED
    BY <1>1, <1>2

-----------------------------------------------------------------------------
\* What the contract sees stays the same over a step that changes nothing of it.
Seen(n) == [m \in Name |-> Shown(m)][n]

LEMMA SameAsked ==
  ASSUME UNCHANGED def
  PROVE  UNCHANGED <<Asked, Status>>
  BY DEF Asked, Status

LEMMA SameRound ==
  ASSUME UNCHANGED <<pc, obj, values, index>> \/ (~InRound /\ ~InRound')
  PROVE  UNCHANGED <<Round, IF InRound THEN index - 1 ELSE 0>>
  BY DEF Round, InRound

LEMMA SameObjects ==
  ASSUME UNCHANGED child
  PROVE  UNCHANGED [n \in Name |-> Shown(n)]
  BY DEF Shown

\* What the contract sees of a definition, and of an object.
Asking(d) ==
  [uid |-> d.uid, version |-> d.version, kind |-> d.kind, source |-> d.source, list |-> d.list]

LEMMA AskingTyped ==
  ASSUME NEW d \in Definitions
  PROVE  Asking(d) \in Contract!Askings /\ Asking(d) # Nil
  <1>1. d.list \in Seq(Value)
    BY DefinitionAssumption DEF Definitions
  <1>2. Asking(d) \in Contract!Askings
    BY <1>1 DEF Asking, Contract!Askings, Definitions, Kinds, Sources
  <1>3. QED
    BY <1>2, ContractAssumption

LEMMA AskedTyped ==
  ASSUME TypeOK, def # Nil
  PROVE  /\ Asked \in Contract!Askings /\ Asked # Nil
         /\ Asked.uid = def.uid /\ Asked.version = def.version /\ Asked.kind = def.kind
         /\ Asked.source = def.source /\ Asked.list = def.list
  <1>1. def \in Definitions /\ Asked = Asking(def)
    BY DEF TypeOK, Asked, Asking
  <1>2. QED
    BY <1>1, AskingTyped DEF Asking

LEMMA ShownTyped ==
  ASSUME TypeOK, NEW n \in Name
  PROVE  /\ child[n] = Nil => Shown(n) = Nil
         /\ child[n] # Nil =>
              /\ Shown(n) \in Contract!Objects /\ Shown(n) # Nil
              /\ Shown(n).uid = child[n].uid /\ Shown(n).owner = child[n].owner
              /\ Shown(n).value = child[n].value /\ Shown(n).version = child[n].version
  <1>1. CASE child[n] = Nil
    BY <1>1 DEF Shown
  <1>2. CASE child[n] # Nil
    <2>1. child[n] \in Objects
      BY <1>2 DEF TypeOK
    <2>2. Shown(n) \in Contract!Objects
      BY <1>2, <2>1 DEF Shown, Contract!Objects, Objects
    <2>3. QED
      BY <1>2, <2>2, ContractAssumption DEF Shown
  <1>3. QED
    BY <1>1, <1>2

LEMMA RoundTyped ==
  ASSUME TypeOK, InRound
  PROVE  Round \in Contract!Rounds /\ Round # Nil /\ obj \in Definitions
  <1>1. obj \in Definitions
    BY DEF TypeOK, InRound
  <1>2. values \in Seq(Value)
    BY ValuesType
  <1>3. Round \in Contract!Rounds
    BY <1>1, <1>2 DEF Round, Contract!Rounds, Definitions
  <1>4. QED
    BY <1>1, <1>3, ContractAssumption

-----------------------------------------------------------------------------
\* How each step maps to the contract.
ContractStep == Contract!Next \/ UNCHANGED Contract!vars

LEMMA ContractUsers ==
  ASSUME Typed, ByUser
  PROVE  ContractStep
  <1>0. TypeOK
    BY DEF Typed
  <1>1. UNCHANGED <<Round, IF InRound THEN index - 1 ELSE 0>>
    BY SameRound DEF ByUser, worker
  <1>2. UNCHANGED [n \in Name |-> Shown(n)]
    BY SameObjects DEF ByUser, objects
  <1>3. CASE Created
    <2>1. Asked = Nil /\ Asked' \in Contract!Askings
      <3>1. Asked' = Asking(def') /\ def' \in Definitions
        BY <1>3 DEF Created, Asked, Asking
      <3>2. QED
        BY <1>3, <3>1, AskingTyped DEF Created, Asked
    <2>2. Status' = [ready |-> FALSE, listed |-> {}]
      BY <1>3 DEF Created, Status
    <2>3. Contract!Ask
      BY <1>1, <1>2, <2>1, <2>2 DEF Contract!Ask
    <2>4. QED
      BY <2>3 DEF ContractStep, Contract!Next
  <1>4. CASE Edited
    <2>1. Asked \in Contract!Askings /\ Asked # Nil /\ Asked' \in Contract!Askings
      <3>1. Asked' = Asking(def') /\ def' \in Definitions
        BY <1>4 DEF Edited, Asked, Asking
      <3>2. QED
        BY <1>0, <1>4, <3>1, AskingTyped, AskedTyped DEF Edited
    <2>2. Asked'.uid = Asked.uid /\ Asked'.version > Asked.version
      <3>1. def.version \in Nat
        BY <1>0, <1>4 DEF Edited, TypeOK, Definitions
      <3>2. QED
        BY <1>4, <3>1 DEF Edited, Asked
    <2>3. Status' = Status
      BY <1>4 DEF Edited, Status
    <2>4. Contract!Change
      BY <1>1, <1>2, <2>1, <2>2, <2>3 DEF Contract!Change
    <2>5. QED
      BY <2>4 DEF ContractStep, Contract!Next
  <1>5. CASE Deleted
    <2>1. Asked' = Nil /\ Status' = Nil
      BY <1>5 DEF Deleted, Asked, Status
    <2>2. CASE def = Nil
      <3>1. UNCHANGED <<Asked, Status>>
        BY <2>1, <2>2 DEF Asked, Status
      <3>2. QED
        BY <1>1, <1>2, <3>1 DEF ContractStep, Contract!vars
    <2>3. CASE def # Nil
      <3>1. Contract!Withdraw
        BY <1>0, <1>1, <1>2, <2>1, <2>3, AskedTyped DEF Contract!Withdraw
      <3>2. QED
        BY <3>1 DEF ContractStep, Contract!Next
    <2>4. QED
      BY <2>2, <2>3
  <1>6. QED
    BY <1>3, <1>4, <1>5 DEF ByUser

LEMMA ContractCollects ==
  ASSUME Typed, NEW n \in Name, Collect(n)
  PROVE  ContractStep
  <1>0. TypeOK
    BY DEF Typed
  <1>1. UNCHANGED <<Asked, Status>> /\ UNCHANGED <<Round, IF InRound THEN index - 1 ELSE 0>>
    BY SameAsked, SameRound DEF Collect, definition, worker
  <1>2. Seen(n) # Nil /\ (Asked # Nil => Seen(n).owner # Asked.uid)
    BY <1>0, ShownTyped, AskedTyped DEF Collect, Owned, Seen, Asked
  <1>3. [m \in Name |-> Shown(m)]' = [[m \in Name |-> Shown(m)] EXCEPT ![n] = Nil]
    BY <1>0 DEF Collect, Shown, TypeOK
  <1>4. Contract!Remove(n)
    BY <1>1, <1>2, <1>3 DEF Contract!Remove, Seen
  <1>5. QED
    BY <1>4 DEF ContractStep, Contract!Next

LEMMA ContractTouched ==
  ASSUME Typed, NEW n \in Name, Touch(n)
  PROVE  ContractStep
  <1>0. TypeOK
    BY DEF Typed
  <1>1. UNCHANGED <<Asked, Status>> /\ UNCHANGED <<Round, IF InRound THEN index - 1 ELSE 0>>
    BY SameAsked, SameRound DEF Touch, definition, worker
  <1>2. ASSUME NEW m \in Name PROVE Shown(m)' = Shown(m)
    <2>1. child[n] \in Objects /\ child[n] # Nil
      BY <1>0 DEF Touch, TypeOK
    <2> DEFINE t == child[n].touched + 1
               x == [child[n] EXCEPT !.touched = t]
    <2>2. child' = [child EXCEPT ![n] = x]
      BY DEF Touch
    <2>3. t \in Nat
      BY <2>1 DEF Objects
    <2> HIDE DEF t
    <2>4. x \in Objects /\ x.uid = child[n].uid /\ x.owner = child[n].owner
          /\ x.value = child[n].value /\ x.version = child[n].version
      BY <2>1, <2>3 DEF Objects
    <2>5. x # Nil
      BY <2>4, DefinitionAssumption
    <2> HIDE DEF x
    <2>6. QED
      BY <1>0, <2>1, <2>2, <2>4, <2>5 DEF Shown, TypeOK
  <1>3. UNCHANGED [m \in Name |-> Shown(m)]
    BY <1>2
  <1>4. QED
    BY <1>1, <1>3 DEF ContractStep, Contract!vars

LEMMA ContractWorld ==
  ASSUME Typed, World \/ UNCHANGED vars
  PROVE  ContractStep
  <1>1. CASE ByUser
    BY <1>1, ContractUsers
  <1>2. CASE \E n \in Name : Collect(n) \/ Touch(n)
    BY <1>2, ContractCollects, ContractTouched
  <1>3. CASE UNCHANGED <<def, child, worker>>
    <2>1. /\ UNCHANGED <<Asked, Status>>
          /\ UNCHANGED <<Round, IF InRound THEN index - 1 ELSE 0>>
          /\ UNCHANGED [n \in Name |-> Shown(n)]
      BY <1>3, SameAsked, SameRound, SameObjects DEF worker
    <2>2. QED
      BY <2>1 DEF ContractStep, Contract!vars
  <1>4. CASE Delivers
    BY <1>3, <1>4 DEF Delivers, objects
  <1>5. QED
    <2>1. CASE CreateDefinition \/ EditDefinition \/ DeleteDefinition
      <3>1. ByUser \/ Delivers \/ UNCHANGED <<def, child, worker>>
        <4>1. Stays => UNCHANGED <<def, worker>>
          BY DEF Stays, definition
        <4>2. UNCHANGED child
          BY <2>1 DEF CreateDefinition, EditDefinition, DeleteDefinition, objects
        <4>3. QED
          BY <4>1, <4>2, WorldSteps DEF Typed
      <3>2. QED
        BY <1>1, <1>3, <1>4, <3>1
    <2>2. CASE DeliverDefinition \/ Offer \/ UNCHANGED vars
      BY <1>3, <2>2 DEF DeliverDefinition, Offer, vars, definition, objects
    <2>3. ASSUME NEW n \in Name, DeliverObject(n) PROVE UNCHANGED <<def, child, worker>>
      BY <2>3 DEF DeliverObject, definition
    <2>4. QED
      BY <1>2, <1>3, <2>1, <2>2, <2>3 DEF World

\* A round, or a reconciliation before it, that ends in an error or a restart.
LEMMA ContractGivesUp ==
  ASSUME Typed, Return, UNCHANGED <<def, child>>
  PROVE  ContractStep
  <1>0. TypeOK
    BY DEF Typed
  <1>1. UNCHANGED <<Asked, Status>> /\ UNCHANGED [n \in Name |-> Shown(n)]
    BY SameAsked, SameObjects
  <1>2. ~InRound'
    BY DEF Return, InRound
  <1>3. CASE InRound
    <2>1. Round # Nil /\ Round' = Nil /\ (IF InRound THEN index - 1 ELSE 0)' = 0
      BY <1>0, <1>2, <1>3, RoundTyped DEF Round
    <2>2. Contract!GiveUp
      BY <1>1, <2>1 DEF Contract!GiveUp, Contract!End
    <2>3. QED
      BY <2>2 DEF ContractStep, Contract!Next
  <1>4. CASE ~InRound
    <2>1. UNCHANGED <<Round, IF InRound THEN index - 1 ELSE 0>>
      BY <1>2, <1>4, SameRound
    <2>2. QED
      BY <1>1, <2>1 DEF ContractStep, Contract!vars
  <1>5. QED
    BY <1>3, <1>4

\* The worker's copy is of the definition there is, or of an earlier version.
LEMMA CopyIsAbout ==
  ASSUME Expanding, def # Nil, pc # "idle"
  PROVE  /\ obj.uid = def.uid /\ obj.version <= def.version
         /\ obj.version = def.version => obj.source = def.source /\ obj.list = def.list
  BY DEF Expanding, Running, Typed, TypeOK, OwnersInv, OrderInv, SpecsInv

LEMMA ContractAdvances ==
  ASSUME Expanding, Advances
  PROVE  ContractStep
  <1>0. Typed /\ TypeOK /\ IndexInv
    BY DEF Expanding, Running, Typed
  <1>1. UNCHANGED <<Asked, Status>> /\ UNCHANGED [n \in Name |-> Shown(n)]
    BY SameAsked, SameObjects DEF Advances, definition, objects
  <1>2. CASE pc = "reread" /\ pc' = "resolve"
    <2>1. UNCHANGED <<Round, IF InRound THEN index - 1 ELSE 0>>
      BY <1>2, SameRound DEF InRound
    <2>2. QED
      BY <1>1, <2>1 DEF ContractStep, Contract!vars
  <1>3. CASE pc = "expand" /\ pc' = "ready" /\ UNCHANGED <<obj, Locals>>
    <2>1. UNCHANGED <<Round, IF InRound THEN index - 1 ELSE 0>>
      BY <1>3 DEF Round, InRound, Locals
    <2>2. QED
      BY <1>1, <2>1 DEF ContractStep, Contract!vars
  <1>4. CASE pc = "resolve" /\ values' = Resolved /\ pc' = "expand" /\ UNCHANGED <<obj, index, known>>
    <2>1. Round = Nil /\ (IF InRound THEN index - 1 ELSE 0)' = 0
      BY <1>0, <1>4 DEF Round, InRound, IndexInv
    <2>2. Round' = [uid |-> obj.uid, version |-> obj.version, values |-> Resolved]
      BY <1>4 DEF Round, InRound
    <2>3. obj \in Definitions /\ obj # Nil
      BY <1>0, <1>4 DEF TypeOK
    <2>4. Resolved \in Seq(Value)
      BY <1>0, <2>3, ResolvedType
    <2>5. Round' \in Contract!Rounds
      BY <2>2, <2>3, <2>4 DEF Contract!Rounds, Definitions
    <2>6. ASSUME Asked # Nil
          PROVE  /\ Round'.uid = Asked.uid /\ Round'.version <= Asked.version
                 /\ Round'.version = Asked.version /\ Asked.source = "list" => Round'.values = Asked.list
      <3>1. def # Nil
        BY <2>6 DEF Asked
      <3>2. QED
        BY <1>0, <1>4, <2>2, <3>1, CopyIsAbout, AskedTyped DEF Resolved
    <2>7. ASSUME NEW n \in Name, Seen(n) # Nil PROVE Seen(n).version <= Round'.version
      BY <1>0, <2>2, <2>3, <2>7, ShownTyped DEF Seen, Expanding, OrderInv
    <2>8. Contract!Begin
      BY <1>1, <2>1, <2>5, <2>6, <2>7 DEF Contract!Begin, Contract!IsAbout, Seen
    <2>9. QED
      BY <2>8 DEF ContractStep, Contract!Next
  <1>5. QED
    BY <1>2, <1>3, <1>4 DEF Advances

LEMMA ContractPuts ==
  ASSUME Typed, Expands
  PROVE  ContractStep
  <1> PICK n : n = NameNow
    OBVIOUS
  <1>0. TypeOK /\ pc = "expand" /\ pc' = "expand" /\ InRound /\ InRound'
    BY DEF Typed, Expands, InRound
  <1>1. /\ index \in 1..Len(values) /\ index' = index + 1 /\ values \in Seq(Value)
        /\ n \in Name /\ Written(n) /\ UNCHANGED <<def, obj, values>>
    BY <1>0, NowTyped, ValuesType DEF Expands, definition
  <1>2. UNCHANGED <<Asked, Status>> /\ Round' = Round
    BY <1>0, <1>1, SameAsked DEF Round
  <1>3. /\ Round # Nil /\ Round.values = values /\ Round.version = obj.version
        /\ Round.uid = obj.uid
    BY <1>0, RoundTyped DEF Round
  <1> DEFINE done == IF InRound THEN index - 1 ELSE 0
  <1>4. done < Len(values) /\ done' = done + 1 /\ done + 1 = index
    BY <1>0, <1>1
  <1>5. Shown(n)' = [uid |-> child'[n].uid, owner |-> child'[n].owner,
                     value |-> child'[n].value, version |-> child'[n].version]
    BY <1>1 DEF Shown, Written
  <1>6. Shown(n)' \in Contract!Objects
    BY <1>1, <1>5 DEF Written, Contract!Objects, Objects
  <1>7. /\ Shown(n)'.value = ValueNow /\ Shown(n)'.version = obj.version
        /\ child[n] = Nil => Shown(n)'.owner = obj.uid
        /\ child[n] # Nil => Shown(n)'.owner = child[n].owner /\ Shown(n)'.uid = child[n].uid
    BY <1>1, <1>5 DEF Written
  <1>8. /\ Shown(n) = Nil => Shown(n)'.owner = Round.uid
        /\ Shown(n) # Nil => Shown(n)'.owner = Shown(n).owner /\ Shown(n)'.uid = Shown(n).uid
    BY <1>0, <1>1, <1>3, <1>7, ShownTyped
  <1>9. \A m \in Name \ {n} : Shown(m)' = Shown(m)
    BY <1>0, <1>1 DEF Shown, Written, TypeOK
  <1> DEFINE shown == [m \in Name |-> Shown(m)]
  <1>10. shown' = [shown EXCEPT ![n] = shown'[n]] /\ shown[n] = Shown(n) /\ shown'[n] = Shown(n)'
    BY <1>1, <1>9
  <1>11. ValueNow = values[index] /\ n = NameOf[values[index]]
    BY DEF ValueNow, NameNow
  <1> HIDE DEF done, shown
  <1>12. Contract!Put
    BY <1>2, <1>3, <1>4, <1>6, <1>7, <1>8, <1>10, <1>11 DEF Contract!Put, done, shown
  <1>13. QED
    BY <1>12 DEF ContractStep, Contract!Next

LEMMA ContractAnnounces ==
  ASSUME Expanding, pc = "ready", def # Nil, def' \in Definitions, def' # Nil,
         def'.uid = def.uid, def'.version = def.version, def'.kind = def.kind,
         def'.source = def.source, def'.list = def.list, def' = Ready(def), Done, UNCHANGED child
  PROVE  Contract!Announce
  <1>0. TypeOK /\ ValuesInv /\ InRound
    BY DEF Expanding, Running, Typed, InRound
  <1>1. UNCHANGED [n \in Name |-> Shown(n)]
    BY SameObjects
  <1>2. Asked' = Asked
    BY DEF Asked
  <1>3. Round # Nil /\ Round = [uid |-> obj.uid, version |-> obj.version, values |-> values]
    BY <1>0, RoundTyped DEF Round
  <1>4. /\ Asked # Nil /\ Asked.uid = def.uid /\ Asked.version = def.version
        /\ Asked.kind = def.kind /\ Asked.source = def.source /\ Asked.list = def.list
    BY <1>0, AskedTyped
  <1>5. /\ Round.uid = Asked.uid /\ Round.version <= Asked.version
        /\ Round.version = Asked.version /\ Asked.source = "list" => Round.values = Asked.list
    BY <1>0, <1>3, <1>4, CopyIsAbout DEF ValuesInv
  <1>6. /\ values \in Seq(Value) /\ index - 1 = Len(values) /\ Names(values) \subseteq Name
        /\ \A n \in Names(values) : WrittenFrom(n, Len(values), obj.version)
        /\ known = {<<n, child[n].uid>> : n \in Names(values)}
    BY RoundDone DEF Expanding
  <1>7. \A n \in Names(values) : /\ Seen(n) # Nil /\ Seen(n).version = obj.version
                                /\ Seen(n).uid = child[n].uid
    BY <1>0, <1>6, ShownTyped DEF Seen, WrittenFrom
  <1>8. known = {<<n, Seen(n).uid>> : n \in Names(values)}
    <2> DEFINE u(n) == child[n].uid
               w(n) == Seen(n).uid
    <2>1. \A n \in Names(values) : u(n) = w(n)
      BY <1>7
    <2>2. known = {<<n, u(n)>> : n \in Names(values)}
      BY <1>6
    <2> HIDE DEF u, w
    <2>3. known = {<<n, w(n)>> : n \in Names(values)}
      BY <2>1, <2>2
    <2>4. QED
      BY <2>3 DEF w
  <1>9. Contract!RoundNames = Names(values)
    BY <1>3 DEF Contract!RoundNames, Names
  <1>10. Status' = [ready |-> TRUE, listed |-> IF Asked.kind = "ResourceDefinition"
                                                THEN known ELSE Status.listed]
    <2>1. def \in Definitions /\ known \subseteq Name \X Nat
      BY <1>0 DEF TypeOK
    <2>2. /\ Ready(def).status = "Ready"
          /\ Ready(def).known = IF def.kind = "ResourceDefinition" THEN known ELSE def.known
      BY <2>1 DEF Ready, ReadyWithList, ReadyAlone, Definitions
    <2>3. Status.listed = def.known
      BY DEF Status
    <2>4. QED
      BY <1>4, <2>2, <2>3 DEF Status
  <1>11. Round' = Nil /\ (IF InRound THEN index - 1 ELSE 0)' = 0
    BY DEF Done, Return, Round, InRound
  <1>12. (IF InRound THEN index - 1 ELSE 0) = Len(Round.values)
    BY <1>0, <1>3, <1>6
  <1>13. /\ \A n \in Contract!RoundNames : Seen(n) # Nil /\ Seen(n).version = Round.version
         /\ Status' = [ready |-> TRUE,
                       listed |-> IF Asked.kind = "ResourceDefinition"
                                    THEN {<<n, Seen(n).uid>> : n \in Contract!RoundNames}
                                    ELSE Status.listed]
    BY <1>3, <1>7, <1>8, <1>9, <1>10
  <1>14. QED
    BY <1>1, <1>2, <1>3, <1>4, <1>5, <1>11, <1>12, <1>13
       DEF Contract!Announce, Contract!IsAbout, Contract!End, Seen

LEMMA ContractWrites ==
  ASSUME Expanding, Writes
  PROVE  ContractStep
  <1>0. TypeOK /\ PendingInv
    BY DEF Expanding, Running, Typed
  <1>1. CASE /\ pc = "pending" /\ pc' = "reread" /\ def = obj
             /\ def'.status = "Pending" /\ def'.known = def.known
    <2>1. UNCHANGED <<Round, IF InRound THEN index - 1 ELSE 0>>
      BY <1>1, SameRound DEF InRound
    <2>2. UNCHANGED [n \in Name |-> Shown(n)]
      BY SameObjects DEF Writes, objects
    <2>3. def.status = ""
      BY <1>0, <1>1 DEF PendingInv
    <2>4. UNCHANGED <<Asked, Status>>
      BY <1>1, <2>3 DEF Writes, Asked, Status
    <2>5. QED
      BY <2>1, <2>2, <2>4 DEF ContractStep, Contract!vars
  <1>2. CASE pc = "ready" /\ dcache = def /\ def' = Ready(def) /\ Done
    <2>1. Contract!Announce
      BY <1>2, ContractAnnounces DEF Writes, objects
    <2>2. QED
      BY <2>1 DEF ContractStep, Contract!Next
  <1>3. QED
    BY <1>1, <1>2 DEF Writes

LEMMA ContractWorker ==
  ASSUME Expanding, ByWorker
  PROVE  ContractStep
  <1>0. Typed
    BY DEF Expanding, Running
  <1>1. CASE GivenUp
    BY <1>0, <1>1, ContractGivesUp DEF GivenUp, Requeue, definition, objects
  <1>2. CASE Drops
    <2>1. UNCHANGED <<def, child, pc, obj, values, index>>
      BY <1>2 DEF Drops, definition, objects, worker
    <2>2. QED
      BY <2>1, SameAsked, SameRound, SameObjects DEF ContractStep, Contract!vars
  <1>3. CASE Begins
    <2>1. UNCHANGED <<def, child>> /\ ~InRound /\ ~InRound'
      BY <1>3 DEF Begins, definition, objects, InRound
    <2>2. QED
      BY <2>1, SameAsked, SameRound, SameObjects DEF ContractStep, Contract!vars
  <1>4. QED
    BY <1>0, <1>1, <1>2, <1>3, ContractWrites, ContractAdvances, ContractPuts DEF ByWorker

\* As long as the name of a definition is only used again when nothing is left of
\* the one that had it, a definition is expanded in the rounds of ExpansionContract:
\* each about one version and all its values, never after one of a later version,
\* and Ready, with that round's objects listed, only at the end of a whole one,
\* whatever is edited, refused, collected, failed or restarted in between.
THEOREM ExpansionImplemented == Spec /\ NamesRest => ImplementsExpansion
  <1>1. Init => Expanding /\ Contract!Init
    <2> SUFFICES ASSUME Init PROVE Expanding /\ Contract!Init
      OBVIOUS
    <2>1. Typed
      BY TypedInit
    <2>2. /\ VersionsInv /\ OwnersInv /\ CopyInv /\ ValuesInv /\ ExpandedInv
          /\ PendingInv /\ OrderInv /\ SpecsInv
      BY DEF Init, VersionsInv, OwnersInv, CopyInv, ValuesInv, ExpandedInv, PendingInv, OrderInv, SpecsInv
    <2>3. Contract!Init
      BY DEF Init, Contract!Init, Asked, Status, Round, InRound, Shown
    <2>4. QED
      BY <2>1, <2>2, <2>3 DEF Expanding, Running
  <1>2. Expanding /\ [Next]_vars /\ [NamesFree]_vars => Expanding'
    <2> SUFFICES ASSUME Expanding, [Next]_vars, [NamesFree]_vars PROVE Expanding'
      OBVIOUS
    <2>1. NamesFree /\ Running /\ Typed
      BY DEF NamesFree, vars, definition, Expanding, Running
    <2>2. PendingInv'
      BY <2>1, Steps, PendingStep DEF Expanding
    <2>3. SpecsInv' /\ OrderInv'
      BY <2>1, SpecsStep, OrderStep DEF Expanding
    <2>4. Running'
      BY <2>1, RunningStep
    <2>5. QED
      BY <2>2, <2>3, <2>4 DEF Expanding
  <1>3. Expanding /\ [Next]_vars => [Contract!Next]_(Contract!vars)
    <2> SUFFICES ASSUME Expanding, [Next]_vars PROVE ContractStep
      BY DEF ContractStep
    <2>1. Typed
      BY DEF Expanding, Running
    <2>2. CASE World \/ UNCHANGED vars
      BY <2>1, <2>2, ContractWorld
    <2>3. CASE Crash
      BY <2>1, <2>3, ContractGivesUp DEF Crash
    <2>4. CASE Reconcile
      BY <2>1, <2>4, WorkerSteps, ContractWorker DEF ByWorker
    <2>5. QED
      BY <2>2, <2>3, <2>4 DEF Next
  <1>4. NamesRest => [][NamesFree]_vars
    BY DEF NamesRest, NamesFree
  <1>5. QED
    BY <1>1, <1>2, <1>3, <1>4, PTL DEF Spec, ImplementsExpansion, Contract!ContractSpec

====
