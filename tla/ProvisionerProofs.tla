--------------------------- MODULE ProvisionerProofs ---------------------------
(***************************************************************************)
(* Safety of Provisioner, for any set of objects, any expressions between  *)
(* them and any bounds: a run keeps the order of the dependencies that     *)
(* were found, its answer is about every object of one spec, and what is   *)
(* left when all is quiet is written from the current spec.                *)
(***************************************************************************)
EXTENDS ProvisionerProperties, FiniteSetTheorems, TLAPS

LEMMA VersionNumbers == \A v \in Versions : v \in Nat /\ v # 0
  <1>1. MaxVersion \in Nat
    BY ProvisionerAssumption
  <1>2. QED
    BY <1>1 DEF Versions

-----------------------------------------------------------------------------
\* An enumeration is a sequence of the elements, none of them twice.
LEMMA Enumerated ==
  ASSUME NEW S, IsFiniteSet(S), NEW s \in Enumerations(S)
  PROVE  /\ s \in Seq(S)
         /\ Len(s) \in Nat
         /\ DOMAIN s = 1..Len(s)
         /\ \A n \in S : \E i \in 1..Len(s) : s[i] = n
         /\ \A i \in 1..Len(s) : s[i] \in S
         /\ \A i, j \in 1..Len(s) : s[i] = s[j] => i = j
  <1> DEFINE c == Cardinality(S)
  <1>1. c \in Nat
    BY FS_CardinalityType
  <1>2. s \in [1..c -> S] /\ S = {s[i] : i \in DOMAIN s}
    BY DEF Enumerations
  <1>3. s \in Seq(S) /\ Len(s) = c
    BY <1>1, <1>2
  <1>4. \A n \in S : \E i \in 1..c : s[i] = n
    BY <1>2
  <1>5. s \in Surjection(1..c, S)
    BY <1>2, <1>4 DEF Surjection
  <1>6. IsFiniteSet(1..c) /\ Cardinality(1..c) = c
    BY <1>1, FS_Interval
  <1>7. s \in Injection(1..c, S)
    <2>1. Cardinality(S) = Cardinality(1..c) <=> s \in Injection(1..c, S)
      BY <1>5, <1>6, FS_Surjection
    <2>2. QED
      BY <1>6, <2>1
  <1>8. \A i, j \in 1..c : s[i] = s[j] => i = j
    BY <1>2, <1>7 DEF Injection, IsInjective
  <1>9. QED
    BY <1>1, <1>2, <1>3, <1>4, <1>8

\* What is listed are names, and what their expressions read are references.
LEMMA ListedNames ==
  ASSUME NEW v \in Versions
  PROVE  /\ Listed(v) \subseteq Name
         /\ IsFiniteSet(Listed(v))
         /\ \A n \in Listed(v) : ReferencesIn(Template[v][n]) \subseteq References
  <1>1. /\ Listed(v) \subseteq Name
        /\ IsFiniteSet(Listed(v))
        /\ \A n \in Listed(v) : \A e \in Template[v][n] : e \in Expressions
    BY ProvisionerAssumption
  <1>2. ASSUME NEW e \in Expressions PROVE Range(e.reads) \subseteq References
    <2>1. e.reads \in Seq(References)
      BY DEF Expressions
    <2>2. QED
      BY <2>1 DEF Range
  <1>3. QED
    BY <1>1, <1>2 DEF ReferencesIn

\* A sorted spec is an enumeration of its objects in which each one comes after
\* those it was found to need.
LEMMA SortedOrder ==
  ASSUME NEW v \in Versions, NEW s \in Sorted(v)
  PROVE  /\ s \in Enumerations(Listed(v))
         /\ \A i \in 1..Len(s) : \A d \in Name :
              <<"resources", d>> \in ElementDependencies(Template[v][s[i]])
                => \E k \in 1..(i - 1) : s[k] = d
  <1>1. s \in Enumerations(Listed(v))
    BY DEF Sorted, Sort
  <1>2. /\ DOMAIN s = 1..Len(s) /\ Len(s) \in Nat
        /\ \A n \in Listed(v) : \E i \in 1..Len(s) : s[i] = n
        /\ \A i \in 1..Len(s) : s[i] \in Listed(v)
    BY <1>1, ListedNames, Enumerated
  <1>3. ASSUME NEW i \in 1..Len(s), NEW d \in Name,
               <<"resources", d>> \in ElementDependencies(Template[v][s[i]])
        PROVE  \E k \in 1..(i - 1) : s[k] = d
    <2>1. <<"resources", d>> \in Needs(v)[s[i]]
      BY <1>2, <1>3 DEF Needs
    <2>2. Needs(v)[s[i]] \subseteq Vertices(Listed(v))
      BY <1>2 DEF Sorted, Sort
    <2>3. d \in Listed(v)
      BY <2>1, <2>2 DEF Vertices
    <2>4. PICK k \in 1..Len(s) : s[k] = d
      BY <1>2, <2>3
    <2>5. k \in VisitsFor(s, Needs(v), i)
      BY <1>2, <2>1, <2>4 DEF VisitsFor
    <2>6. k < i
      BY <1>2, <2>5 DEF Sorted, Sort, Stable
    <2>7. QED
      BY <1>2, <2>4, <2>6
  <1>4. QED
    BY <1>1, <1>3

-----------------------------------------------------------------------------
\* The object at the position of the run: it is listed, and not in the arguments.
LEMMA CurrentObject ==
  ASSUME RunInv, pc # "idle", index <= Len(order)
  PROVE  /\ copy \in Versions
         /\ index \in 1..Len(order)
         /\ Current \in Listed(copy) /\ Current \in Name
         /\ args[Current] = Nil
  <1>1. copy \in Versions /\ order \in Enumerations(Listed(copy))
    BY DEF RunInv, TypeOK
  <1>2. /\ Len(order) \in Nat
        /\ \A i \in 1..Len(order) : order[i] \in Listed(copy)
        /\ \A i, j \in 1..Len(order) : order[i] = order[j] => i = j
    BY <1>1, ListedNames, Enumerated
  <1>3. index \in 1..Len(order)
    BY <1>2 DEF RunInv, TypeOK
  <1>4. Current \in Listed(copy) /\ Current \in Name
    BY <1>1, <1>2, <1>3, ListedNames DEF Current
  <1>5. ASSUME NEW i \in 1..(index - 1) PROVE order[i] # Current
    BY <1>2, <1>3, <1>5 DEF Current
  <1>6. args[Current] = Nil
    BY <1>4, <1>5 DEF RunInv
  <1>7. QED
    BY <1>1, <1>3, <1>4, <1>6

\* A run that has ended has left nothing behind.
LEMMA ReturnRun ==
  ASSUME RunInv, NEW s \in {"none", "Success", "Running", "Failed"}, Return(s),
         {spec', cached'} \subseteq Versions,
         live' \in [Name -> Managed \union {Nil}],
         pending' \in BOOLEAN,
         {removals', faults', crashes'} \subseteq Nat
  PROVE  RunInv'
  <1>1. /\ pc' = "idle" /\ copy' = 0 /\ order' = << >> /\ index' = 1
        /\ args' = NoObjects /\ state' = "Success" /\ answer' = s
    BY DEF Return
  <1>2. TypeOK'
    BY <1>1 DEF TypeOK, NoObjects
  <1>3. \A n \in Name : args'[n] = Nil
    BY <1>1 DEF NoObjects
  <1>4. \A n \in Name : SeenOf(n)' # "waiting"
    BY <1>3 DEF SeenOf
  <1>5. QED
    BY <1>1, <1>2, <1>3, <1>4 DEF RunInv

\* What is rendered is a set of readings of what is there.
LEMMA RenderedReadings ==
  ASSUME RunInv, pc \in {"create", "update"}
  PROVE  /\ Rendered(Current) \subseteq Reading
         /\ \A r \in Rendered(Current) :
              /\ r.value # 0
              /\ r.part = "spec" => args[r.name] # Nil /\ r.value = args[r.name].version
  <1>1. index <= Len(order)
    BY DEF RunInv, TypeOK
  <1>2. ReferencesOf(Current) \subseteq References
    BY <1>1, CurrentObject, ListedNames DEF ReferencesOf
  <1>3. ASSUME NEW r \in ReferencesOf(Current)
        PROVE  /\ ReadingOf(r) \in Reading
               /\ ReadingOf(r).value # 0
               /\ ReadingOf(r).part = "spec" =>
                    /\ args[ReadingOf(r).name] # Nil
                    /\ ReadingOf(r).value = args[ReadingOf(r).name].version
    <2>1. r.name \in Name /\ r.part \in {"spec", "status"}
      BY <1>2 DEF References
    <2>2. args[r.name] # Nil /\ (r.part = "status" => args[r.name].out # 0)
      BY DEF RunInv, Evaluates
    <2>3. args[r.name] \in Managed
      BY <2>1, <2>2 DEF RunInv, TypeOK
    <2>4. /\ args[r.name].version \in Nat /\ args[r.name].version # 0
          /\ args[r.name].out \in Nat
      BY <2>3, VersionNumbers DEF Managed
    <2>5. QED
      BY <2>1, <2>2, <2>4 DEF ReadingOf, Reading
  <1>4. QED
    BY <1>3 DEF Rendered

-----------------------------------------------------------------------------
\* One lemma per action, and one for the world.
LEMMA WorldRun ==
  ASSUME RunInv, World
  PROVE  RunInv'
  <1>1. UNCHANGED <<pc, run, answer>>
    BY DEF World, Edit, Deliver, Remove, Withdraw, Report
  <1>2. {spec', cached'} \subseteq Versions /\ pending' \in BOOLEAN
    BY DEF World, Edit, Deliver, Remove, Withdraw, Report, RunInv, TypeOK, resource
  <1>3. {removals', faults', crashes'} \subseteq Nat
    <2>1. removals \in Nat /\ faults \in Nat /\ crashes \in Nat
      BY DEF RunInv, TypeOK
    <2>2. (removals' = removals \/ removals' = removals + 1) /\ UNCHANGED <<faults, crashes>>
      BY DEF World, Edit, Deliver, Remove, Withdraw, Report, budget
    <2>3. QED
      BY <2>1, <2>2
  <1>4. live' \in [Name -> Managed \union {Nil}]
    <2>1. CASE Edit \/ Deliver
      BY <2>1 DEF Edit, Deliver, RunInv, TypeOK
    <2>2. ASSUME NEW n \in Name, Remove(n) PROVE live' \in [Name -> Managed \union {Nil}]
      BY <2>2 DEF Remove, RunInv, TypeOK
    <2>3. ASSUME NEW n \in Name, Withdraw(n) PROVE live' \in [Name -> Managed \union {Nil}]
      <3>1. live[n] \in Managed
        BY <2>3 DEF Withdraw, RunInv, TypeOK
      <3>2. [live[n] EXCEPT !.verdict = "progressing"] \in Managed
        BY <3>1 DEF Managed, Verdicts
      <3>3. QED
        BY <2>3, <3>2 DEF Withdraw, RunInv, TypeOK
    <2>4. ASSUME NEW n \in Name, Report(n) PROVE live' \in [Name -> Managed \union {Nil}]
      <3>1. live[n] \in Managed
        BY <2>4 DEF Report, RunInv, TypeOK
      <3>2. PICK verdict \in Verdicts :
              live' = [live EXCEPT ![n].out = live[n].version, ![n].verdict = verdict]
        BY <2>4 DEF Report, Verdicts
      <3>3. [live[n] EXCEPT !.out = live[n].version, !.verdict = verdict] \in Managed
        BY <3>1, VersionNumbers DEF Managed
      <3>4. live' = [live EXCEPT ![n] =
                       [live[n] EXCEPT !.out = live[n].version, !.verdict = verdict]]
        BY <3>2, <2>4 DEF RunInv, TypeOK
      <3>5. QED
        BY <3>3, <3>4 DEF RunInv, TypeOK
    <2>5. QED
      BY <2>1, <2>2, <2>3, <2>4 DEF World
  <1>5. TypeOK'
    BY <1>1, <1>2, <1>3, <1>4 DEF RunInv, TypeOK, run
  <1>6. QED
    BY <1>1, <1>5 DEF RunInv, run, Current, ReferencesOf, Evaluates, SeenOf

LEMMA StartRun ==
  ASSUME RunInv, Start
  PROVE  RunInv'
  <1>1. CASE order' \in Sorted(cached) /\ pc' = "object"
    <2>1. /\ pc = "idle" /\ pending' = FALSE /\ copy' = cached /\ answer' = "none"
          /\ UNCHANGED <<index, args, state, spec, cached, live, removals, faults, crashes>>
      BY <1>1 DEF Start, Error, Return, resource, budget
    <2>2. index = 1
      BY <2>1 DEF RunInv, TypeOK
    <2>3. order' \in Enumerations(Listed(cached))
      BY <1>1 DEF Sorted, Sort
    <2>4. Len(order') \in Nat
      BY <2>3, ListedNames, Enumerated DEF RunInv, TypeOK
    <2>5. TypeOK'
      <3>1. TypeOK /\ args = NoObjects
        BY <2>1 DEF RunInv, TypeOK
      <3>2. index' \in 1..Len(order') + 1
        BY <2>1, <2>2, <2>4
      <3>3. copy' \in Versions /\ order' \in Enumerations(Listed(copy'))
        BY <2>1, <2>3, <3>1 DEF TypeOK
      <3>4. QED
        BY <1>1, <2>1, <3>1, <3>2, <3>3 DEF TypeOK
    <2>6. QED
      BY <1>1, <2>1, <2>2, <2>5 DEF RunInv, SeenOf
  <1>2. CASE Error /\ UNCHANGED <<resource, live, budget>>
    BY <1>2, ReturnRun DEF Error, RunInv, TypeOK, resource, budget
  <1>3. QED
    BY <1>1, <1>2 DEF Start

\* A run that is cut short by an error.
LEMMA ErrorRun ==
  ASSUME RunInv, Error, UNCHANGED <<resource, live>>, Fault \/ UNCHANGED budget
  PROVE  RunInv'
  BY ReturnRun DEF Error, Fault, RunInv, TypeOK, resource, budget

LEMMA EvaluateRun ==
  ASSUME RunInv, Evaluate
  PROVE  RunInv'
  <1>1. CASE Error
    BY <1>1, ErrorRun DEF Evaluate
  <1>2. CASE /\ \A r \in ReferencesOf(Current) : Evaluates(r)
             /\ Goto(IF live[Current] = Nil THEN "create" ELSE "update")
             /\ UNCHANGED budget
    <2>1. pc = "object" /\ index <= Len(order) /\ UNCHANGED <<resource, live>>
      BY DEF Evaluate
    <2>2. pc' \in {"create", "update"} /\ UNCHANGED <<pending, run, answer>>
      BY <1>2 DEF Goto
    <2>3. TypeOK'
      BY <1>2, <2>1, <2>2 DEF RunInv, TypeOK, run, resource, budget
    <2>4. QED
      BY <1>2, <2>1, <2>2, <2>3 DEF RunInv, run, Current, ReferencesOf, Evaluates, SeenOf
  <1>3. QED
    BY <1>1, <1>2 DEF Evaluate

\* A step that writes the current object, and nothing else of the run.
LEMMA WriteRun ==
  ASSUME RunInv, pc \in {"create", "update"},
         NEW o \in Managed \union {Nil},
         live' = [live EXCEPT ![Current] = o],
         Goto("refresh"), UNCHANGED <<resource, budget>>
  PROVE  RunInv'
  <1>1. index <= Len(order)
    BY DEF RunInv, TypeOK
  <1>2. live' \in [Name -> Managed \union {Nil}]
    BY <1>1, CurrentObject DEF RunInv, TypeOK
  <1>3. pc' = "refresh" /\ UNCHANGED <<pending, run, answer>>
    BY DEF Goto
  <1>4. TypeOK'
    BY <1>1, <1>2, <1>3 DEF RunInv, TypeOK, run, resource, budget
  <1>5. QED
    BY <1>3, <1>4 DEF RunInv, run, SeenOf

LEMMA CreateRun ==
  ASSUME RunInv, Create
  PROVE  RunInv'
  <1>1. CASE Error
    <2>1. UNCHANGED <<resource, live>> /\ Fault
      BY <1>1 DEF Create, Error, Return, Goto
    <2>2. QED
      BY <1>1, <2>1, ErrorRun
  <1>2. CASE live' = [live EXCEPT ![Current] = New(Current)] /\ Goto("refresh") /\ UNCHANGED budget
    <2>1. index <= Len(order) /\ pc = "create" /\ UNCHANGED resource
      BY DEF RunInv, TypeOK, Create
    <2>2. copy \in Versions /\ Rendered(Current) \subseteq Reading
      BY <2>1, CurrentObject, RenderedReadings
    <2>3. New(Current) \in Managed
      BY <2>2 DEF New, Managed, Verdicts
    <2>4. QED
      BY <1>2, <2>1, <2>3, WriteRun
  <1>3. QED
    BY <1>1, <1>2 DEF Create

LEMMA UpdateRun ==
  ASSUME RunInv, Update
  PROVE  RunInv'
  <1>1. CASE Error
    <2>1. UNCHANGED <<resource, live>> /\ (Fault \/ UNCHANGED budget)
      BY <1>1 DEF Update, Error, Return, Goto
    <2>2. QED
      BY <1>1, <2>1, ErrorRun
  <1>2. CASE /\ live[Current] # Nil
             /\ live' = [live EXCEPT ![Current] = Replaced(Current)]
             /\ Goto("refresh")
             /\ UNCHANGED budget
    <2>1. index <= Len(order) /\ pc = "update" /\ UNCHANGED resource
      BY DEF RunInv, TypeOK, Update
    <2>2. copy \in Versions /\ Current \in Name /\ Rendered(Current) \subseteq Reading
      BY <2>1, CurrentObject, RenderedReadings
    <2>3. live[Current] \in Managed
      BY <1>2, <2>2 DEF RunInv, TypeOK
    <2>4. Replaced(Current) \in Managed
      BY <2>2, <2>3 DEF Replaced, Managed
    <2>5. QED
      BY <1>2, <2>1, <2>4, WriteRun
  <1>3. QED
    BY <1>1, <1>2 DEF Update

\* What an accepted object adds to what was seen.
LEMMA AcceptSeen ==
  ASSUME RunInv, pc = "refresh", Accept
  PROVE  \A n \in Name : SeenOf(n)' =
           IF n # Current THEN SeenOf(n)
           ELSE IF VerdictOn(n, live[n]) = "ready" THEN "ready" ELSE "waiting"
  <1>1. index <= Len(order)
    BY DEF RunInv, TypeOK
  <1>2. Current \in Name /\ args[Current] = Nil
    BY <1>1, CurrentObject
  <1>3. args' = [args EXCEPT ![Current] = live[Current]] /\ args \in [Name -> Managed \union {Nil}]
    BY DEF Accept, RunInv, TypeOK
  <1>4. live[Current] # Nil
    BY DEF Accept
  <1>5. QED
    BY <1>2, <1>3, <1>4 DEF SeenOf, VerdictOn

LEMMA CurrentUnseen ==
  ASSUME RunInv, pc = "refresh"
  PROVE  Current \in Listed(copy) /\ Current \in Name /\ SeenOf(Current) = "nothing"
  BY CurrentObject DEF SeenOf, RunInv, TypeOK

LEMMA RefreshRun ==
  ASSUME RunInv, Refresh
  PROVE  RunInv'
  <1>1. pc = "refresh" /\ index <= Len(order) /\ UNCHANGED <<resource, live>>
    BY DEF RunInv, TypeOK, Refresh
  <1>2. CASE Error
    BY <1>1, <1>2, ErrorRun DEF Refresh, Accept, Error, Return
  <1>3. CASE Return("Failed") /\ UNCHANGED <<pending, budget>>
    BY <1>1, <1>3, ReturnRun DEF RunInv, TypeOK, resource, budget
  <1>4. CASE Accept
    <2>1. /\ index \in 1..Len(order) /\ Current \in Name /\ args[Current] = Nil
      BY <1>1, CurrentObject
    <2>2. Len(order) \in Nat
      BY <1>1, ListedNames, Enumerated DEF RunInv, TypeOK
    <2>3. live[Current] \in Managed
      BY <1>4, <2>1 DEF Accept, RunInv, TypeOK
    <2>4. state' \in {"Success", "Running"}
      BY <1>4 DEF Accept, StateAfter, RunInv, TypeOK
    <2>5. TypeOK'
      BY <1>1, <1>4, <2>1, <2>2, <2>3, <2>4 DEF Accept, RunInv, TypeOK, resource, budget
    <2>6. \A n \in Name : args'[n] # Nil <=> n = Current \/ args[n] # Nil
      BY <1>4, <2>1 DEF Accept, RunInv, TypeOK
    <2>7. \A n \in Name : (\E i \in 1..index : order[i] = n)
                            <=> n = Current \/ \E i \in 1..(index - 1) : order[i] = n
      BY <2>1, <2>2 DEF Current
    <2>8. \A n \in Name : args'[n] # Nil <=> \E i \in 1..(index' - 1) : order'[i] = n
      <3>1. index' - 1 = index /\ order' = order
        BY <1>4, <2>1, <2>2 DEF Accept
      <3>2. QED
        BY <2>6, <2>7, <3>1 DEF RunInv
    <2>9. state' = "Success" <=> \A n \in Name : SeenOf(n)' # "waiting"
      <3>1. CASE VerdictOn(Current, live[Current]) = "ready"
        BY <1>1, <1>4, <2>1, <3>1, AcceptSeen, CurrentUnseen DEF Accept, StateAfter, RunInv
      <3>2. CASE VerdictOn(Current, live[Current]) # "ready"
        BY <1>1, <1>4, <2>1, <3>2, AcceptSeen, CurrentUnseen DEF Accept, StateAfter, RunInv
      <3>3. QED
        BY <3>1, <3>2
    <2>10. pc' = "object" /\ order' \in Sorted(copy)'
      BY <1>1, <1>4 DEF Accept, RunInv
    <2>11. QED
      BY <2>5, <2>8, <2>9, <2>10 DEF RunInv
  <1>5. QED
    BY <1>1, <1>2, <1>3, <1>4 DEF Refresh

LEMMA ConcludeRun ==
  ASSUME RunInv, Conclude
  PROVE  RunInv'
  <1>1. state \in {"none", "Success", "Running", "Failed"}
    BY DEF RunInv, TypeOK
  <1>2. /\ Return(state) /\ UNCHANGED <<resource, live, budget>>
        /\ pending' = (pending \/ state = "Running")
    BY DEF Conclude
  <1>3. pending' \in BOOLEAN
    BY <1>2
  <1>4. QED
    BY <1>1, <1>2, <1>3, ReturnRun DEF RunInv, TypeOK, resource, budget

LEMMA CrashRun ==
  ASSUME RunInv, Crash
  PROVE  RunInv'
  BY ReturnRun DEF Crash, RunInv, TypeOK

LEMMA InitRun == Init => RunInv
  <1> SUFFICES ASSUME Init PROVE RunInv
    OBVIOUS
  <1>1. 1 \in Versions
    <2>1. MaxVersion \in Nat \ {0}
      BY ProvisionerAssumption
    <2>2. QED
      BY <2>1 DEF Versions
  <1>2. TypeOK
    BY <1>1 DEF Init, TypeOK, NoObjects
  <1>3. QED
    BY <1>2 DEF Init, RunInv, NoObjects, SeenOf

LEMMA NextRun == RunInv /\ [Next]_vars => RunInv'
  <1> SUFFICES ASSUME RunInv, [Next]_vars PROVE RunInv'
    OBVIOUS
  <1>1. CASE UNCHANGED vars
    BY <1>1 DEF vars, resource, run, budget, RunInv, TypeOK, Current, ReferencesOf, Evaluates,
       SeenOf
  <1>2. QED
    BY <1>1, WorldRun, StartRun, EvaluateRun, CreateRun, UpdateRun, RefreshRun, ConcludeRun,
       CrashRun DEF Next, Run

LEMMA AlwaysRun == Spec => []RunInv
  BY InitRun, NextRun, PTL DEF Spec

(***************************************************************************)
(* Every reachable state of a provisioner is well typed, whatever objects  *)
(* a Resource lists and whatever they refer to: the order is always one of *)
(* the listed objects of the run's copy (provisioner.go:57 to 64).         *)
(***************************************************************************)
THEOREM ProvisionerTyped == Spec => []TypeOK
  BY AlwaysRun, PTL DEF RunInv

-----------------------------------------------------------------------------
\* In a detectable expression every reference is found.
LEMMA AllFound ==
  ASSUME NEW v \in Versions, NEW n \in Listed(v),
         \A e \in Template[v][n] : Detectable(e),
         NEW d \in ReadBy(Template[v][n])
  PROVE  d \in Name /\ <<"resources", d>> \in ElementDependencies(Template[v][n])
  <1>1. PICK e \in Template[v][n] : \E r \in Range(e.reads) : d = r.name
    BY DEF ReadBy, ReferencesIn
  <1>2. PICK i \in DOMAIN e.reads : d = e.reads[i].name
    BY <1>1 DEF Range
  <1>3. e \in Expressions
    BY ProvisionerAssumption
  <1>4. e.reads \in Seq(References)
    BY <1>3 DEF Expressions
  <1>5. e.reads[i] \in References /\ i \in Nat
    BY <1>2, <1>4
  <1>6. /\ e.reads[i].root = "resources" /\ e.reads[i].form \in {"dotted", "escaped"}
        /\ \A j \in DOMAIN e.reads : e.reads[j].form = e.reads[i].form => j = i
    BY <1>2 DEF Detectable
  <1>7. <<"resources", d>> \in FirstMatch(e, "resources", e.reads[i].form)
    BY <1>2, <1>5, <1>6 DEF FirstMatch
  <1>8. <<"resources", d>> \in ExpressionDependencies(e)
    BY <1>6, <1>7 DEF ExpressionDependencies, Roots
  <1>9. QED
    BY <1>2, <1>5, <1>8 DEF ElementDependencies, References

(***************************************************************************)
(* An object comes after the objects its expressions read, for every spec  *)
(* whose expressions are detectable: "to create them in dependency order"  *)
(* (provisioner.go:41, expr.go:94 to 118, graph.go:78 to 105).             *)
(***************************************************************************)
THEOREM InOrder ==
  ASSUME \A v \in Versions : \A n \in Listed(v) : \A e \in Template[v][n] : Detectable(e)
  PROVE  Spec => []InDependencyOrder
  <1>1. ASSUME RunInv PROVE InDependencyOrder
    <2> SUFFICES ASSUME pc = "object", index <= Len(order),
                        NEW d \in ReadBy(Template[copy][Current])
                 PROVE  d \in Processed
      BY DEF InDependencyOrder
    <2>1. /\ copy \in Versions /\ order \in Sorted(copy) /\ index \in 1..Len(order)
          /\ Current \in Listed(copy)
      BY <1>1, CurrentObject DEF RunInv
    <2>2. d \in Name /\ <<"resources", d>> \in ElementDependencies(Template[copy][order[index]])
      BY <2>1, AllFound DEF Current
    <2>3. \E k \in 1..(index - 1) : order[k] = d
      BY <2>1, <2>2, SortedOrder
    <2>4. QED
      BY <1>1, <2>2, <2>3 DEF RunInv, Processed
  <1>2. QED
    BY <1>1, AlwaysRun, PTL

-----------------------------------------------------------------------------
(***************************************************************************)
(* The worker never goes quiet after an error or with an object it still   *)
(* waits for (provisioner.go:156, resource_controller.go:340 to 345).      *)
(***************************************************************************)
THEOREM Answered == Spec => []AtRestAnswered
  <1>1. Init => AnswerInv
    BY DEF Init, AnswerInv
  <1>2. RunInv /\ AnswerInv /\ [Next]_vars => AnswerInv'
    <2> SUFFICES ASSUME RunInv, AnswerInv, [Next]_vars PROVE AnswerInv'
      OBVIOUS
    <2>1. CASE World \/ UNCHANGED vars
      BY <2>1 DEF World, Edit, Deliver, Remove, Withdraw, Report, vars, AnswerInv
    <2>2. CASE Start
      BY <2>2 DEF Start, Error, AnswerInv
    <2>3. CASE Evaluate \/ Create \/ Update
      BY <2>3 DEF Evaluate, Create, Update, Goto, Error, AnswerInv
    <2>4. CASE Refresh
      BY <2>4 DEF Refresh, Accept, Return, Error, AnswerInv
    <2>5. CASE Conclude
      BY <2>5 DEF Conclude, Return, AnswerInv, RunInv, TypeOK
    <2>6. CASE Crash
      BY <2>6 DEF Crash, AnswerInv
    <2>7. QED
      BY <2>1, <2>2, <2>3, <2>4, <2>5, <2>6 DEF Next, Run
  <1>3. AnswerInv => AtRestAnswered
    BY DEF AnswerInv, AtRestAnswered, AtRest
  <1>4. QED
    BY <1>1, <1>2, <1>3, AlwaysRun, PTL DEF Spec

-----------------------------------------------------------------------------
\* How each step of a provisioner maps to the contract.
LEMMA ContractError ==
  ASSUME RunInv, Return("none")
  PROVE  Contract!Abort
  BY DEF Return, NoObjects, Contract!Abort, Contract!End, Contract!Nothing, SeenOf

LEMMA ContractStutter ==
  ASSUME RunInv, UNCHANGED <<run, answer>>, pc' = pc \/ (pc # "idle" /\ pc' # "idle")
  PROVE  UNCHANGED Contract!vars
  BY DEF run, Contract!vars, SeenOf

LEMMA ContractStart ==
  ASSUME RunInv, Start
  PROVE  Contract!Begin \/ Contract!Abort
  <1>1. CASE order' \in Sorted(cached) /\ pc' = "object"
    <2>1. /\ pc = "idle" /\ copy' = cached /\ answer' = "none" /\ UNCHANGED args
          /\ cached \in Versions
      BY <1>1 DEF Start, Error, Return, RunInv, TypeOK
    <2>2. Listed(cached) \subseteq Name
      BY <2>1, ListedNames
    <2>3. QED
      BY <1>1, <2>1, <2>2 DEF Contract!Begin, SeenOf
  <1>2. CASE Error
    BY <1>2, ContractError DEF Error
  <1>3. QED
    BY <1>1, <1>2 DEF Start

LEMMA ContractRefresh ==
  ASSUME RunInv, Refresh
  PROVE  Contract!Next
  <1>1. pc = "refresh" /\ Current \in Listed(copy) /\ Current \in Name /\ SeenOf(Current) = "nothing"
    BY CurrentUnseen DEF Refresh
  <1>2. CASE Error
    BY <1>2, ContractError DEF Error, Contract!Next
  <1>3. CASE Return("Failed")
    <2>1. Contract!GiveUp
      BY <1>1, <1>3 DEF Return, NoObjects, Contract!GiveUp, Contract!End, Contract!Nothing, SeenOf
    <2>2. QED
      BY <2>1 DEF Contract!Next
  <1>4. CASE Accept
    <2>1. \E verdict \in {"ready", "waiting"} :
            [n \in Name |-> SeenOf(n)'] = [[n \in Name |-> SeenOf(n)] EXCEPT ![Current] = verdict]
      BY <1>1, <1>4, AcceptSeen
    <2>2. pc' # "idle" /\ UNCHANGED <<copy, answer>>
      BY <1>4 DEF Accept
    <2>3. Contract!See(Current)
      BY <1>1, <2>1, <2>2 DEF Contract!See
    <2>4. QED
      BY <1>1, <2>3 DEF Contract!Next
  <1>5. QED
    BY <1>2, <1>3, <1>4 DEF Refresh

LEMMA ContractConclude ==
  ASSUME RunInv, Conclude
  PROVE  Contract!Conclude
  <1>1. pc = "object" /\ index > Len(order) /\ Return(state)
    BY DEF Conclude
  <1>2. copy \in Versions /\ order \in Enumerations(Listed(copy)) /\ index \in 1..Len(order) + 1
    BY <1>1 DEF RunInv, TypeOK
  <1>3. /\ Listed(copy) \subseteq Name
        /\ Len(order) \in Nat
        /\ \A n \in Listed(copy) : \E i \in 1..Len(order) : order[i] = n
        /\ \A i \in 1..Len(order) : order[i] \in Listed(copy)
    BY <1>2, ListedNames, Enumerated
  <1>4. \A n \in Name : n \in Listed(copy) <=> args[n] # Nil
    <2>1. index - 1 = Len(order)
      BY <1>1, <1>2, <1>3
    <2>2. \A n \in Name : args[n] # Nil <=> \E i \in 1..Len(order) : order[i] = n
      BY <2>1 DEF RunInv
    <2>3. QED
      BY <1>3, <2>2
  <1>5. /\ \A n \in Listed(copy) : SeenOf(n) \in {"ready", "waiting"}
        /\ \A n \in Name : n \notin Listed(copy) => SeenOf(n) = "nothing"
    BY <1>3, <1>4 DEF SeenOf
  <1>6. state = IF \A n \in Listed(copy) : SeenOf(n) = "ready" THEN "Success" ELSE "Running"
    BY <1>3, <1>5 DEF RunInv, TypeOK
  <1>7. QED
    BY <1>1, <1>3, <1>5, <1>6 DEF Return, NoObjects, Contract!Conclude, Contract!End,
       Contract!Nothing, SeenOf

(***************************************************************************)
(* A run answers for all objects of one copy of the spec, each seen once   *)
(* and in this run: Success for none but those that were all ready.        *)
(***************************************************************************)
THEOREM ContractImplemented == Spec => ImplementsContract
  <1>1. Init => Contract!Init
    BY DEF Init, NoObjects, Contract!Init, Contract!Nothing, SeenOf
  <1>2. RunInv /\ [Next]_vars => [Contract!Next]_(Contract!vars)
    <2> SUFFICES ASSUME RunInv, [Next]_vars PROVE Contract!Next \/ UNCHANGED Contract!vars
      OBVIOUS
    <2>1. CASE World \/ UNCHANGED vars
      <3>1. UNCHANGED <<pc, run, answer>>
        BY <2>1 DEF World, Edit, Deliver, Remove, Withdraw, Report, vars
      <3>2. QED
        BY <3>1, ContractStutter
    <2>2. CASE Start
      BY <2>2, ContractStart DEF Contract!Next
    <2>3. CASE Evaluate \/ Create \/ Update
      <3>1. CASE Error
        BY <3>1, ContractError DEF Error, Contract!Next
      <3>2. CASE \E label \in {"create", "update", "refresh"} : Goto(label)
        <4>1. pc # "idle"
          BY <2>3 DEF Evaluate, Create, Update
        <4>2. UNCHANGED <<run, answer>> /\ pc' # "idle"
          BY <3>2 DEF Goto
        <4>3. QED
          BY <4>1, <4>2, ContractStutter
      <3>3. QED
        BY <2>3, <3>1, <3>2 DEF Evaluate, Create, Update
    <2>4. CASE Refresh
      BY <2>4, ContractRefresh
    <2>5. CASE Conclude
      BY <2>5, ContractConclude DEF Contract!Next
    <2>6. CASE Crash
      BY <2>6, ContractError DEF Crash, Contract!Next
    <2>7. QED
      BY <2>1, <2>2, <2>3, <2>4, <2>5, <2>6 DEF Next, Run
  <1>3. QED
    BY <1>1, <1>2, AlwaysRun, PTL DEF Spec, ImplementsContract, Contract!ContractSpec

-----------------------------------------------------------------------------
\* A run that ends otherwise than in Success leaves nothing to show.
LEMMA ReturnRender ==
  ASSUME RenderInv, NEW s, Return(s), s = "Success" => pending'
  PROVE  RenderInv'
  <1>1. \A n \in HasSpec : args'[n] = Nil
    BY ProvisionerAssumption DEF Return, NoObjects
  <1>2. pc' = "idle" /\ answer' = s
    BY DEF Return
  <1>3. QED
    BY <1>1, <1>2 DEF RenderInv, Applied

\* What others do to an object does not touch what it was written from.
LEMMA WorldRender ==
  ASSUME RunInv, RenderInv, World
  PROVE  RenderInv'
  <1>1. \A n \in Name : live'[n] # Nil =>
          /\ live[n] # Nil
          /\ \A v \in Versions : WrittenFrom(live[n], v) => WrittenFrom(live'[n], v)
    <2>1. CASE Edit \/ Deliver
      BY <2>1 DEF Edit, Deliver
    <2>2. ASSUME NEW m \in Name, Remove(m), NEW n \in Name, live'[n] # Nil
          PROVE  live'[n] = live[n]
      BY <2>2 DEF Remove, RunInv, TypeOK
    <2>3. ASSUME NEW m \in Name, Withdraw(m) \/ Report(m), NEW n \in Name, live'[n] # Nil
          PROVE  /\ live[n] # Nil
                 /\ live'[n].version = live[n].version /\ live'[n].reads = live[n].reads
      <3>1. live[m] \in Managed /\ live \in [Name -> Managed \union {Nil}]
        BY <2>3 DEF Withdraw, Report, RunInv, TypeOK
      <3>2. \E out, verdict : live' = [live EXCEPT ![m] =
                                         [live[m] EXCEPT !.out = out, !.verdict = verdict]]
        <4>1. CASE Withdraw(m)
          <5>1. live' = [live EXCEPT ![m] =
                           [live[m] EXCEPT !.out = live[m].out, !.verdict = "progressing"]]
            BY <3>1, <4>1 DEF Withdraw, Managed
          <5>2. QED
            BY <5>1
        <4>2. CASE Report(m)
          BY <3>1, <4>2 DEF Report
        <4>3. QED
          BY <2>3, <4>1, <4>2
      <3>3. PICK out, verdict : live' = [live EXCEPT ![m] =
                                           [live[m] EXCEPT !.out = out, !.verdict = verdict]]
        BY <3>2
      <3>4. CASE n = m
        <4>1. live'[n] = [live[m] EXCEPT !.out = out, !.verdict = verdict]
          BY <3>1, <3>3, <3>4
        <4>2. QED
          BY <2>3, <3>1, <3>4, <4>1 DEF Managed, Withdraw, Report
      <3>5. CASE n # m
        BY <2>3, <3>1, <3>3, <3>5
      <3>6. QED
        BY <3>4, <3>5
    <2>4. QED
      BY <2>1, <2>2, <2>3 DEF World, WrittenFrom
  <1>2. /\ UNCHANGED <<pc, run, answer>>
        /\ (pending' = pending /\ cached' = cached) \/ pending'
    BY DEF World, Edit, Deliver, Remove, Withdraw, Report, resource
  <1>3. cached \in Versions /\ (pc # "idle" => copy \in Versions) /\ HasSpec \subseteq Name
    BY ProvisionerAssumption DEF RunInv, TypeOK
  <1>4. ASSUME NEW n \in HasSpec, Applied(n), live'[n] # Nil
        PROVE  WrittenFrom(live'[n], copy)
    <2>1. pc # "idle"
      BY <1>3, <1>4 DEF Applied, RunInv, TypeOK, NoObjects
    <2>2. QED
      BY <1>1, <1>3, <1>4, <2>1 DEF RenderInv
  <1>5. ASSUME pc = "idle", ~pending', answer = "Success",
               NEW n \in Listed(cached) \intersect HasSpec, live'[n] # Nil
        PROVE  WrittenFrom(live'[n], cached)
    BY <1>1, <1>2, <1>3, <1>5 DEF RenderInv
  <1>6. QED
    BY <1>2, <1>4, <1>5 DEF RenderInv, run, Applied, Current

\* A spec written to the current object is the one the run is about.
LEMMA WriteRender ==
  ASSUME RunInv, RenderInv, pc \in {"create", "update"},
         NEW o, Current \in HasSpec => WrittenFrom(o, copy),
         live' = [live EXCEPT ![Current] = o],
         Goto("refresh"), UNCHANGED <<resource, budget>>
  PROVE  RenderInv'
  <1>1. index <= Len(order) /\ live \in [Name -> Managed \union {Nil}]
    BY DEF RunInv, TypeOK
  <1>2. Current \in Name
    BY <1>1, CurrentObject
  <1>3. pc' = "refresh" /\ UNCHANGED <<pending, run, answer, resource>>
    BY DEF Goto
  <1>4. HasSpec \subseteq Name
    BY ProvisionerAssumption
  <1>5. ASSUME NEW n \in HasSpec, args[n] # Nil \/ n = Current, live'[n] # Nil
        PROVE  WrittenFrom(live'[n], copy)
    <2>1. CASE n = Current
      BY <1>1, <1>2, <2>1
    <2>2. CASE n # Current
      BY <1>1, <1>4, <1>5, <2>2 DEF RenderInv, Applied
    <2>3. QED
      BY <2>1, <2>2
  <1>6. QED
    BY <1>3, <1>5 DEF RenderInv, Applied, run, resource, Current

\* What the current object is rendered to is written from the copy of the run.
LEMMA RenderedFrom ==
  ASSUME RunInv, RenderInv, pc \in {"create", "update"}
  PROVE  \A r \in Rendered(Current) :
           r.value # 0 /\ (r.part = "spec" /\ r.name \in HasSpec => r.value = copy)
  <1>1. ASSUME NEW n \in HasSpec, args[n] # Nil PROVE args[n].version = copy
    BY <1>1 DEF RenderInv, WrittenFrom
  <1>2. QED
    BY <1>1, RenderedReadings

LEMMA CreateRender ==
  ASSUME RunInv, RenderInv, Create
  PROVE  RenderInv'
  <1>1. CASE Error
    BY <1>1, ReturnRender DEF Error
  <1>2. CASE live' = [live EXCEPT ![Current] = New(Current)] /\ Goto("refresh") /\ UNCHANGED budget
    <2>1. pc = "create" /\ UNCHANGED resource
      BY DEF Create
    <2>2. WrittenFrom(New(Current), copy)
      BY <2>1, RenderedFrom DEF WrittenFrom, New
    <2>3. QED
      BY <1>2, <2>1, <2>2, WriteRender
  <1>3. QED
    BY <1>1, <1>2 DEF Create

LEMMA UpdateRender ==
  ASSUME RunInv, RenderInv, Update
  PROVE  RenderInv'
  <1>1. CASE Error
    BY <1>1, ReturnRender DEF Error
  <1>2. CASE /\ live[Current] # Nil
             /\ live' = [live EXCEPT ![Current] = Replaced(Current)]
             /\ Goto("refresh")
             /\ UNCHANGED budget
    <2>1. pc = "update" /\ UNCHANGED resource /\ index <= Len(order)
      BY DEF Update, RunInv, TypeOK
    <2>2. live[Current] \in Managed
      BY <1>2, <2>1, CurrentObject DEF RunInv, TypeOK
    <2>3. ASSUME Current \in HasSpec PROVE WrittenFrom(Replaced(Current), copy)
      <3>1. /\ Replaced(Current).version = copy
            /\ Replaced(Current).reads = Rendered(Current)
        BY <2>2, <2>3 DEF Replaced, Managed
      <3>2. QED
        BY <2>1, <3>1, RenderedFrom DEF WrittenFrom
    <2>4. QED
      BY <1>2, <2>1, <2>3, WriteRender
  <1>3. QED
    BY <1>1, <1>2 DEF Update

LEMMA RefreshRender ==
  ASSUME RunInv, RenderInv, Refresh
  PROVE  RenderInv'
  <1>1. pc = "refresh" /\ UNCHANGED <<resource, live>>
    BY DEF Refresh
  <1>2. CASE Error
    BY <1>2, ReturnRender DEF Error
  <1>3. CASE Return("Failed")
    BY <1>3, ReturnRender
  <1>4. CASE Accept
    <2>1. \A n \in Name : args'[n] = IF n = Current THEN live[n] ELSE args[n]
      BY <1>4 DEF Accept, RunInv, TypeOK
    <2>2. HasSpec \subseteq Name
      BY ProvisionerAssumption
    <2>3. \A n \in HasSpec : args'[n] # Nil => WrittenFrom(args'[n], copy)
      BY <1>1, <2>1, <2>2 DEF RenderInv, Applied
    <2>4. \A n \in HasSpec : args'[n] # Nil /\ live[n] # Nil => WrittenFrom(live[n], copy)
      BY <1>1, <2>1, <2>2 DEF RenderInv, Applied
    <2>5. pc' = "object" /\ UNCHANGED <<pending, copy, answer>>
      BY <1>4 DEF Accept
    <2>6. QED
      BY <1>1, <2>3, <2>4, <2>5 DEF RenderInv, Applied, resource
  <1>5. QED
    BY <1>2, <1>3, <1>4 DEF Refresh

LEMMA ConcludeRender ==
  ASSUME RunInv, RenderInv, Conclude
  PROVE  RenderInv'
  <1>1. /\ pc = "object" /\ index > Len(order) /\ Return(state)
        /\ UNCHANGED <<resource, live>>
        /\ pending' = (pending \/ state = "Running")
    BY DEF Conclude
  <1>2. CASE pending'
    BY <1>1, <1>2, ReturnRender
  <1>3. CASE ~pending'
    <2>1. ~pending /\ copy = cached
      BY <1>1, <1>3 DEF RenderInv
    <2>2. copy \in Versions /\ order \in Enumerations(Listed(copy)) /\ index \in 1..Len(order) + 1
      BY <1>1 DEF RunInv, TypeOK
    <2>3. /\ Listed(copy) \subseteq Name
          /\ Len(order) \in Nat
          /\ \A n \in Listed(copy) : \E i \in 1..Len(order) : order[i] = n
      BY <2>2, ListedNames, Enumerated
    <2>4. index - 1 = Len(order)
      BY <1>1, <2>2, <2>3
    <2>5. \A n \in Listed(copy) : args[n] # Nil
      BY <2>3, <2>4 DEF RunInv
    <2>6. \A n \in Listed(cached) \intersect HasSpec :
            live[n] # Nil => WrittenFrom(live[n], cached)
      BY <2>1, <2>5 DEF RenderInv, Applied
    <2>7. pc' = "idle" /\ \A n \in HasSpec : args'[n] = Nil
      BY <1>1, ProvisionerAssumption DEF Return, NoObjects
    <2>8. QED
      BY <1>1, <2>6, <2>7 DEF RenderInv, Applied, resource
  <1>4. QED
    BY <1>2, <1>3

LEMMA NextRender == RunInv /\ RenderInv /\ [Next]_vars => RenderInv'
  <1> SUFFICES ASSUME RunInv, RenderInv, [Next]_vars PROVE RenderInv'
    OBVIOUS
  <1>1. CASE UNCHANGED vars
    BY <1>1 DEF vars, resource, run, RenderInv, Applied, Current
  <1>2. CASE Start
    <2>1. CASE order' \in Sorted(cached) /\ pc' = "object"
      <3>1. /\ pc = "idle" /\ copy' = cached /\ UNCHANGED <<args, live, cached>>
        BY <1>2, <2>1 DEF Start, Error, Return, resource
      <3>2. args = NoObjects /\ HasSpec \subseteq Name
        BY <3>1, ProvisionerAssumption DEF RunInv, TypeOK
      <3>3. QED
        BY <2>1, <3>1, <3>2 DEF RenderInv, Applied, NoObjects
    <2>2. CASE Error
      BY <2>2, ReturnRender DEF Error
    <2>3. QED
      BY <1>2, <2>1, <2>2 DEF Start
  <1>3. CASE Evaluate
    <2>1. CASE Error
      BY <2>1, ReturnRender DEF Error
    <2>2. CASE ~Error
      <3>1. /\ pc = "object" /\ pc' \in {"create", "update"}
            /\ UNCHANGED <<pending, run, answer, resource, live>>
        BY <1>3, <2>2 DEF Evaluate, Goto
      <3>2. QED
        BY <3>1 DEF RenderInv, Applied, run, resource
    <2>3. QED
      BY <2>1, <2>2
  <1>4. CASE Crash
    BY <1>4, ReturnRender DEF Crash
  <1>5. QED
    BY <1>1, <1>2, <1>3, <1>4, WorldRender, CreateRender, UpdateRender, RefreshRender,
       ConcludeRender DEF Next, Run

(***************************************************************************)
(* When everything is quiet after Success, the objects that have a spec    *)
(* are written from the current one, by way of the copy of the run and of  *)
(* the arguments it collected (provisioner.go:77 to 104).                  *)
(***************************************************************************)
THEOREM RenderedAtRest == Spec => []AtRestRendered
  <1>1. Init => RenderInv
    BY ProvisionerAssumption DEF Init, NoObjects, RenderInv, Applied
  <1>2. RenderInv => AtRestRendered
    BY DEF RenderInv, AtRestRendered, AtRest
  <1>3. QED
    BY <1>1, <1>2, NextRender, AlwaysRun, PTL DEF Spec
=============================================================================
