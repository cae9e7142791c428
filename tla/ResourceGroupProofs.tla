-------------------------- MODULE ResourceGroupProofs --------------------------
(***************************************************************************)
(* Theorems of ResourceGroupController, for any set of entries, whatever   *)
(* they refer to, any versions, edits, incarnations, failures and          *)
(* restarts.                                                               *)
(***************************************************************************)
EXTENDS ResourceGroupProperties, TLAPS

LEMMA GroupWrites ==
  ASSUME NEW g \in Group, NEW s \in GroupPhases
  PROVE  /\ [g EXCEPT !.status = s] \in Group /\ [g EXCEPT !.status = s] # Nil
         /\ [g EXCEPT !.status = s].uid = g.uid /\ [g EXCEPT !.status = s].gen = g.gen
         /\ [g EXCEPT !.status = s].spec = g.spec /\ [g EXCEPT !.status = s].status = s
  <1>1. [g EXCEPT !.status = s] \in Group
    BY DEF Group
  <1>2. QED
    BY <1>1, GroupAssumption DEF Group

\* The phases a write of the group controller can give.
LEMMA PhasesWritten ==
  /\ "Initializing" \in GroupPhases /\ "InProgress" \in GroupPhases
  /\ "Failed" \in GroupPhases /\ "Ready" \in GroupPhases
  BY DEF GroupPhases

\* An edit raises the generation and keeps the rest.
LEMMA GroupEdited ==
  ASSUME NEW g \in Group, NEW e \in Entry, NEW v \in Nat
  PROVE  LET h == [g EXCEPT !.gen = @ + 1, !.spec[e] = v]
         IN  /\ h \in Group /\ h # Nil
             /\ h.uid = g.uid /\ h.gen = g.gen + 1 /\ h.status = g.status
  <1> DEFINE n == g.gen + 1
             sp == [g.spec EXCEPT ![e] = v]
             h == [g EXCEPT !.gen = n, !.spec = sp]
  <1>1. n \in Nat /\ sp \in Specs
    BY DEF Group, Specs
  <1> HIDE DEF n, sp
  <1>2. h \in Group
    BY <1>1 DEF Group
  <1>3. h # Nil /\ h.uid = g.uid /\ h.gen = n /\ h.status = g.status
    BY <1>2, GroupAssumption DEF Group
  <1>4. QED
    BY <1>2, <1>3 DEF n, sp

\* What is needed is processed, and was read.
LEMMA ReadsTyped ==
  ASSUME TypeOK, obj \in Group, NEW e \in Entry, Needs[e] \subseteq Processed
  PROVE  Reads(e) \in Specs
  <1>1. \A d \in Needs[e] : args[d].out \in Nat /\ args[d].version \in Nat
    BY DEF TypeOK, Processed, Expanded
  <1>2. QED
    BY <1>1 DEF Reads, Specs

-----------------------------------------------------------------------------
(***************************************************************************)
(* What one step can do.                                                   *)
(***************************************************************************)

\* The worker writes the Resource of the entry it is at.
Written(e) ==
  /\ e \in Entry /\ entry = e /\ Evaluates(e)
  /\ res'[e] \in Expanded /\ res'[e] # Nil
  /\ res'[e].version = obj.spec[e] /\ res'[e].reads = Reads(e)
  /\ res'[e].owner = obj.uid \/ (res[e] # Nil /\ res'[e].owner = res[e].owner)
  /\ res' = [res EXCEPT ![e] = res'[e]]
  /\ args' = [args EXCEPT ![e] = res'[e]]

LEMMA ApplyWrites ==
  ASSUME TypeOK, pc = "apply", entry \in Entry, Needs[entry] \subseteq Processed,
         Evaluates(entry), CreateResource(entry) \/ UpdateResource(entry),
         args' = [args EXCEPT ![entry] = res'[entry]]
  PROVE  Written(entry)
  <1>1. obj \in Group
    BY DEF TypeOK
  <1>2. Reads(entry) \in Specs
    BY <1>1, ReadsTyped
  <1>3. obj.uid \in Nat /\ obj.spec[entry] \in Nat
    BY <1>1 DEF Group, Specs
  <1>4. CASE CreateResource(entry)
    <2> DEFINE x == [owner |-> obj.uid, version |-> obj.spec[entry],
                     reads |-> Reads(entry), out |-> 0, phase |-> ""]
    <2>1. x \in Expanded
      BY <1>2, <1>3 DEF Expanded, Phases
    <2>2. x # Nil
      BY <2>1, GroupAssumption
    <2>3. res' = [res EXCEPT ![entry] = x]
      BY <1>4 DEF CreateResource
    <2>4. x.owner = obj.uid /\ x.version = obj.spec[entry] /\ x.reads = Reads(entry)
      OBVIOUS
    <2> HIDE DEF x
    <2>5. res'[entry] = x
      BY <2>3 DEF TypeOK
    <2>6. QED
      BY <2>1, <2>2, <2>3, <2>4, <2>5 DEF Written
  <1>5. CASE UpdateResource(entry)
    <2> DEFINE x == [res[entry] EXCEPT !.version = obj.spec[entry], !.reads = Reads(entry)]
    <2>1. res[entry] \in Expanded /\ res[entry] # Nil
      BY <1>5 DEF UpdateResource, TypeOK
    <2>2. x \in Expanded
      BY <1>2, <1>3, <2>1 DEF Expanded
    <2>3. x # Nil
      BY <2>2, GroupAssumption
    <2>4. res' = [res EXCEPT ![entry] = x]
      BY <1>5 DEF UpdateResource, TypeOK
    <2>5. x.owner = res[entry].owner /\ x.version = obj.spec[entry] /\ x.reads = Reads(entry)
      BY <2>1 DEF Expanded
    <2> HIDE DEF x
    <2>6. res'[entry] = x
      BY <2>4 DEF TypeOK
    <2>7. QED
      BY <2>1, <2>2, <2>3, <2>4, <2>5, <2>6 DEF Written
  <1>6. QED
    BY <1>4, <1>5

\* A status write that lands.
StatusSet ==
  /\ group # Nil /\ group' \in Group /\ group' # Nil
  /\ group'.uid = group.uid /\ group'.gen = group.gen /\ group'.spec = group.spec
  /\ UNCHANGED <<gcache, resources, pending, history>>
  /\ \/ /\ pc = "initialize" /\ group = obj /\ group'.status = "Initializing"
        /\ pc' = "progress" /\ UNCHANGED <<obj, args, entry>>
     \/ /\ pc = "progress" /\ gcache = group /\ group'.status = "InProgress"
        /\ pc' = "reread" /\ UNCHANGED <<obj, args, entry>>
     \/ pc = "failed" /\ gcache = group /\ group'.status = "Failed" /\ Return
     \/ pc = "ready" /\ gcache = group /\ group'.status = "Ready" /\ Return

\* The worker goes on without writing a status.
Advance ==
  /\ UNCHANGED <<groups, rcache, pending>>
  /\ \/ /\ pc = "reread" /\ gcache # Nil /\ obj' = gcache /\ pc' = "next"
        /\ UNCHANGED <<args, entry, res>>
     \/ /\ pc = "next" /\ Sortable /\ pc' \in {"apply", "failed"} /\ entry' \in Candidates
        /\ UNCHANGED <<obj, args, res>>
     \/ /\ pc = "next" /\ Sortable /\ Candidates = {} /\ pc' = "ready"
        /\ UNCHANGED <<obj, args, entry, res>>
     \/ pc = "apply" /\ Written(entry) /\ entry' = Nil /\ pc' = "next" /\ UNCHANGED obj

\* It is given up, to be started again.
GivenUp == Requeue /\ UNCHANGED <<groups, resources>>

LEMMA ReconcileSteps ==
  ASSUME TypeOK, ProcessedInv, Reconcile
  PROVE  /\ UNCHANGED <<gcache, rcache, edits, born>> /\ faults' \in Nat
         /\ \/ StatusSet
            \/ Advance
            \/ GivenUp
            \/ pc = "idle" /\ gcache = Nil /\ UNCHANGED <<groups, resources, worker>> /\ pending' = FALSE
            \/ /\ pc = "idle" /\ gcache # Nil /\ UNCHANGED <<groups, resources, args, entry>>
               /\ obj' = gcache /\ pending' = FALSE
               /\ pc' = IF gcache.status = "" THEN "initialize" ELSE "progress"
  <1>1. ASSUME Fault PROVE UNCHANGED <<edits, born>> /\ faults' \in Nat
    BY <1>1 DEF Fault, TypeOK
  <1>2. ASSUME RetryFails
        PROVE  UNCHANGED <<gcache, rcache, edits, born>> /\ faults' \in Nat /\ GivenUp
    BY <1>1, <1>2 DEF RetryFails, GivenUp, groups, resources, history, TypeOK
  <1>3. ASSUME NEW s \in GroupPhases, RetryLands, WriteStatus(s)
        PROVE  /\ group # Nil /\ gcache = group /\ group' \in Group /\ group' # Nil
               /\ group'.uid = group.uid /\ group'.gen = group.gen /\ group'.spec = group.spec
               /\ group'.status = s
    <2>1. group \in Group /\ gcache = group /\ group' = [group EXCEPT !.status = s]
      BY <1>3 DEF RetryLands, WriteStatus, TypeOK
    <2>2. group # Nil
      BY <2>1, GroupAssumption
    <2>3. QED
      BY <2>1, <2>2, GroupWrites
  <1>4. CASE StartGroup
    BY <1>4 DEF StartGroup, groups, resources, history, TypeOK
  <1>5. CASE Initialize
    <2>1. CASE group = obj
      <3>1. group \in Group /\ group # Nil
        BY <1>5, <2>1 DEF Initialize, TypeOK
      <3>2. group' = [group EXCEPT !.status = "Initializing"] /\ Goto("progress")
            /\ UNCHANGED <<obj, args, entry, gcache, resources, history>> /\ pc = "initialize"
        BY <1>5, <2>1 DEF Initialize
      <3>3. StatusSet
        BY <2>1, <3>1, <3>2, GroupWrites, PhasesWritten DEF StatusSet, Goto
      <3>4. QED
        BY <3>2, <3>3 DEF resources, history, TypeOK
    <2>2. CASE group # obj
      BY <1>5, <2>2 DEF Initialize, GivenUp, groups, resources, history, TypeOK
    <2>3. QED
      BY <2>1, <2>2
  <1>6. CASE Progress
    <2>1. CASE RetryLands /\ WriteStatus("InProgress") /\ Goto("reread")
               /\ UNCHANGED <<gcache, obj, args, entry, resources, history>>
      BY <1>3, <1>6, <2>1, PhasesWritten DEF Progress, StatusSet, Goto, resources, history, TypeOK
    <2>2. QED
      BY <1>2, <1>6, <2>1 DEF Progress
  <1>7. CASE WriteFailed \/ WriteReady
    <2>1. ASSUME NEW s \in GroupPhases, RetryLands, WriteStatus(s), Done,
                 UNCHANGED <<gcache, resources, history>>,
                 (pc = "failed" /\ s = "Failed") \/ (pc = "ready" /\ s = "Ready")
          PROVE  StatusSet /\ UNCHANGED <<gcache, rcache, edits, born>> /\ faults' \in Nat
      BY <1>3, <2>1 DEF StatusSet, Done, resources, history, TypeOK
    <2>2. QED
      BY <1>2, <1>7, <2>1, PhasesWritten DEF WriteFailed, WriteReady, Finish
  <1>8. CASE Reread
    BY <1>8 DEF Reread, Advance, GivenUp, Goto, groups, resources, history, TypeOK
  <1>9. CASE Check
    BY <1>9 DEF Check, Advance, GivenUp, Goto, Verdict, groups, resources, history, TypeOK
  <1>10. CASE SortFails \/ AllProcessed
    BY <1>10 DEF SortFails, AllProcessed, Advance, GivenUp, Goto, groups, resources, history, TypeOK
  <1>11. CASE Apply
    <2>1. CASE Requeue /\ UNCHANGED res
      <3>1. UNCHANGED history \/ Fault
        BY <1>11, <2>1 DEF Apply, Requeue, Return, Goto
      <3>2. QED
        BY <1>1, <1>11, <2>1, <3>1 DEF Apply, GivenUp, groups, resources, history, TypeOK
    <2>2. CASE /\ Evaluates(entry)
               /\ CreateResource(entry) \/ UpdateResource(entry)
               /\ args' = [args EXCEPT ![entry] = res'[entry]]
               /\ entry' = Nil
               /\ Goto("next")
               /\ UNCHANGED <<obj, history>>
      <3>1. entry \in Entry /\ Needs[entry] \subseteq Processed
        BY <1>11 DEF Apply, ProcessedInv, Candidates, Listed
      <3>2. Written(entry)
        BY <1>11, <2>2, <3>1, ApplyWrites DEF Apply
      <3>3. QED
        BY <1>11, <2>2, <3>2 DEF Apply, Advance, Goto, groups, history, TypeOK
    <2>3. QED
      BY <1>11, <2>1, <2>2 DEF Apply
  <1>12. QED
    BY <1>4, <1>5, <1>6, <1>7, <1>8, <1>9, <1>10, <1>11 DEF Reconcile

\* The users.
Created ==
  /\ group = Nil /\ group' \in Group /\ group' # Nil
  /\ born' \in Nat /\ born' = born + 1 /\ group'.uid = born' /\ group'.status = ""
Edited ==
  /\ group # Nil /\ group' \in Group /\ group' # Nil
  /\ group'.uid = group.uid /\ group'.gen = group.gen + 1 /\ group'.status = group.status
  /\ UNCHANGED born
Deleted == group' = Nil /\ UNCHANGED born

\* The Resource of e is collected, or moved on by its controller.
Collected(e) == res'[e] = Nil /\ res[e] # Nil /\ ~Owned(e)
Worked(e) ==
  /\ res[e] # Nil /\ res'[e] \in Expanded /\ res'[e] # Nil
  /\ res'[e].owner = res[e].owner /\ res'[e].version = res[e].version
  /\ res'[e].reads = res[e].reads
ResourcesMove ==
  /\ {res', rcache'} \subseteq [Entry -> Expanded \union {Nil}]
  /\ \A e \in Entry : res'[e] = res[e] \/ Collected(e) \/ Worked(e)

LEMMA WorldSteps ==
  ASSUME TypeOK, World \/ UNCHANGED vars
  PROVE  /\ UNCHANGED worker /\ born' \in Nat /\ {edits', faults'} \subseteq Nat
         /\ \/ UNCHANGED <<groups, pending, born>> /\ ResourcesMove
            \/ UNCHANGED <<gcache, resources, pending>> /\ (Created \/ Edited \/ Deleted)
            \/ /\ UNCHANGED <<group, resources, born>> /\ gcache' = group
               /\ pending' = (pending \/ Passes(gcache, group))
  <1>1. CASE CreateGroup
    <2>1. PICK spec \in FirstSpecs :
            group' = [uid |-> born + 1, gen |-> 1, spec |-> spec, status |-> ""]
      BY <1>1 DEF CreateGroup
    <2> DEFINE u == born + 1
               g == [uid |-> u, gen |-> 1, spec |-> spec, status |-> ""]
    <2>2. u \in Nat /\ born' = u /\ group' = g
      <3>1. born \in Nat
        BY DEF TypeOK
      <3>2. born' = born + 1
        BY <1>1 DEF CreateGroup
      <3>3. u \in Nat
        BY <3>1
      <3>4. group' = g
        BY <2>1
      <3>5. QED
        BY <3>2, <3>3, <3>4
    <2>3. /\ UNCHANGED <<gcache, resources, pending, worker, edits, faults>>
          /\ group = Nil /\ {edits, faults} \subseteq Nat
      BY <1>1 DEF CreateGroup, TypeOK
    <2>4. spec \in Specs
      BY GroupAssumption
    <2>5. born' = born + 1
      BY <2>2
    <2> HIDE DEF u
    <2>6. g \in Group
      BY <2>2, <2>4 DEF Group, GroupPhases
    <2>7. g # Nil /\ g.uid = u /\ g.status = ""
      BY <2>6, GroupAssumption
    <2>8. Created
      BY <2>2, <2>3, <2>5, <2>6, <2>7 DEF Created
    <2>9. QED
      BY <2>2, <2>3, <2>8
  <1>2. CASE EditGroup
    <2>1. PICK e \in Entry, version \in {0, edits + 3} :
            group' = [group EXCEPT !.gen = @ + 1, !.spec[e] = version]
      BY <1>2 DEF EditGroup
    <2>2. group \in Group /\ group # Nil /\ version \in Nat /\ edits' \in Nat
      BY <1>2 DEF EditGroup, TypeOK
    <2>3. Edited
      <3> DEFINE h == [group EXCEPT !.gen = @ + 1, !.spec[e] = version]
      <3>1. /\ h \in Group /\ h # Nil
            /\ h.uid = group.uid /\ h.gen = group.gen + 1 /\ h.status = group.status
        BY <2>2, GroupEdited
      <3>2. group' = h /\ UNCHANGED born
        BY <1>2, <2>1 DEF EditGroup
      <3> HIDE DEF h
      <3>3. QED
        BY <2>2, <3>1, <3>2 DEF Edited
    <2>4. QED
      BY <1>2, <2>2, <2>3 DEF EditGroup, TypeOK
  <1>3. CASE DeleteGroup
    BY <1>3 DEF DeleteGroup, Deleted, history, TypeOK
  <1>4. CASE DeliverGroup
    BY <1>4 DEF DeliverGroup, history, TypeOK
  <1>5. ASSUME NEW e \in Entry, DeliverResource(e)
        PROVE  UNCHANGED <<worker, groups, pending, history>> /\ ResourcesMove
    BY <1>5 DEF DeliverResource, ResourcesMove, TypeOK
  <1>6. ASSUME NEW e \in Entry, Collect(e)
        PROVE  UNCHANGED <<worker, groups, pending, history>> /\ ResourcesMove
    BY <1>6 DEF Collect, ResourcesMove, Collected, TypeOK
  <1>7. ASSUME NEW e \in Entry, Work(e)
        PROVE  UNCHANGED <<worker, groups, pending, history>> /\ ResourcesMove
    <2>1. PICK phase \in NextPhases(res[e].phase) \intersect Visits[e] :
            res' = [res EXCEPT ![e].phase = phase,
                               ![e].out = IF phase = "Ready" THEN res[e].version ELSE @]
      BY <1>7 DEF Work
    <2> DEFINE out == IF phase = "Ready" THEN res[e].version ELSE res[e].out
               x == [res[e] EXCEPT !.phase = phase, !.out = out]
    <2>2. res[e] \in Expanded /\ phase \in Phases
      <3>1. Visits[e] \in SUBSET Phases
        BY GroupAssumption
      <3>2. QED
        BY <1>7, <3>1 DEF Work, TypeOK
    <2>3. out \in Nat
      BY <2>2 DEF Expanded
    <2>4. res' = [res EXCEPT ![e] = x]
      BY <2>1 DEF TypeOK
    <2> HIDE DEF out
    <2>5. x \in Expanded
      BY <2>2, <2>3 DEF Expanded
    <2>6. x # Nil /\ x.owner = res[e].owner /\ x.version = res[e].version /\ x.reads = res[e].reads
      BY <2>2, <2>5, GroupAssumption DEF Expanded
    <2> HIDE DEF x
    <2>7. Worked(e)
      BY <1>7, <2>4, <2>5, <2>6 DEF Work, Worked, TypeOK
    <2>8. /\ res' \in [Entry -> Expanded \union {Nil}]
          /\ \A d \in Entry : d # e => res'[d] = res[d]
      BY <2>4, <2>5 DEF TypeOK
    <2>9. QED
      BY <1>7, <2>7, <2>8 DEF Work, ResourcesMove, TypeOK
  <1>8. ASSUME UNCHANGED vars
        PROVE  UNCHANGED <<worker, groups, pending, history>> /\ ResourcesMove
    BY <1>8 DEF vars, resources, ResourcesMove, TypeOK
  <1>9. ASSUME UNCHANGED <<worker, groups, pending, history>>, ResourcesMove
        PROVE  /\ UNCHANGED worker /\ born' \in Nat /\ {edits', faults'} \subseteq Nat
               /\ UNCHANGED <<groups, pending, born>> /\ ResourcesMove
    BY <1>9 DEF history, TypeOK
  <1>10. QED
    BY <1>1, <1>2, <1>3, <1>4, <1>5, <1>6, <1>7, <1>8, <1>9 DEF World

-----------------------------------------------------------------------------
\* Every reachable state is well typed; the entries are processed in order.
Typed == TypeOK /\ ProcessedInv

\* A reconciliation starts with nothing processed.
LEMMA Fresh ==
  ASSUME args' = NoResources, pc' \in {"idle", "initialize", "progress", "reread", "next", "failed"}
  PROVE  ProcessedInv' /\ args' \in [Entry -> Expanded \union {Nil}]
  BY DEF ProcessedInv, NoResources, Processed

LEMMA ReturnTyped ==
  ASSUME Return
  PROVE  /\ ProcessedInv' /\ args' \in [Entry -> Expanded \union {Nil}]
         /\ pc' = "idle" /\ obj' = Nil /\ entry' = Nil
  BY Fresh DEF Return

\* All listed entries are processed when no candidate is left.
LEMMA NoneLeft ==
  ASSUME Sortable, Candidates = {}
  PROVE  Listed \subseteq Processed
  <1> DEFINE S == Listed \ Processed
  <1>1. SUFFICES ASSUME S # {} PROVE FALSE
    OBVIOUS
  <1>2. PICK e \in S : Needs[e] \intersect S = {}
    <2>1. S \in SUBSET Listed
      OBVIOUS
    <2>2. QED
      BY <1>1, <2>1 DEF Sortable
  <1>3. Needs[e] \subseteq Listed
    BY DEF Sortable
  <1>4. e \in Candidates
    BY <1>2, <1>3 DEF Candidates
  <1>5. QED
    BY <1>4

LEMMA AdvanceTyped ==
  ASSUME Typed, Advance
  PROVE  /\ ProcessedInv' /\ {res', args'} \subseteq [Entry -> Expanded \union {Nil}]
         /\ pc' \in {"next", "apply", "failed", "ready"}
         /\ obj' \in Group /\ obj' # Nil /\ entry' \in Entry \union {Nil}
  <1>0. obj \in Group /\ obj # Nil
    BY DEF Advance, Typed, TypeOK
  <1>1. CASE pc = "reread"
    <2>1. args = NoResources
      BY <1>1 DEF Typed, ProcessedInv
    <2>2. QED
      BY <1>1, <2>1, Fresh DEF Advance, Typed, TypeOK
  <1>2. CASE pc = "next"
    <2>1. UNCHANGED <<obj, args, res>>
      BY <1>2 DEF Advance
    <2>2. entry' \in Entry \union {Nil} /\ pc' \in {"apply", "failed", "ready"}
      BY <1>2 DEF Advance, Candidates, Listed, Typed, TypeOK
    <2>3. pc' = "apply" => entry' \in Candidates
      BY <1>2 DEF Advance
    <2>4. pc' = "ready" => Listed \subseteq Processed
      BY <1>2, NoneLeft DEF Advance
    <2>5. ProcessedInv'
      BY <2>1, <2>2, <2>3, <2>4 DEF Typed, ProcessedInv, Processed, Candidates, Listed
    <2>6. QED
      BY <1>0, <2>1, <2>2, <2>5 DEF Typed, TypeOK
  <1>3. CASE pc = "apply"
    <2>1. Written(entry) /\ entry' = Nil /\ pc' = "next" /\ UNCHANGED obj
      BY <1>3 DEF Advance
    <2>2. {res', args'} \subseteq [Entry -> Expanded \union {Nil}]
      BY <2>1 DEF Written, Typed, TypeOK
    <2>3. entry \in Candidates /\ entry \in Entry
      BY <1>3, <2>1 DEF Typed, ProcessedInv, Written
    <2>4. Processed' = Processed \union {entry}
      BY <2>1 DEF Written, Processed, Typed, TypeOK
    <2>5. args'[entry].version = obj.spec[entry] /\ \A e \in Entry : e # entry => args'[e] = args[e]
      BY <2>1, <2>3 DEF Written, Typed, TypeOK
    <2>6. ASSUME NEW e \in Processed'
          PROVE  e \in Listed' /\ Needs[e] \subseteq Processed' /\ args'[e].version = obj'.spec[e]
      <3>1. CASE e = entry
        BY <2>1, <2>3, <2>4, <2>5, <3>1 DEF Candidates, Listed
      <3>2. CASE e # entry
        BY <2>1, <2>4, <2>5, <3>2 DEF Typed, ProcessedInv, Listed, Processed
      <3>3. QED
        BY <3>1, <3>2
    <2>7. ProcessedInv'
      BY <2>1, <2>6 DEF ProcessedInv
    <2>8. QED
      BY <1>0, <2>1, <2>2, <2>7
  <1>4. QED
    BY <1>1, <1>2, <1>3 DEF Advance

LEMMA TypedStep ==
  ASSUME Typed, [Next]_vars
  PROVE  Typed'
  <1>0. TypeOK /\ ProcessedInv
    BY DEF Typed
  <1>1. ASSUME UNCHANGED worker PROVE ProcessedInv'
    BY <1>0, <1>1 DEF worker, ProcessedInv, Processed, Listed, Candidates
  <1>2. CASE World \/ UNCHANGED vars
    <2>1. UNCHANGED worker /\ born' \in Nat /\ {edits', faults'} \subseteq Nat
      BY <1>0, <1>2, WorldSteps
    <2>2. /\ {group', gcache'} \subseteq Group \union {Nil}
          /\ {res', rcache'} \subseteq [Entry -> Expanded \union {Nil}]
          /\ pending' \in BOOLEAN
      BY <1>0, <1>2, WorldSteps
         DEF groups, resources, ResourcesMove, Created, Edited, Deleted, Passes, TypeOK
    <2>3. QED
      BY <1>0, <1>1, <2>1, <2>2 DEF Typed, TypeOK, worker
  <1>3. CASE Crash
    <2>1. ProcessedInv' /\ args' \in [Entry -> Expanded \union {Nil}]
          /\ pc' = "idle" /\ obj' = Nil /\ entry' = Nil
      BY <1>3, ReturnTyped DEF Crash
    <2>2. QED
      BY <1>0, <1>3, <2>1 DEF Crash, Fault, Typed, TypeOK
  <1>4. CASE Reconcile
    <2>1. UNCHANGED <<gcache, rcache, edits, born>> /\ faults' \in Nat
      BY <1>0, <1>4, ReconcileSteps
    <2>2. CASE StatusSet
      <3>1. CASE Return
        BY <1>0, <2>1, <2>2, <3>1, ReturnTyped DEF StatusSet, resources, Typed, TypeOK
      <3>2. CASE ~Return
        <4>1. args = NoResources /\ args' = NoResources /\ UNCHANGED <<obj, entry>>
              /\ pc' \in {"progress", "reread"} /\ obj # Nil
          BY <1>0, <2>2, <3>2 DEF StatusSet, ProcessedInv, TypeOK
        <4>2. QED
          BY <1>0, <2>1, <2>2, <4>1, Fresh DEF StatusSet, resources, Typed, TypeOK
      <3>3. QED
        BY <3>1, <3>2
    <2>3. CASE Advance
      BY <1>0, <2>1, <2>3, AdvanceTyped DEF Advance, groups, Typed, TypeOK
    <2>4. CASE GivenUp
      BY <1>0, <2>1, <2>4, ReturnTyped DEF GivenUp, Requeue, groups, resources, Typed, TypeOK
    <2>5. CASE pc = "idle" /\ gcache = Nil /\ UNCHANGED <<groups, resources, worker>> /\ pending' = FALSE
      <3>1. ProcessedInv' /\ UNCHANGED <<groups, resources, pc, obj, args, entry>> /\ pending' \in BOOLEAN
        BY <1>1, <2>5 DEF worker
      <3>2. QED
        BY <1>0, <2>1, <3>1 DEF groups, resources, Typed, TypeOK
    <2>6. CASE /\ pc = "idle" /\ gcache # Nil /\ UNCHANGED <<groups, resources, args, entry>>
               /\ obj' = gcache /\ pending' = FALSE
               /\ pc' = IF gcache.status = "" THEN "initialize" ELSE "progress"
      <3>1. args' = NoResources /\ pc' \in {"initialize", "progress"}
        BY <1>0, <2>6 DEF ProcessedInv
      <3>2. ProcessedInv' /\ args' \in [Entry -> Expanded \union {Nil}]
        BY <3>1, Fresh
      <3>3. /\ UNCHANGED <<group, gcache, res, rcache, entry>> /\ obj' \in Group /\ obj' # Nil
            /\ pending' \in BOOLEAN
        BY <1>0, <2>6 DEF groups, resources, TypeOK
      <3>4. QED
        BY <1>0, <2>1, <3>1, <3>2, <3>3 DEF Typed, TypeOK
    <2>7. QED
      BY <1>0, <1>4, <2>2, <2>3, <2>4, <2>5, <2>6, ReconcileSteps
  <1>5. QED
    BY <1>2, <1>3, <1>4 DEF Next

LEMMA TypedInductive == Spec => []Typed
  <1>1. Init => Typed
    <2> SUFFICES ASSUME Init PROVE Typed
      OBVIOUS
    <2>1. TypeOK
      <3>1. NoResources \in [Entry -> Expanded \union {Nil}]
        BY DEF NoResources
      <3>2. {res, rcache, args} \subseteq [Entry -> Expanded \union {Nil}]
        BY <3>1 DEF Init
      <3>3. /\ {group, gcache, obj} \subseteq Group \union {Nil}
            /\ pending \in BOOLEAN /\ (pc = "idle") = (obj = Nil)
            /\ pc \in {"idle", "initialize", "progress", "reread", "next", "apply", "failed", "ready"}
        BY DEF Init
      <3>4. entry \in Entry \union {Nil} /\ {edits, born, faults} \subseteq Nat
        BY DEF Init
      <3>5. QED
        BY <3>2, <3>3, <3>4 DEF TypeOK
    <2>2. ProcessedInv
      BY DEF Init, ProcessedInv, Processed, NoResources
    <2>3. QED
      BY <2>1, <2>2 DEF Typed
  <1>2. Typed /\ [Next]_vars => Typed'
    BY TypedStep
  <1>3. QED
    BY <1>1, <1>2, PTL DEF Spec

(***************************************************************************)
(* Every reachable state of the group controller is well typed; what an    *)
(* expression reads is the object of an entry that was processed before.   *)
(***************************************************************************)
THEOREM GroupTyped == Spec => []TypeOK
  <1>1. Typed => TypeOK
    BY DEF Typed
  <1>2. QED
    BY <1>1, TypedInductive, PTL

-----------------------------------------------------------------------------
(***************************************************************************)
(* The step, in the cases the invariants below tell apart.                 *)
(***************************************************************************)
Stays == UNCHANGED <<groups, worker, pending, born>> /\ ResourcesMove
ByUser ==
  UNCHANGED <<gcache, resources, worker, pending>> /\ (Created \/ Edited \/ Deleted)
Delivers ==
  /\ UNCHANGED <<group, resources, worker, born>> /\ gcache' = group
  /\ pending' = (pending \/ Passes(gcache, group))
Restarts ==
  /\ UNCHANGED <<group, res, born>> /\ gcache' = group /\ Return
  /\ pending' = (group # Nil)
Drops == pc = "idle" /\ gcache = Nil /\ UNCHANGED <<groups, resources, worker, born>>
Begins ==
  /\ pc = "idle" /\ gcache # Nil /\ UNCHANGED <<groups, resources, args, born>>
  /\ obj' = gcache /\ pc' = IF gcache.status = "" THEN "initialize" ELSE "progress"
ByWorker ==
  /\ UNCHANGED <<gcache, rcache, born>>
  /\ StatusSet \/ Advance \/ GivenUp \/ Drops \/ Begins

LEMMA Steps ==
  ASSUME Typed, [Next]_vars
  PROVE  Stays \/ ByUser \/ Delivers \/ Restarts \/ ByWorker
  <1>0. TypeOK /\ ProcessedInv
    BY DEF Typed
  <1>1. CASE World \/ UNCHANGED vars
    BY <1>0, <1>1, WorldSteps DEF Stays, ByUser, Delivers, groups
  <1>2. CASE Crash
    BY <1>2 DEF Crash, Fault, Restarts
  <1>3. CASE Reconcile
    BY <1>0, <1>3, ReconcileSteps DEF ByWorker, Drops, Begins
  <1>4. QED
    BY <1>1, <1>2, <1>3 DEF Next

LEMMA VersionsStep ==
  ASSUME Typed, Typed', VersionsInv, [Next]_vars
  PROVE  VersionsInv'
  <1>0. /\ born \in Nat /\ born' \in Nat
        /\ group # Nil => group.uid \in Nat /\ group.gen \in Nat
        /\ gcache # Nil => gcache.uid \in Nat /\ gcache.gen \in Nat
    BY DEF Typed, TypeOK, Group
  <1>1. CASE UNCHANGED <<groups, born>>
    BY <1>1 DEF groups, VersionsInv
  <1>2. CASE ByUser
    <2>1. gcache' = gcache
      BY <1>2 DEF ByUser
    <2>2. gcache # Nil => gcache.uid <= born
      BY DEF VersionsInv
    <2>3. CASE Created
      <3>1. group'.uid = born' /\ born < born'
        <4>1. group'.uid = born' /\ born' = born + 1
          BY <2>3 DEF Created
        <4>2. born < born'
          BY <1>0, <4>1
        <4>3. QED
          BY <4>1, <4>2
      <3>2. gcache # Nil => gcache.uid <= born' /\ gcache.uid # group'.uid
        BY <1>0, <2>2, <3>1
      <3>3. QED
        BY <1>0, <2>1, <3>1, <3>2 DEF VersionsInv
    <2>4. CASE Edited
      <3>1. born' = born /\ group'.uid = group.uid /\ group'.gen = group.gen + 1 /\ group # Nil
        BY <2>4 DEF Edited
      <3>2. gcache # Nil /\ gcache.uid = group.uid => gcache.gen < group'.gen
        BY <1>0, <3>1 DEF VersionsInv
      <3>3. group.uid <= born
        BY <3>1 DEF VersionsInv
      <3>4. gcache # Nil /\ gcache.uid = group'.uid => gcache.gen <= group'.gen /\ gcache.gen # group'.gen
        BY <1>0, <3>1, <3>2
      <3>5. QED
        BY <2>1, <2>2, <3>1, <3>3, <3>4 DEF VersionsInv
    <2>5. CASE Deleted
      BY <2>1, <2>2, <2>5 DEF Deleted, VersionsInv
    <2>6. QED
      BY <1>2, <2>3, <2>4, <2>5 DEF ByUser
  <1>3. CASE Delivers \/ Restarts
    <2>1. group' = group /\ gcache' = group /\ born' = born
      BY <1>3 DEF Delivers, Restarts
    <2>2. group # Nil => group.uid <= born /\ group.gen <= group.gen
      BY <1>0 DEF VersionsInv
    <2>3. QED
      BY <2>1, <2>2 DEF VersionsInv
  <1>4. CASE StatusSet
    BY <1>4 DEF StatusSet, history, VersionsInv
  <1>5. CASE Stays \/ Advance \/ GivenUp \/ Drops \/ Begins
    <2>1. CASE Stays \/ Drops \/ Begins
      BY <1>1, <2>1 DEF Stays, Drops, Begins
    <2>2. CASE ByWorker /\ (Advance \/ GivenUp)
      BY <1>1, <2>2 DEF ByWorker, Advance, GivenUp
    <2>3. QED
      BY <1>2, <1>3, <1>4, <2>1, <2>2, Steps DEF ByWorker
  <1>6. QED
    BY <1>2, <1>3, <1>4, <1>5, Steps DEF ByWorker

LEMMA FinishedStep ==
  ASSUME Typed, VersionsInv, FinishedInv, [Next]_vars
  PROVE  FinishedInv'
  <1> SUFFICES ASSUME group' # Nil, gcache' # Nil, gcache'.uid = group'.uid, ~Held'
               PROVE  group'.status \in {"Ready", "Failed"}
    BY DEF FinishedInv
  <1>0. pc' = "idle" /\ ~pending'
    BY DEF Held
  <1>1. CASE Stays
    BY <1>0, <1>1 DEF Stays, groups, worker, Held, FinishedInv
  <1>2. CASE ByUser
    <2>1. ~Created
      <3>1. SUFFICES ASSUME Created PROVE FALSE
        OBVIOUS
      <3>2. gcache' = gcache /\ gcache.uid <= born /\ gcache.uid = born + 1 /\ born \in Nat
        BY <1>2, <3>1 DEF ByUser, Created, VersionsInv, Typed, TypeOK
      <3>3. QED
        BY <3>2
    <2>2. CASE Edited
      BY <1>0, <1>2, <2>2 DEF ByUser, Edited, worker, Held, FinishedInv
    <2>3. QED
      BY <1>2, <2>1, <2>2 DEF ByUser, Deleted
  <1>3. CASE Delivers
    BY <1>0, <1>3 DEF Delivers, Passes, worker, Held, FinishedInv
  <1>4. CASE Restarts
    BY <1>0, <1>4 DEF Restarts
  <1>5. CASE ByWorker
    <2>1. CASE StatusSet
      BY <1>0, <2>1 DEF StatusSet
    <2>2. CASE Advance \/ GivenUp \/ Drops \/ Begins
      BY <1>0, <1>5, <2>2 DEF ByWorker, Advance, GivenUp, Requeue, Drops, Begins
    <2>3. QED
      BY <1>5, <2>1, <2>2 DEF ByWorker
  <1>6. QED
    BY <1>1, <1>2, <1>3, <1>4, <1>5, Steps

LEMMA CopyStep ==
  ASSUME Typed, VersionsInv, CopyInv, [Next]_vars
  PROVE  CopyInv'
  <1> SUFFICES ASSUME pc' # "idle", ~pending'
               PROVE  /\ gcache' # Nil /\ obj'.uid = gcache'.uid
                      /\ obj'.gen = gcache'.gen /\ obj'.spec = gcache'.spec
    BY DEF CopyInv
  <1>1. CASE Stays \/ ByUser
    BY <1>1 DEF Stays, ByUser, groups, worker, CopyInv
  <1>2. CASE Delivers
    BY <1>2 DEF Delivers, Passes, worker, CopyInv, VersionsInv
  <1>3. CASE Restarts
    BY <1>3 DEF Restarts, Return
  <1>4. CASE ByWorker
    <2>1. CASE StatusSet
      BY <2>1 DEF StatusSet, Return, CopyInv
    <2>2. CASE Advance \/ GivenUp \/ Drops \/ Begins
      BY <1>4, <2>2
         DEF ByWorker, Advance, GivenUp, Requeue, Return, Drops, Begins, groups, worker, CopyInv
    <2>3. QED
      BY <1>4, <2>1, <2>2 DEF ByWorker
  <1>5. QED
    BY <1>1, <1>2, <1>3, <1>4, Steps

LEMMA RestInductive == Spec => [](Typed /\ VersionsInv /\ FinishedInv /\ CopyInv)
  <1> DEFINE Inv == VersionsInv /\ FinishedInv /\ CopyInv
  <1>1. Init => Inv
    BY DEF Init, VersionsInv, FinishedInv, CopyInv
  <1>2. Typed /\ Typed' /\ Inv /\ [Next]_vars => Inv'
    BY VersionsStep, FinishedStep, CopyStep
  <1> HIDE DEF Inv
  <1>3. Spec => []Inv
    BY <1>1, <1>2, TypedInductive, PTL DEF Spec
  <1>4. Inv => VersionsInv /\ FinishedInv /\ CopyInv
    BY DEF Inv
  <1>5. QED
    BY <1>3, <1>4, TypedInductive, PTL

(***************************************************************************)
(* AtRestFinished holds throughout: a group is only left alone when it is  *)
(* Ready or Failed (line 336), whatever is edited, deleted and created     *)
(* again meanwhile, and whatever fails.                                    *)
(***************************************************************************)
THEOREM GroupFinished == Spec => []AtRestFinished
  <1>1. FinishedInv => AtRestFinished
    BY DEF FinishedInv, AtRestFinished, AtRest, Held
  <1>2. QED
    BY <1>1, RestInductive, PTL

-----------------------------------------------------------------------------
(***************************************************************************)
(* One life of a group at a time (NamesRest).                              *)
(***************************************************************************)
NamesFree == group = Nil /\ group' # Nil => NameIsFree

LEMMA OwnersStep ==
  ASSUME Typed, OwnersInv, [Next]_vars, NamesFree
  PROVE  OwnersInv'
  <1> SUFFICES ASSUME group' # Nil
               PROVE  /\ gcache' # Nil => gcache'.uid = group'.uid
                      /\ pc' # "idle" => obj'.uid = group'.uid
                      /\ \A e \in Entry : res'[e] # Nil => group'.uid = res'[e].owner
    BY DEF OwnersInv, Owned
  <1>0. /\ group # Nil =>
             /\ gcache # Nil => gcache.uid = group.uid
             /\ pc # "idle" => obj.uid = group.uid
             /\ \A e \in Entry : res[e] # Nil => group.uid = res[e].owner
    BY DEF OwnersInv, Owned
  <1>1. CASE Stays
    BY <1>0, <1>1 DEF Stays, ResourcesMove, Collected, Worked, groups, worker
  <1>2. CASE ByUser
    <2>1. CASE Created
      BY <1>2, <2>1 DEF ByUser, Created, NamesFree, NameIsFree, NoResources, resources, worker
    <2>2. CASE Edited
      BY <1>0, <1>2, <2>2 DEF ByUser, Edited, resources, worker
    <2>3. QED
      BY <1>2, <2>1, <2>2 DEF ByUser, Deleted
  <1>3. CASE Delivers
    BY <1>0, <1>3 DEF Delivers, resources, worker
  <1>4. CASE Restarts
    BY <1>0, <1>4 DEF Restarts, Return
  <1>5. CASE ByWorker
    <2>1. CASE StatusSet
      BY <1>0, <2>1 DEF StatusSet, Return, resources
    <2>2. CASE Advance
      <3>1. group # Nil /\ group' = group /\ gcache' = gcache /\ pc # "idle"
        BY <2>2 DEF Advance, groups
      <3>2. obj'.uid = group.uid
        BY <1>0, <2>2, <3>1 DEF Advance
      <3>3. ASSUME NEW e \in Entry, res'[e] # Nil PROVE group.uid = res'[e].owner
        <4>1. CASE res' = res
          BY <1>0, <3>1, <3>3, <4>1
        <4>2. CASE Written(entry)
          <5>1. CASE e = entry
            BY <1>0, <3>1, <4>2, <5>1 DEF Written
          <5>2. CASE e # entry
            BY <1>0, <3>1, <3>3, <4>2, <5>2 DEF Written, Typed, TypeOK
          <5>3. QED
            BY <5>1, <5>2
        <4>3. QED
          BY <2>2, <4>1, <4>2 DEF Advance
      <3>4. QED
        BY <1>0, <3>1, <3>2, <3>3
    <2>3. CASE GivenUp \/ Drops \/ Begins
      BY <1>0, <1>5, <2>3 DEF GivenUp, Requeue, Return, Drops, Begins, groups, resources, worker
    <2>4. QED
      BY <1>5, <2>1, <2>2, <2>3 DEF ByWorker
  <1>6. QED
    BY <1>1, <1>2, <1>3, <1>4, <1>5, Steps

LEMMA ProgressStep ==
  ASSUME Typed, ProgressInv, [Next]_vars, NamesFree
  PROVE  ProgressInv'
  <1> USE DEF AfterProgress
  <1>1. CASE Stays \/ Delivers
    BY <1>1 DEF Stays, Delivers, groups, worker, ProgressInv
  <1>2. CASE ByUser
    <2>1. UNCHANGED <<pc, obj>>
      BY <1>2 DEF ByUser, worker
    <2>2. CASE Created
      BY <2>1, <2>2 DEF Created, NamesFree, NameIsFree, ProgressInv
    <2>3. CASE Edited \/ Deleted
      BY <2>1, <2>3 DEF Edited, Deleted, ProgressInv
    <2>4. QED
      BY <1>2, <2>2, <2>3 DEF ByUser
  <1>3. CASE Restarts
    BY <1>3 DEF Restarts, Return, ProgressInv
  <1>4. CASE ByWorker
    <2>1. CASE StatusSet
      BY <2>1 DEF StatusSet, Return, ProgressInv
    <2>2. CASE Advance
      BY <2>2 DEF Advance, groups, ProgressInv
    <2>3. CASE GivenUp \/ Drops \/ Begins
      BY <2>3 DEF GivenUp, Requeue, Return, Drops, Begins, worker, ProgressInv
    <2>4. QED
      BY <1>4, <2>1, <2>2, <2>3 DEF ByWorker
  <1>5. QED
    BY <1>1, <1>2, <1>3, <1>4, Steps

\* WrittenFrom after the step, of a spec from before it.
NowWrittenFrom(e, spec) ==
  /\ res'[e] # Nil
  /\ res'[e].version = spec[e]
  /\ <<e, spec[e]>> \notin Awaits =>
       \A d \in Needs[e] : spec[d] # 0 /\ res'[e].reads[d] = spec[d]

\* What is written stays so until the worker writes it again.
LEMMA WrittenStays ==
  ASSUME OwnersInv, group # Nil, ResourcesMove, NEW e \in Entry, NEW spec, WrittenFrom(e, spec)
  PROVE  NowWrittenFrom(e, spec)
  <1>1. res'[e] = res[e] \/ Worked(e)
    BY DEF ResourcesMove, Collected, OwnersInv, WrittenFrom
  <1>2. QED
    BY <1>1 DEF Worked, WrittenFrom, NowWrittenFrom

\* What is written now is written from the worker's copy.
LEMMA WrittenNow ==
  ASSUME Typed, pc = "apply", Written(entry)
  PROVE  /\ entry \in Candidates
         /\ NowWrittenFrom(entry, obj.spec)
         /\ \A d \in Needs[entry] : res'[entry].reads[d] # 0
  <1>0. entry \in Candidates /\ entry \in Entry /\ obj \in Group
    BY DEF Typed, TypeOK, ProcessedInv, Written
  <1>1. res'[entry] # Nil /\ res'[entry].version = obj.spec[entry] /\ res'[entry].reads = Reads(entry)
    BY DEF Written
  <1>2. ASSUME NEW d \in Needs[entry]
        PROVE  /\ d \in Entry /\ args[d].version = obj.spec[d] /\ obj.spec[d] # 0
               /\ Reads(entry)[d] = IF ReadsStatus(entry) THEN args[d].out ELSE args[d].version
    <2>1. d \in Processed
      BY <1>0, <1>2 DEF Candidates
    <2>2. d \in Entry
      BY <2>1 DEF Processed
    <2>3. args[d].version = obj.spec[d] /\ obj.spec[d] # 0
      BY <2>1 DEF Typed, ProcessedInv, Listed
    <2>4. QED
      BY <1>2, <2>2, <2>3 DEF Reads
  <1>3. ASSUME NEW d \in Needs[entry] PROVE res'[entry].reads[d] # 0
    BY <1>1, <1>2, <1>3 DEF Written, Evaluates
  <1>4. NowWrittenFrom(entry, obj.spec)
    BY <1>1, <1>2 DEF NowWrittenFrom, ReadsStatus
  <1>5. QED
    BY <1>0, <1>3, <1>4

\* What is processed is written from the copy it was read from.
ProcessedWritten == group # Nil => \A e \in Processed : WrittenFrom(e, obj.spec)

LEMMA ProcessedWrittenStep ==
  ASSUME Typed, Typed', OwnersInv, ProcessedWritten, [Next]_vars, NamesFree
  PROVE  ProcessedWritten'
  <1> SUFFICES ASSUME group' # Nil, NEW e \in Processed'
               PROVE  NowWrittenFrom(e, obj'.spec)
    BY DEF ProcessedWritten, WrittenFrom, NowWrittenFrom
  <1>0. e \in Entry /\ args'[e] # Nil /\ args' # NoResources
    BY DEF Processed, NoResources
  <1>1. ASSUME group # Nil, args' = args, obj' = obj, res'[e] = res[e]
        PROVE  NowWrittenFrom(e, obj'.spec)
    BY <1>0, <1>1 DEF ProcessedWritten, Processed, WrittenFrom, NowWrittenFrom
  <1>2. CASE Stays
    <2>1. group # Nil /\ UNCHANGED <<args, obj>> /\ e \in Processed
      BY <1>0, <1>2 DEF Stays, groups, worker, Processed
    <2>2. WrittenFrom(e, obj.spec)
      BY <2>1 DEF ProcessedWritten
    <2>3. QED
      BY <1>0, <1>2, <2>1, <2>2, WrittenStays DEF Stays
  <1>3. CASE ByUser
    <2>1. UNCHANGED <<args, obj, res>>
      BY <1>3 DEF ByUser, worker, resources
    <2>2. ~Created
      BY <1>0, <2>1 DEF Created, NamesFree, NameIsFree, Typed, ProcessedInv
    <2>3. QED
      BY <1>1, <1>3, <2>1, <2>2 DEF ByUser, Edited, Deleted
  <1>4. CASE Delivers
    BY <1>1, <1>4 DEF Delivers, worker, resources
  <1>5. ~Return /\ ~Restarts /\ ~GivenUp
    BY <1>0 DEF Return, Restarts, GivenUp, Requeue
  <1>6. CASE ByWorker
    <2>1. CASE StatusSet
      BY <1>1, <1>5, <2>1 DEF StatusSet, resources
    <2>2. CASE Advance
      <3>1. group # Nil
        BY <2>2 DEF Advance, groups
      <3>2. pc # "reread"
        BY <1>0, <2>2 DEF Advance, Typed, ProcessedInv
      <3>3. CASE pc = "next"
        BY <1>1, <2>2, <3>1, <3>3 DEF Advance
      <3>4. CASE pc = "apply"
        <4>1. Written(entry) /\ obj' = obj
          BY <2>2, <3>4 DEF Advance
        <4>2. CASE e = entry
          BY <3>4, <4>1, <4>2, WrittenNow
        <4>3. CASE e # entry
          <5>1. res'[e] = res[e] /\ args'[e] = args[e]
            BY <1>0, <4>1, <4>3 DEF Written, Typed, TypeOK
          <5>2. e \in Processed
            BY <1>0, <5>1 DEF Processed
          <5>3. QED
            BY <3>1, <4>1, <5>1, <5>2 DEF ProcessedWritten, WrittenFrom, NowWrittenFrom
        <4>4. QED
          BY <4>2, <4>3
      <3>5. QED
        BY <2>2, <3>2, <3>3, <3>4 DEF Advance
    <2>3. ~Drops /\ ~Begins
      BY <1>0 DEF Drops, Begins, worker, Typed, ProcessedInv
    <2>4. QED
      BY <1>5, <1>6, <2>1, <2>2, <2>3 DEF ByWorker
  <1>7. QED
    BY <1>2, <1>3, <1>4, <1>5, <1>6, Steps

\* What a Ready group was left with is written from what the informer shows.
LeftWritten ==
  group # Nil /\ gcache # Nil /\ ~Held /\ group.status = "Ready" =>
    \A e \in Entry : gcache.spec[e] # 0 => WrittenFrom(e, gcache.spec)

LEMMA LeftWrittenStep ==
  ASSUME Typed, VersionsInv, CopyInv, OwnersInv, ProcessedWritten, LeftWritten,
         [Next]_vars, NamesFree
  PROVE  LeftWritten'
  <1> SUFFICES ASSUME group' # Nil, gcache' # Nil, ~Held', group'.status = "Ready",
                      NEW e \in Entry, gcache'.spec[e] # 0
               PROVE  NowWrittenFrom(e, gcache'.spec)
    BY DEF LeftWritten, WrittenFrom, NowWrittenFrom
  <1>0. pc' = "idle" /\ ~pending'
    BY DEF Held
  <1>1. CASE Stays
    <2>1. /\ group # Nil /\ gcache # Nil /\ ~Held /\ group.status = "Ready"
          /\ gcache' = gcache
      BY <1>0, <1>1 DEF Stays, groups, worker, Held
    <2>2. WrittenFrom(e, gcache.spec)
      BY <2>1 DEF LeftWritten
    <2>3. QED
      BY <1>1, <2>1, <2>2, WrittenStays DEF Stays
  <1>2. CASE ByUser
    <2>1. CASE Created
      BY <1>2, <2>1 DEF ByUser, Created, NamesFree, NameIsFree
    <2>2. CASE Edited
      BY <1>0, <1>2, <2>2
         DEF ByUser, Edited, worker, resources, Held, LeftWritten, WrittenFrom, NowWrittenFrom
    <2>3. QED
      BY <1>2, <2>1, <2>2 DEF ByUser, Deleted
  <1>3. CASE Delivers
    <2>1. ~Held /\ ~Passes(gcache, group) /\ group' = group /\ gcache' = group /\ res' = res
      BY <1>0, <1>3 DEF Delivers, worker, resources, Held
    <2>2. gcache # Nil /\ gcache.spec = group.spec
      BY <2>1 DEF Passes, VersionsInv
    <2>3. QED
      BY <2>1, <2>2 DEF LeftWritten, WrittenFrom, NowWrittenFrom
  <1>4. CASE Restarts
    BY <1>0, <1>4 DEF Restarts
  <1>5. CASE ByWorker
    <2>1. CASE StatusSet
      <3>1. pc = "ready" /\ ~pending /\ group # Nil /\ gcache' = gcache /\ res' = res
        BY <1>0, <2>1 DEF StatusSet, resources
      <3>2. gcache.spec = obj.spec
        BY <3>1 DEF CopyInv
      <3>3. e \in Processed
        BY <3>1, <3>2 DEF Typed, ProcessedInv, Listed
      <3>4. QED
        BY <3>1, <3>2, <3>3 DEF ProcessedWritten, WrittenFrom, NowWrittenFrom
    <2>2. CASE Advance \/ GivenUp \/ Drops \/ Begins
      BY <1>0, <1>5, <2>2 DEF ByWorker, Advance, GivenUp, Requeue, Drops, Begins
    <2>3. QED
      BY <1>5, <2>1, <2>2 DEF ByWorker
  <1>6. QED
    BY <1>1, <1>2, <1>3, <1>4, <1>5, Steps

LEMMA OrderStep ==
  ASSUME Typed, OwnersInv, ProcessedWritten, CreatedInOrder, [Next]_vars, NamesFree
  PROVE  CreatedInOrder'
  <1> SUFFICES ASSUME NEW e \in Entry, res'[e] # Nil, group' # Nil, group'.uid = res'[e].owner,
                      NEW d \in Needs[e]
               PROVE  res'[d] # Nil /\ res'[e].reads[d] # 0
    BY DEF CreatedInOrder, Owned
  <1>0. d \in Entry
    BY GroupAssumption
  <1>1. ASSUME group # Nil, res[e] # Nil PROVE res[d] # Nil /\ res[e].reads[d] # 0
    BY <1>1 DEF OwnersInv, CreatedInOrder
  <1>2. CASE Stays
    <2>1. group # Nil
      BY <1>2 DEF Stays, groups
    <2>2. res[e] # Nil /\ (res'[e] = res[e] \/ Worked(e))
      BY <1>2 DEF Stays, ResourcesMove, Collected, Worked
    <2>3. res[d] # Nil /\ res[e].reads[d] # 0
      BY <1>1, <2>1, <2>2
    <2>4. res'[d] # Nil
      BY <1>0, <1>2, <2>1, <2>3 DEF Stays, ResourcesMove, Collected, Worked, OwnersInv
    <2>5. QED
      BY <2>2, <2>3, <2>4 DEF Worked
  <1>3. CASE ByUser
    <2>1. res' = res
      BY <1>3 DEF ByUser, resources
    <2>2. CASE Created
      BY <2>1, <2>2 DEF Created, NamesFree, NameIsFree, NoResources
    <2>3. QED
      BY <1>1, <1>3, <2>1, <2>2 DEF ByUser, Edited, Deleted
  <1>4. CASE UNCHANGED <<group, res>>
    BY <1>1, <1>4
  <1>5. CASE Delivers \/ Restarts
    BY <1>4, <1>5 DEF Delivers, Restarts, resources
  <1>6. CASE ByWorker
    <2>1. CASE StatusSet
      BY <1>1, <2>1 DEF StatusSet, resources
    <2>2. CASE Advance
      <3>1. group # Nil /\ group' = group
        BY <2>2 DEF Advance, groups
      <3>2. CASE pc = "apply"
        <4>1. Written(entry)
          BY <2>2, <3>2 DEF Advance
        <4>2. \A x \in Entry : x # entry => res'[x] = res[x]
          BY <4>1 DEF Written, Typed, TypeOK
        <4>3. CASE e = entry
          <5>1. res'[e].reads[d] # 0 /\ d \in Processed
            BY <3>2, <4>1, <4>3, WrittenNow DEF Candidates
          <5>2. res[d] # Nil
            BY <3>1, <5>1 DEF ProcessedWritten, WrittenFrom
          <5>3. res'[d] # Nil
            BY <1>0, <4>1, <4>2, <5>2 DEF Written
          <5>4. QED
            BY <5>1, <5>3
        <4>4. CASE e # entry
          <5>1. res[d] # Nil /\ res'[e].reads[d] # 0
            BY <1>1, <3>1, <4>2, <4>4
          <5>2. QED
            BY <1>0, <4>1, <4>2, <5>1 DEF Written
        <4>5. QED
          BY <4>3, <4>4
      <3>3. CASE pc # "apply"
        BY <1>4, <2>2, <3>1, <3>3 DEF Advance
      <3>4. QED
        BY <3>2, <3>3
    <2>3. CASE GivenUp \/ Drops \/ Begins
      BY <1>4, <2>3 DEF GivenUp, Drops, Begins, groups, resources
    <2>4. QED
      BY <1>6, <2>1, <2>2, <2>3 DEF ByWorker
  <1>7. QED
    BY <1>2, <1>3, <1>5, <1>6, Steps

LEMMA LifeInductive ==
  Spec /\ NamesRest => [](OwnersInv /\ ProgressInv /\ AppliedInv /\ CreatedInOrder)
  <1> DEFINE Rest == Typed /\ VersionsInv /\ FinishedInv /\ CopyInv
             Inv == OwnersInv /\ ProgressInv /\ ProcessedWritten /\ LeftWritten /\ CreatedInOrder
  <1>1. Init => Inv
    BY DEF Init, OwnersInv, ProgressInv, ProcessedWritten, LeftWritten, CreatedInOrder,
       AfterProgress, NoResources
  <1>2. Rest /\ Rest' /\ Inv /\ [Next]_vars /\ [NamesFree]_vars => Inv'
    <2> SUFFICES ASSUME Rest, Rest', Inv, [Next]_vars, [NamesFree]_vars PROVE Inv'
      OBVIOUS
    <2>1. NamesFree
      BY DEF vars, groups, NamesFree
    <2>2. QED
      BY <2>1, OwnersStep, ProgressStep, ProcessedWrittenStep, LeftWrittenStep, OrderStep
  <1>3. NamesRest => [][NamesFree]_vars
    BY DEF NamesRest, NamesFree
  <1>4. Inv => OwnersInv /\ ProgressInv /\ AppliedInv /\ CreatedInOrder
    BY DEF ProcessedWritten, LeftWritten, AppliedInv
  <1>5. Spec => []Rest
    BY RestInductive
  <1> HIDE DEF Rest, Inv
  <1>6. QED
    BY <1>1, <1>2, <1>3, <1>4, <1>5, PTL DEF Spec

(***************************************************************************)
(* CreatedInOrder holds of every group whose name was free when it was     *)
(* created: an entry is only created, and updated, from objects that are   *)
(* there (lines 123 to 217), however often the reconciliation is cut short *)
(* and whatever is taken off the list.                                     *)
(***************************************************************************)
THEOREM GroupInOrder == Spec /\ NamesRest => []CreatedInOrder
  BY LifeInductive, PTL

(***************************************************************************)
(* AtRestApplied, likewise: what a quiet Ready group lists is all there,   *)
(* from the current version, "all resources were created" (line 229).      *)
(***************************************************************************)
THEOREM GroupApplied == Spec /\ NamesRest => []AtRestApplied
  <1>1. AppliedInv => AtRestApplied
    BY DEF AppliedInv, AtRestApplied, AtRest, InGroup, Applied, Held, WrittenFrom
  <1>2. QED
    BY <1>1, LifeInductive, PTL

(***************************************************************************)
(* AtRestReads, likewise: the specs an entry read are those of the moment  *)
(* (line 213), whatever the cache showed of the Resources.                 *)
(***************************************************************************)
THEOREM GroupReads == Spec /\ NamesRest => []AtRestReads
  <1>1. AppliedInv => AtRestReads
    <2> SUFFICES ASSUME AppliedInv, AtRest, group # Nil, group.status = "Ready",
                        NEW e \in InGroup, <<e, group.spec[e]>> \notin Awaits, NEW d \in Needs[e]
                 PROVE  res[e].reads[d] = res[d].version
      BY DEF AtRestReads
    <2>1. /\ gcache = group /\ ~Held /\ e \in Entry /\ group.spec[e] # 0 /\ d \in Entry
      BY GroupAssumption DEF AtRest, Held, InGroup
    <2>2. WrittenFrom(e, group.spec)
      BY <2>1 DEF AppliedInv
    <2>3. group.spec[d] # 0 /\ res[e].reads[d] = group.spec[d]
      BY <2>2 DEF WrittenFrom
    <2>4. res[d].version = group.spec[d]
      BY <2>1, <2>3 DEF AppliedInv, WrittenFrom
    <2>5. QED
      BY <2>3, <2>4
  <1>2. QED
    BY <1>1, LifeInductive, PTL

(***************************************************************************)
(* LeavesThroughProgress, likewise: no step takes a Failed group for Ready *)
(* but a new reconciliation (line 83).                                     *)
(***************************************************************************)
THEOREM GroupProgress == Spec /\ NamesRest => LeavesThroughProgress
  <1> DEFINE Move ==
        group # Nil /\ group' # Nil /\ group'.uid = group.uid /\ group'.status # group.status
          => \/ group'.status = "InProgress"
             \/ group.status = "InProgress" /\ group'.status \in {"Ready", "Failed"}
             \/ group.status = "" /\ group'.status = "Initializing"
  <1>1. Typed /\ ProgressInv /\ [Next]_vars => [Move]_vars
    <2> SUFFICES ASSUME Typed, ProgressInv, [Next]_vars, group # Nil, group' # Nil,
                        group'.status # group.status
                 PROVE  \/ group'.status = "InProgress"
                        \/ group.status = "InProgress" /\ group'.status \in {"Ready", "Failed"}
                        \/ group.status = "" /\ group'.status = "Initializing"
      OBVIOUS
    <2>1. StatusSet
      BY Steps DEF Stays, ByUser, Created, Edited, Deleted, Delivers, Restarts, ByWorker,
         Advance, GivenUp, Drops, Begins, groups
    <2>2. QED
      BY <2>1 DEF StatusSet, ProgressInv, AfterProgress
  <1> HIDE DEF Move
  <1>2. Spec /\ NamesRest => [][Move]_vars
    BY <1>1, RestInductive, LifeInductive, PTL DEF Spec
  <1>3. QED
    BY <1>2 DEF LeavesThroughProgress, Move

====
