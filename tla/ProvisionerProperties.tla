------------------------ MODULE ProvisionerProperties ------------------------
(***************************************************************************)
(* What makes a run of the provisioner correct, and the claim it does not  *)
(* keep.                                                                   *)
(***************************************************************************)
EXTENDS Provisioner

AtRest == pc = "idle" /\ ~pending /\ cached = spec

Processed == {n \in Name : args[n] # Nil}

(***************************************************************************)
(* "to create them in dependency order" (provisioner.go:41): when the run  *)
(* comes to an object, every object its expressions read has been applied  *)
(* in this run.                                                            *)
(***************************************************************************)
InDependencyOrder ==
  pc = "object" /\ index <= Len(order) =>
    ReadBy(Template[copy][Current]) \subseteq Processed

\* What a spec must be for that: its expressions read objects only, in a form
\* that is recognized, and none has two references of one form (expr.go:97).
Detectable(e) ==
  \A i, j \in DOMAIN e.reads :
    /\ e.reads[i].root = "resources"
    /\ e.reads[i].form \in {"dotted", "escaped"}
    /\ e.reads[i].form = e.reads[j].form => i = j

(***************************************************************************)
(* When everything is quiet after Success, every listed object that has a  *)
(* spec, and that nobody removed since, is written from the current spec   *)
(* of the Resource, with what it reads of the specs of other objects taken *)
(* from their current versions, and nothing from a status that was not     *)
(* there (provisioner.go:77 to 104), although edits, removals and failing  *)
(* calls cut runs short at any object.                                     *)
(***************************************************************************)
WrittenFrom(object, v) ==
  /\ object.version = v
  /\ \A r \in object.reads :
       /\ r.value # 0
       /\ r.part = "spec" /\ r.name \in HasSpec => r.value = v

AtRestRendered ==
  AtRest /\ answer = "Success" =>
    \A n \in Listed(spec) \intersect HasSpec : live[n] # Nil => WrittenFrom(live[n], spec)

\* The worker never goes quiet without an answer that Reconcile can end with.
AtRestAnswered == AtRest => answer \in {"Success", "Failed"}

-----------------------------------------------------------------------------
(***************************************************************************)
(* A run implements the contract: what it has seen of an object is what    *)
(* the arguments hold of it.                                               *)
(***************************************************************************)
SeenOf(n) ==
  IF args[n] = Nil THEN "nothing"
  ELSE IF VerdictOn(n, args[n]) = "ready" THEN "ready" ELSE "waiting"

Contract == INSTANCE ProvisionerContract WITH
  running <- pc # "idle",
  wanted  <- IF pc = "idle" THEN {} ELSE Listed(copy),
  seen    <- [n \in Name |-> SeenOf(n)]

\* Success is only answered when every object was ready in that very run,
\* whichever came first and whatever was seen after it (provisioner.go:72,
\* 108 to 138 and 156).
ImplementsContract == Contract!ContractSpec

-----------------------------------------------------------------------------
(***************************************************************************)
(* Inductive forms of the above.                                           *)
(***************************************************************************)

\* The arguments are the objects up to the position in the order, what is about
\* to be written can be evaluated, and `state` sums the arguments up.
RunInv ==
  /\ TypeOK
  /\ pc # "idle" => order \in Sorted(copy)
  /\ \A n \in Name : args[n] # Nil <=> \E i \in 1..(index - 1) : order[i] = n
  /\ pc \in {"create", "update"} => \A r \in ReferencesOf(Current) : Evaluates(r)
  /\ state = "Success" <=> \A n \in Name : SeenOf(n) # "waiting"

\* The objects this run has written, as they are and as the arguments hold them,
\* are written from its copy of the spec, which is the cached one as long as
\* nothing asks for another run; and so are they after it.
Applied(n) == args[n] # Nil \/ (pc = "refresh" /\ n = Current)

RenderInv ==
  /\ pc # "idle" /\ ~pending => copy = cached
  /\ \A n \in HasSpec :
       /\ args[n] # Nil => WrittenFrom(args[n], copy)
       /\ Applied(n) /\ live[n] # Nil => WrittenFrom(live[n], copy)
  /\ pc = "idle" /\ ~pending /\ answer = "Success" =>
       \A n \in Listed(cached) \intersect HasSpec :
         live[n] # Nil => WrittenFrom(live[n], cached)

\* The worker goes quiet with an answer.
AnswerInv == pc = "idle" /\ ~pending => answer \in {"Success", "Failed"}

-----------------------------------------------------------------------------
NoneFails == \A n \in Name : live[n] # Nil => live[n].verdict # "failed"

\* The spec can be put in order: what is read is listed, and of any of the
\* objects one reads none of the others.
Orderable(v) ==
  \A S \in SUBSET Listed(v) :
    /\ \A n \in S : ReadBy(Template[v][n]) \subseteq Listed(v)
    /\ S # {} => \E n \in S : ReadBy(Template[v][n]) \intersect S = {}

(***************************************************************************)
(* Once nobody edits the spec, the objects are provisioned and the worker  *)
(* rests with Success, whatever the spec was before and whatever order its *)
(* expressions ask for (graph.go:78), as long as no object fails.          *)
(***************************************************************************)
Provisions ==
  <>[]Orderable(spec) /\ []NoneFails => <>[](AtRest /\ answer = "Success")
==============================================================================
