------------------------ MODULE ResourceGroupProperties ------------------------
(***************************************************************************)
(* What makes ResourceGroupController correct, and the claims it does not  *)
(* keep.                                                                   *)
(***************************************************************************)
EXTENDS ResourceGroupController

AtRest == pc = "idle" /\ ~pending /\ gcache = group

InGroup == {e \in Entry : group # Nil /\ group.spec[e] # 0}

Applied(e) == res[e] # Nil /\ res[e].version = group.spec[e]

(***************************************************************************)
(* "all resources were created" (line 229): when everything is quiet, a    *)
(* Ready group has a Resource for every entry it lists, written from the   *)
(* current version of the entry, although the reconciliation ends and      *)
(* starts over at any entry and the spec changes under it.                 *)
(***************************************************************************)
AtRestApplied ==
  AtRest /\ group # Nil /\ group.status = "Ready" => \A e \in InGroup : Applied(e)

\* Nothing but a change of the spec wakes the group once a reconciliation ends
\* (line 336): it is only left alone when it is Ready or Failed.
AtRestFinished ==
  AtRest /\ group # Nil => group.status \in {"Ready", "Failed"}

(***************************************************************************)
(* A Resource is only created when the Resources its expressions refer to  *)
(* exist, and an expression over a status waits for it: lines 123 to 217   *)
(* over restarts and entries taken off the list and put back, until the    *)
(* group is deleted and its Resources are collected.                       *)
(***************************************************************************)
CreatedInOrder ==
  \A e \in Entry : res[e] # Nil /\ Owned(e) =>
    \A d \in Needs[e] : res[d] # Nil /\ res[e].reads[d] # 0

(***************************************************************************)
(* What a Resource read of the specs it refers to is what those specs say  *)
(* when everything is quiet: an edit of one entry reaches the entries that *)
(* depend on it (line 213) whatever the cache shows meanwhile.             *)
(***************************************************************************)
AtRestReads ==
  AtRest /\ group # Nil /\ group.status = "Ready" =>
    \A e \in {x \in InGroup : <<x, group.spec[x]>> \notin Awaits} : \A d \in Needs[e] : res[e].reads[d] = res[d].version

\* A Failed group is never taken for Ready, or for one in progress, without a
\* reconciliation: its status leaves Failed only through InProgress (line 83).
LeavesThroughProgress ==
  [][group # Nil /\ group' # Nil /\ group'.uid = group.uid /\ group'.status # group.status
       => \/ group'.status = "InProgress"
          \/ group.status = "InProgress" /\ group'.status \in {"Ready", "Failed"}
          \/ group.status = "" /\ group'.status = "Initializing"]_vars

\* The group is there, and every entry its expressions refer to is listed.
Orderly ==
  /\ group # Nil
  /\ \A e \in InGroup : Needs[e] \subseteq InGroup

NoneFails == \A e \in Entry : res[e] # Nil => res[e].phase \notin Failures

(***************************************************************************)
(* A group that stays, with a spec that can be ordered, ends up Ready with *)
(* every Resource written from its last version, as long as no Resource    *)
(* fails; lines 309 to 315 say of a Resource that exists: update spec and  *)
(* metadata.                                                               *)
(***************************************************************************)
GroupConverges ==
  <>[]Orderly /\ []NoneFails => <>[](group # Nil /\ group.status = "Ready" /\ \A e \in InGroup : Applied(e))

-----------------------------------------------------------------------------
(***************************************************************************)
(* Inductive forms of the invariants above.                                *)
(***************************************************************************)

\* The group's key is queued, or being reconciled.
Held == pending \/ pc # "idle"

\* Identities are given out once; the informer's copy is never ahead, and of one
\* generation there is one spec.
VersionsInv ==
  /\ group # Nil => group.uid <= born
  /\ gcache # Nil =>
       /\ gcache.uid <= born
       /\ group # Nil /\ gcache.uid = group.uid =>
            /\ gcache.gen <= group.gen
            /\ gcache.gen = group.gen => gcache.spec = group.spec

\* A group the informer has seen and nobody will reconcile is finished.
FinishedInv ==
  group # Nil /\ gcache # Nil /\ gcache.uid = group.uid /\ ~Held
    => group.status \in {"Ready", "Failed"}

\* The entries are processed in an order that puts each after those it needs, with
\* the copy read before the first; all of them when the reconciliation gets to its end.
ProcessedInv ==
  /\ pc \in {"idle", "initialize", "progress", "reread"} => args = NoResources
  /\ \A e \in Processed :
       /\ e \in Listed
       /\ Needs[e] \subseteq Processed
       /\ args[e].version = obj.spec[e]
  /\ pc = "apply" => entry \in Candidates
  /\ pc = "ready" => Listed \subseteq Processed

\* Unless the key came back, the spec the worker holds is that of the cache.
CopyInv ==
  pc # "idle" /\ ~pending =>
    gcache # Nil /\ obj.uid = gcache.uid /\ obj.gen = gcache.gen /\ obj.spec = gcache.spec

(***************************************************************************)
(* What AtRestApplied, AtRestReads, CreatedInOrder and                     *)
(* LeavesThroughProgress need: the name of a group is only used again when *)
(* nothing is left of the one that had it, neither in the cache, nor in    *)
(* the worker's hands, nor the Resources it owned.  No code sees to it;    *)
(* without it they are not kept.                                           *)
(***************************************************************************)
NameIsFree == gcache = Nil /\ pc = "idle" /\ res = NoResources
NamesRest == [][group = Nil /\ group' # Nil => NameIsFree]_vars

\* All that is there belongs to the living group.
OwnersInv ==
  group # Nil =>
    /\ gcache # Nil => gcache.uid = group.uid
    /\ pc # "idle" => obj.uid = group.uid
    /\ \A e \in Entry : res[e] # Nil => Owned(e)

\* The steps after the group is marked as in progress.
AfterProgress == {"reread", "next", "apply", "failed", "ready"}

ProgressInv ==
  /\ group # Nil /\ pc \in AfterProgress => group.status = "InProgress"
  /\ pc = "initialize" => obj.status = ""

\* The Resource of e is written from the spec given, and so are those it read.
WrittenFrom(e, spec) ==
  /\ res[e] # Nil
  /\ res[e].version = spec[e]
  /\ <<e, spec[e]>> \notin Awaits =>
       \A d \in Needs[e] : spec[d] # 0 /\ res[e].reads[d] = spec[d]

\* What is processed is applied; what a Ready group was left with is all applied.
AppliedInv ==
  group # Nil =>
    /\ \A e \in Processed : WrittenFrom(e, obj.spec)
    /\ gcache # Nil /\ ~Held /\ group.status = "Ready" =>
         \A e \in Entry : gcache.spec[e] # 0 => WrittenFrom(e, gcache.spec)
=============================================================================
