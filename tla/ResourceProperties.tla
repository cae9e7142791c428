-------------------------- MODULE ResourceProperties --------------------------
(***************************************************************************)
(* What makes ResourceController correct, and the claims it does not keep. *)
(***************************************************************************)
EXTENDS ResourceController

Exists(r) == store[r] # Nil
ReadyNow(r) == Exists(r) /\ store[r].phase = "Ready"

\* Nothing is left to reconcile and nothing is left to deliver.
AtRest == pc = "idle" /\ queue = {} /\ cache = store

(***************************************************************************)
(* A Resource, as stored or as cached, whose status carries a nurn is in   *)
(* Inventory, wherever the Reconcile that registered it was cut short:     *)
(* CreateResource comes before the status write (lines 147 to 170).        *)
(***************************************************************************)
RecordedIsRegistered ==
  \A r \in Resource : \A o \in {store[r], cache[r]} \ {Nil} :
    HasNurn(o) => inventory[r] # Nil

(***************************************************************************)
(* A Resource is not Ready before every one of its connections is in       *)
(* Inventory, with a registered resource at the other end, although the    *)
(* loop of lines 192 to 240 leaves and restarts at any target.             *)
(***************************************************************************)
ReadyIsConnected ==
  \A r \in Resource : ReadyNow(r) =>
    \A i \in DOMAIN Links[r] :
      /\ <<r, Links[r][i].to>> \in edges
      /\ inventory[Links[r][i].to] # Nil

(***************************************************************************)
(* A Ready Resource still carries its nurn: no status write of lines 250,  *)
(* 329, 409 and 447, each from a copy read earlier, wipes out the          *)
(* inventory record of line 165.                                           *)
(***************************************************************************)
ReadyKeepsNurn == \A r \in Resource : ReadyNow(r) => HasNurn(store[r])

SameIncarnation(r) == Exists(r) /\ store'[r] # Nil /\ store'[r].uid = store[r].uid

\* No step takes the nurn away from a living object, the wholesale status
\* replacement after the patches (line 409) included.
NurnNeverLost ==
  [][\A r \in Resource :
       SameIncarnation(r) /\ HasNurn(store[r]) => HasNurn(store'[r])]_vars

\* The phase moves as NextPhases promises, and never back to Pending, although
\* five kinds of write set it, one of them (line 409) to the phase of a copy read
\* earlier, through restarts, stale copies and repeated Reconciles (lines 74 to 87).
PhasesMove ==
  [][\A r \in Resource :
       SameIncarnation(r) /\ store'[r].phase # store[r].phase
         => store'[r].phase \in NextPhases(store[r].phase)]_vars

(***************************************************************************)
(* No edit is lost: when everything is quiet, Inventory holds the          *)
(* properties of the current spec of every Ready Resource, and the outputs *)
(* its patches add, although the worker mixes copies of several            *)
(* generations and the predicate drops every status event.                 *)
(***************************************************************************)
AtRestReadyIsCurrent ==
  AtRest => \A r \in Resource : ReadyNow(r) =>
    /\ inventory[r] # Nil
    /\ inventory[r].gen = store[r].gen
    /\ r \in Patched => inventory[r].outputs

\* The same of the managed object: it is there, it belongs to this
\* incarnation, and it was applied from the current spec.
AtRestManaged ==
  AtRest => \A r \in Provisioned : ReadyNow(r) =>
    /\ managed[r] # Nil
    /\ managed[r].gen = store[r].gen
    /\ Owned(r)

(***************************************************************************)
(* The reconciler never goes quiet on unfinished work: with no event to    *)
(* wake it (it ignores those of its own writes), a Resource it leaves      *)
(* alone is Ready, or Failed for an invalid spec.                          *)
(***************************************************************************)
RestIsTerminal ==
  AtRest => \A r \in Resource : Exists(r) => store[r].phase \in {"Ready", "Failed"}

\* Ready says that the provisioner succeeded, and the status shows it
\* (lines 289 to 338 and 442 to 454).
ReadyMeansProvisioned ==
  \A r \in Provisioned : ReadyNow(r) => store[r].at = "Success"

\* A Resource whose provisioner failed is not announced as ready to be used.
FailedIsNeverReady == \A r \in Resource : ReadyNow(r) => store[r].at # "Failed"

(***************************************************************************)
(* Resources that stay end up Ready for good, with what Inventory holds of *)
(* them up to date, whatever order they connect to one another in, or      *)
(* Failed when a connection names nothing, and not before the connections  *)
(* ahead of it are made; unless a managed object has failed for good.      *)
(***************************************************************************)
Settled(r) ==
  /\ ReadyNow(r)
  /\ inventory[r] # Nil
  /\ inventory[r].gen = store[r].gen
  /\ r \in Patched => inventory[r].outputs

Rejected(r) ==
  /\ Exists(r)
  /\ store[r].phase = "Failed"
  /\ \E i \in DOMAIN Links[r] :
       /\ Links[r][i].by = "nothing"
       /\ \A j \in 1..(i - 1) : <<r, Links[r][j].to>> \in edges

Failing(r) == managed[r] # Nil /\ managed[r].state = "failed"

Converges ==
  (\A r \in Resource : <>[](Exists(r) /\ ~Failing(r)))
    => <>[](\A r \in Resource : Settled(r) \/ Rejected(r))

-----------------------------------------------------------------------------
(***************************************************************************)
(* Inductive forms of the invariants above.                                *)
(***************************************************************************)

\* No status write from a copy of the cache can lose the nurn: the copy that
\* RecordOutcome re-reads and Patch writes back is no older than the record.
ReadKeepsNurn ==
  pc = "outcomeRead" /\ Exists(key) /\ HasNurn(store[key])
    => cache[key] # Nil /\ HasNurn(cache[key])
PatchKeepsNurn ==
  pc = "patch" /\ Exists(key) /\ HasNurn(store[key]) => HasNurn(obj)

\* A nurn, wherever it is kept, and both ends of a connection are in Inventory.
RegistryInv ==
  /\ RecordedIsRegistered
  /\ pc # "idle" /\ HasNurn(obj) => inventory[key] # Nil
  /\ pc = "record" => inventory[key] # Nil
  /\ \A e \in edges : inventory[e[1]] # Nil /\ inventory[e[2]] # Nil
  /\ ReadKeepsNurn
  /\ PatchKeepsNurn

\* The connections of r are in Inventory.
Linked(r) == \A i \in DOMAIN Links[r] : <<r, Links[r][i].to>> \in edges

\* The steps a Reconcile takes after its connections are made.
AfterConnect == {"begin", "beginRead", "apply", "observe", "runFailed", "outcome",
                 "outcomeRead", "patch", "sync", "ready"}

\* Ready, in any copy, is only ever said of a connected Resource.
ConnectedInv ==
  /\ \A r \in Resource : ReadyNow(r) => Linked(r)
  /\ \A r \in Resource : cache[r] # Nil /\ cache[r].phase = "Ready" => Linked(r)
  /\ pc # "idle" /\ obj.phase = "Ready" => Linked(key)
  /\ pc = "connect" =>
       \A i \in DOMAIN Links[key] : i < link => <<key, Links[key][i].to>> \in edges
  /\ pc \in AfterConnect => Linked(key)

\* Something will have the worker look at r again: its key is queued, it is being
\* reconciled, or the informer has an event of it that passes the predicate.
Awake(r) == r \in queue \/ (pc # "idle" /\ key = r) \/ Passes(cache[r], store[r])

\* Identities are given out once, and the informer's copy is never ahead.
VersionsInv ==
  \A r \in Resource :
    /\ Exists(r) => store[r].uid <= born
    /\ cache[r] # Nil =>
         /\ cache[r].uid <= born
         /\ Exists(r) /\ cache[r].uid = store[r].uid => cache[r].gen <= store[r].gen

\* What is left alone is finished.
AwakeInv ==
  \A r \in Resource : Exists(r) => Awake(r) \/ store[r].phase \in {"Ready", "Failed"}

\* The steps a Reconcile takes after the properties to register are taken, and
\* after they are registered.
AfterRegister == {"record", "connect", "invalid"} \union AfterConnect
AfterType == {"register"} \union AfterRegister

\* What Inventory holds of r comes from the spec of the moment.
UpToDate(r) ==
  /\ inventory[r] # Nil
  /\ inventory[r].gen = store[r].gen
  /\ r \in Patched => inventory[r].outputs

\* Unless the key came back, the spec the worker mixes its copies of is that of
\* the cache; so what it registers is current when it ends with Ready.
CurrentInv ==
  /\ pc # "idle" /\ key \notin queue =>
       cache[key] # Nil /\ obj.uid = cache[key].uid /\ obj.gen = cache[key].gen
  /\ pc \in AfterType /\ key \notin queue => props = obj.gen
  /\ pc \in AfterRegister => inventory[key] # Nil /\ inventory[key].gen = props
  /\ pc = "ready" /\ key \in Patched => inventory[key].outputs
  /\ \A r \in Resource : ReadyNow(r) /\ ~Awake(r) => UpToDate(r)

-----------------------------------------------------------------------------
(***************************************************************************)
(* What ReadyKeepsNurn, PhasesMove, AtRestManaged and                      *)
(* ReadyMeansProvisioned need: a name is only used again when nothing is   *)
(* left of the object that had it, neither in the cache, nor in the        *)
(* worker's hands, nor the object it managed.  No code sees to it; without *)
(* it they are not kept.                                                   *)
(***************************************************************************)
NameIsFree(r) == cache[r] = Nil /\ key # r /\ managed[r] = Nil
NamesRest == [][\A r \in Resource : store[r] = Nil /\ store'[r] # Nil => NameIsFree(r)]_vars

\* Every copy of a Resource is one of its living object, and no further on.
CopiesInv ==
  /\ \A r \in Resource : cache[r] # Nil /\ Exists(r) =>
       /\ cache[r].uid = store[r].uid
       /\ HasNurn(cache[r]) => HasNurn(store[r])
       /\ cache[r].phase # "" => store[r].phase # ""
  /\ pc # "idle" /\ Exists(key) =>
       /\ obj.uid = store[key].uid
       /\ HasNurn(obj) => HasNurn(store[key])
       /\ IF pc = "pending" THEN obj.phase = "" ELSE store[key].phase # ""

\* The steps at which the nurn is in the status, and at which the phase is the
\* one Begin wrote.
AfterRecord == AfterRegister \ {"record"}
InProgress == {"beginRead", "apply", "observe", "runFailed", "outcome"}

\* The phase is the one this Reconcile wrote last; the copy Patch writes back
\* has that one or the one before it.
PhaseInv ==
  /\ pc \in AfterRecord /\ Exists(key) => HasNurn(store[key])
  /\ pc \in InProgress /\ Exists(key) => store[key].phase = "ProvisioningInProgress"
  /\ pc \in {"outcomeRead", "patch"} /\ Exists(key) => store[key].phase = PhaseOf(outcome)
  /\ pc = "outcomeRead" /\ Exists(key) /\ cache[key] # Nil =>
       cache[key].phase \in {"ProvisioningInProgress", PhaseOf(outcome)}
  /\ pc = "patch" /\ Exists(key) =>
       obj.phase \in {"ProvisioningInProgress", PhaseOf(outcome)} /\ outcome # "Running"
  /\ ReadyKeepsNurn

AfterApply == {"observe", "outcome", "outcomeRead", "patch", "sync", "ready"}

\* The managed object of a Resource is its own, and was applied from the copy
\* the worker holds.
ManagedInv ==
  /\ \A r \in Resource : managed[r] # Nil /\ Exists(r) => Owned(r)
  /\ pc \in AfterApply /\ key \in Provisioned /\ Exists(key) =>
       managed[key] # Nil /\ (key \notin queue => managed[key].gen = obj.gen)
  /\ \A r \in Provisioned : ReadyNow(r) /\ ~Awake(r) =>
       managed[r] # Nil /\ managed[r].gen = store[r].gen /\ Owned(r)

-----------------------------------------------------------------------------
(***************************************************************************)
(* The reconciler implements the registry.                                 *)
(***************************************************************************)
Registry == INSTANCE InventoryRegistry WITH
  registered <- {r \in Resource : inventory[r] # Nil},
  recorded   <- {r \in Resource : Exists(r) /\ HasNurn(store[r])},
  joined     <- edges

\* Every step registers, records, joins or forgets at most one resource, each
\* only when the registry allows it.
ImplementsRegistry == Registry!RegistrySpec
==============================================================================
