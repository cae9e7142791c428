---------------------------- MODULE KlaudeteApi ----------------------------
(***************************************************************************)
(* The vocabulary of api/v1alpha1: the phases and provisioner states a     *)
(* Resource can carry, and the part of its status the controllers branch   *)
(* on.  Names, messages, timestamps and the condition list are left out:   *)
(* every handler that sets a phase appends a condition in the same write,  *)
(* so "no condition yet" and "no phase yet" are the same states.           *)
(***************************************************************************)
EXTENDS Naturals

\* Resource.Status.Phase; the empty string is the zero value of a new object.
Phases == {"", "Pending", "Failed", "ProvisioningInProgress",
           "ProvisioningFailed", "Ready"}

(***************************************************************************)
(* The phases a Resource may move to from each phase while it lives: what  *)
(* the Resource controller keeps and the ResourceGroup controller, which   *)
(* acts on the phase alone, can count on.                                  *)
(***************************************************************************)
NextPhases(phase) ==
  CASE phase = ""        -> {"Pending"}
    [] phase = "Pending" -> {"Failed", "ProvisioningInProgress", "Ready"}
    [] phase = "Failed"  -> {"ProvisioningInProgress", "Ready"}
    [] phase = "Ready"   -> {"Failed", "ProvisioningInProgress"}
    [] phase = "ProvisioningInProgress" -> {"Failed", "ProvisioningFailed", "Ready"}
    [] OTHER -> {"Failed", "ProvisioningInProgress", "Ready"}

\* ProvisioningStatus.State, as copied to Resource.Status.AtProvisioner.State.
Outcomes == {"Running", "Failed", "Success"}

(***************************************************************************)
(* Resource.Status.Inventory: nil, the {id, nurn} pair, that pair with the *)
(* properties a patch added, or properties alone (a patch applied to a     *)
(* status that had no inventory record).                                   *)
(***************************************************************************)
InventoryRefs == {"none", "nurn", "nurn+props", "props"}

\* ResourceType.Status.Status as a controller sees it; "absent" is a type
\* that the lookup does not find.
TypeStates == {"absent", "pending", "insync"}

(***************************************************************************)
(* A Resource object: its incarnation, the generation of its spec (the API *)
(* server raises it on every spec change, so it stands for the spec), and  *)
(* its status.                                                             *)
(***************************************************************************)
Object == [uid: Nat, gen: Nat, phase: Phases, inv: InventoryRefs,
           at: Outcomes \union {"none"}]

\* The object the API server stores for a first `kubectl apply`.
NewObject(u) ==
  [uid |-> u, gen |-> 1, phase |-> "", inv |-> "none", at |-> "none"]

\* Status.Inventory carries the nurn of a registered resource.
HasNurn(o) == o.inv \in {"nurn", "nurn+props"}

============================================================================
