-------------------------- MODULE InventoryRegistry --------------------------
(***************************************************************************)
(* What Klaudete owes Inventory, whatever a Reconcile goes through: a      *)
(* resource is registered before a Kubernetes object records its nurn, a   *)
(* nurn once recorded stays until the object is deleted, and connections   *)
(* join registered resources and are never taken back.                     *)
(***************************************************************************)
CONSTANT Resource

VARIABLES
  registered, \* the resources Inventory knows
  recorded,   \* those whose Kubernetes object carries their nurn
  joined      \* the connections Inventory knows

registry == <<registered, recorded, joined>>

Empty == registered = {} /\ recorded = {} /\ joined = {}

Register(r) ==
  /\ registered' = registered \union {r}
  /\ UNCHANGED <<recorded, joined>>

Record(r) ==
  /\ r \in registered
  /\ recorded' = recorded \union {r}
  /\ UNCHANGED <<registered, joined>>

Join(r, s) ==
  /\ {r, s} \subseteq registered
  /\ joined' = joined \union {<<r, s>>}
  /\ UNCHANGED <<registered, recorded>>

\* The Kubernetes object is deleted; Inventory is not told.
Forget(r) ==
  /\ recorded' = recorded \ {r}
  /\ UNCHANGED <<registered, joined>>

Step == \E r, s \in Resource : Register(r) \/ Record(r) \/ Join(r, s) \/ Forget(r)

RegistrySpec == Empty /\ [][Step]_registry
=============================================================================
