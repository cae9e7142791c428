------------------------------ MODULE MCDefinition ------------------------------
(***************************************************************************)
(* An instance of DefinitionController for TLC.                            *)
(***************************************************************************)
EXTENDS DefinitionController

CONSTANTS x, y, z, n1, n2

\* x has a name of its own, y and z expand to the same one.
Names2 == [v \in Value |-> IF v = x THEN n1 ELSE n2]

\* Lists that share values and differ in length; nothing generated at all.
SomeLists == {<<x, y>>, <<y, z>>, << >>}

SomeDefinitions ==
  {[kind |-> "ResourceDefinition", source |-> "list", list |-> <<x, y>>],
   [kind |-> "ResourceGroupDefinition", source |-> "list", list |-> <<y, z>>],
   [kind |-> "ResourceGroupDefinition", source |-> "inventory", list |-> << >>]}

\* What Inventory answers loses a value, and gets another one with its name.
SomeOffers == <<<<x, y>>, <<z>>>>
=================================================================================
