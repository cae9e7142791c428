---------------------------- MODULE MCResourceGroup ----------------------------
(***************************************************************************)
(* Instances of ResourceGroupController for TLC: b refers to a.            *)
(***************************************************************************)
EXTENDS ResourceGroupProperties

CONSTANTS a, b

D == INSTANCE Dependencies WITH Name <- Entry, Rank <- [e \in Entry |-> IF e = a THEN 1 ELSE 2]

Pair == [e \in Entry |-> IF e = b THEN {a} ELSE {}]

\* The expressions of the entries: a reads itself in one that starts with another
\* variable, which NewElement leaves as text; b reads a.
Texts ==
  [e \in Entry |->
     {[starts |-> IF e = a THEN "resource" ELSE "resources",
       reads |-> <<[root |-> "resources", form |-> "escaped", name |-> a, part |-> "spec"]>>]}]

\* This is what is found in them.
ASSUME PairIsFound ==
  Pair = [e \in Entry |->
            {d \in Entry : <<"resources", d>> \in D!ElementDependencies(D!Only({"resources"}, Texts[e]))}]

\* Once edited, b reads a status of a; before, its spec.
StatusLater == {<<b, 3>>}
StatusFirst == {<<b, 1>>}

\* The Resource of a may fail and is written Ready again when it is edited.
SomeVisits ==
  [e \in Entry |-> IF e = a THEN {"Pending", "ProvisioningInProgress", "ProvisioningFailed", "Ready"}
                            ELSE {"Pending"}]

OneFirst == {[e \in Entry |-> 1]}
=============================================================================
