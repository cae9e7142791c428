------------------------------ MODULE MCResource ------------------------------
(***************************************************************************)
(* Instances of ResourceController for TLC.                                *)
(***************************************************************************)
EXTENDS ResourceProperties

CONSTANTS r1, r2

\* No connections.
NoLinks == [r \in Resource |-> << >>]

\* r1 names itself by nurn and r2 by reference; r2 refers to r1 and then has a
\* target that names nothing.
MutualLinks ==
  [r \in Resource |->
     IF r = r1 THEN <<[by |-> "nurn", to |-> r1], [by |-> "ref", to |-> r2]>>
               ELSE <<[by |-> "ref", to |-> r1], [by |-> "nothing", to |-> r1]>>]
==============================================================================
