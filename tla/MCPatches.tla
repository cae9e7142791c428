------------------------------ MODULE MCPatches ------------------------------
(***************************************************************************)
(* An instance of Patches for TLC.                                         *)
(***************************************************************************)
EXTENDS Patches

CONSTANTS a, b, c, v, w

Empty == [k \in Key |-> Absent]

\* Nothing; a map in a map, with values beside them; a value where a path may
\* have a name, and a map beside it.
SomeDocuments == {
  <<Empty>>,
  <<[Empty EXCEPT ![a] = 2, ![b] = v], [Empty EXCEPT ![a] = v, ![b] = 3], [Empty EXCEPT ![c] = v]>>,
  <<[Empty EXCEPT ![a] = v, ![b] = 2], [Empty EXCEPT ![a] = v, ![c] = 3], [Empty EXCEPT ![b] = v]>>}
==============================================================================
