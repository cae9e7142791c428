--------------------------- MODULE ExpansionContract ---------------------------
(***************************************************************************)
(* What a definition's controller promises its users: the template is      *)
(* expanded in rounds.  A round is about one version of the definition,    *)
(* goes through its values in order, without leaving one out, and writes   *)
(* the object of each, in place if it is there.  Rounds follow the         *)
(* versions: no object is ever written from an older one than it shows.    *)
(* Only the end of a whole round makes the definition Ready, and what its  *)
(* status then lists is that round's objects, all there.                   *)
(***************************************************************************)
EXTENDS Naturals, Sequences

CONSTANTS Value, Name, NameOf, Nil

VARIABLES
  asked,    \* the definition, without its status
  status,   \* whether it is Ready, and its list
  round,    \* the round under way: a definition, its version, the values
  put,      \* how many of the values are expanded
  objects   \* the objects

vars == <<asked, status, round, put, objects>>

Askings == [uid: Nat, version: Nat, kind: {"ResourceDefinition", "ResourceGroupDefinition"},
            source: {"list", "inventory"}, list: Seq(Value)]
Rounds == [uid: Nat, version: Nat, values: Seq(Value)]
Objects == [uid: Nat, owner: Nat, value: Value, version: Nat]

Init ==
  /\ asked = Nil /\ status = Nil
  /\ round = Nil /\ put = 0
  /\ objects = [n \in Name |-> Nil]

-----------------------------------------------------------------------------
\* The users.
Ask ==
  /\ asked = Nil /\ asked' \in Askings
  /\ status' = [ready |-> FALSE, listed |-> {}]
  /\ UNCHANGED <<round, put, objects>>

Change ==
  /\ asked # Nil /\ asked' \in Askings
  /\ asked'.uid = asked.uid
  /\ asked'.version > asked.version
  /\ UNCHANGED <<status, round, put, objects>>

Withdraw ==
  /\ asked # Nil /\ asked' = Nil
  /\ status' = Nil
  /\ UNCHANGED <<round, put, objects>>

-----------------------------------------------------------------------------
\* A round is about the definition there is, as it is or as it was.
IsAbout(r) ==
  /\ r.uid = asked.uid
  /\ r.version <= asked.version
  /\ r.version = asked.version /\ asked.source = "list" => r.values = asked.list

Begin ==
  /\ round = Nil
  /\ round' \in Rounds
  /\ asked # Nil => IsAbout(round')
  /\ \A n \in Name : objects[n] # Nil => objects[n].version <= round'.version
  /\ put' = 0
  /\ UNCHANGED <<asked, status, objects>>

Put ==
  /\ round # Nil
  /\ put < Len(round.values)
  /\ LET value == round.values[put + 1]
         n == NameOf[value]
     IN /\ objects'[n] \in Objects
        /\ objects'[n].value = value
        /\ objects'[n].version = round.version
        /\ IF objects[n] = Nil
             THEN objects'[n].owner = round.uid
             ELSE objects'[n].owner = objects[n].owner /\ objects'[n].uid = objects[n].uid
        /\ objects' = [objects EXCEPT ![n] = objects'[n]]
  /\ put' = put + 1
  /\ UNCHANGED <<asked, status, round>>

End == round' = Nil /\ put' = 0

RoundNames == {NameOf[round.values[i]] : i \in DOMAIN round.values}

Announce ==
  /\ round # Nil /\ asked # Nil
  /\ IsAbout(round)
  /\ put = Len(round.values)
  /\ \A n \in RoundNames : objects[n] # Nil /\ objects[n].version = round.version
  /\ status' = [ready |-> TRUE,
                listed |-> IF asked.kind = "ResourceDefinition"
                             THEN {<<n, objects[n].uid>> : n \in RoundNames}
                             ELSE status.listed]
  /\ End
  /\ UNCHANGED <<asked, objects>>

\* An error in the middle, or a restart: the status stays what it was.
GiveUp ==
  /\ round # Nil
  /\ End
  /\ UNCHANGED <<asked, status, objects>>

\* What the living definition owns stays.
Remove(n) ==
  /\ objects[n] # Nil
  /\ asked # Nil => objects[n].owner # asked.uid
  /\ objects' = [objects EXCEPT ![n] = Nil]
  /\ UNCHANGED <<asked, status, round, put>>

Next ==
  \/ Ask \/ Change \/ Withdraw
  \/ Begin \/ Put \/ Announce \/ GiveUp
  \/ \E n \in Name : Remove(n)

ContractSpec == Init /\ [][Next]_vars
================================================================================
