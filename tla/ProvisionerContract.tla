------------------------- MODULE ProvisionerContract -------------------------
(***************************************************************************)
(* What a run of the provisioner promises to the Resource controller: its  *)
(* answer is about the objects of one spec, each looked at once in that    *)
(* very run.  Success says that every one of them was ready, Running that  *)
(* one was not, Failed that one had failed; any other run has no answer.   *)
(***************************************************************************)
CONSTANT Name

VARIABLES
  running,  \* a run is under way
  wanted,   \* the objects it is about
  seen,     \* what it has seen of each object
  answer    \* the answer of the last run

vars == <<running, wanted, seen, answer>>

Nothing == [n \in Name |-> "nothing"]

Init == ~running /\ wanted = {} /\ seen = Nothing /\ answer = "none"

Begin ==
  /\ ~running
  /\ running'
  /\ wanted' \in SUBSET Name
  /\ answer' = "none"
  /\ UNCHANGED seen

See(n) ==
  /\ running
  /\ n \in wanted
  /\ seen[n] = "nothing"
  /\ \E verdict \in {"ready", "waiting"} : seen' = [seen EXCEPT ![n] = verdict]
  /\ UNCHANGED <<running, wanted, answer>>

End == ~running' /\ wanted' = {} /\ seen' = Nothing

Conclude ==
  /\ running
  /\ \A n \in wanted : seen[n] # "nothing"
  /\ answer' = IF \A n \in wanted : seen[n] = "ready" THEN "Success" ELSE "Running"
  /\ End

GiveUp ==
  /\ running
  /\ \E n \in wanted : seen[n] = "nothing"
  /\ answer' = "Failed"
  /\ End

\* An error, at once or in the middle, or a restart.
Abort ==
  /\ answer' = "none"
  /\ End

Next == Begin \/ (\E n \in Name : See(n)) \/ Conclude \/ GiveUp \/ Abort

ContractSpec == Init /\ [][Next]_vars
===============================================================================
