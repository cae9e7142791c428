---------------------------- MODULE MCProvisioner ----------------------------
(***************************************************************************)
(* Instances of Provisioner for TLC.                                       *)
(***************************************************************************)
EXTENDS ProvisionerProperties

CONSTANTS a, b, c

Ranks == [n \in Name |-> IF n = a THEN 1 ELSE IF n = b THEN 2 ELSE 3]

Read(form, name, part) == [root |-> "resources", form |-> form, name |-> name, part |-> part]
Expr(reads) == [starts |-> "provisioner", reads |-> reads]

(***************************************************************************)
(* First a cycle between a and b.  Then a reads a status of c and, in the  *)
(* same expression and the other form, the data of b, and in another one   *)
(* the spec of c; b reads the spec of c.  At last c, which was at the      *)
(* head, reads the spec of a, and b is no longer listed.                   *)
(***************************************************************************)
Cyclic == [n \in Name |->
  CASE n = a -> {Expr(<<Read("dotted", b, "spec")>>)}
    [] n = b -> {Expr(<<Read("escaped", a, "spec")>>)}
    [] OTHER -> {}]

Chained == [n \in Name |->
  CASE n = a -> {Expr(<<Read("dotted", c, "status"), Read("escaped", b, "spec")>>),
                 Expr(<<Read("dotted", c, "spec")>>)}
    [] n = b -> {Expr(<<Read("dotted", c, "spec")>>)}
    [] OTHER -> {}]

Turned == [n \in {a, c} |-> IF n = c THEN {Expr(<<Read("dotted", a, "spec")>>)} ELSE {}]

ThreeVersions == <<Cyclic, Chained, Turned>>

\* b before c, and both before a: but a is found to depend on b alone, and
\* becomes free together with c.
TwoReads == [n \in Name |->
  CASE n = a -> {Expr(<<Read("dotted", b, "spec"), Read("dotted", c, "spec")>>)}
    [] n = c -> {Expr(<<Read("dotted", b, "spec")>>)}
    [] OTHER -> {}]

TwoReadsOnly == <<TwoReads>>
==============================================================================
