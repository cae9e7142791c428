---------------------------- MODULE Dependencies ----------------------------
(***************************************************************************)
(* What an element of a dependency graph is found to depend on             *)
(* (internal/exprs, internal/dag/properties.go), and the order Sort puts   *)
(* the elements in (internal/dag/graph.go, with the graph library).        *)
(*                                                                         *)
(* An element is the set of the expressions in its properties, however     *)
(* deep they are nested.  An expression is the variable it starts with and *)
(* the references to other elements in it, in the order of the text.       *)
(***************************************************************************)
EXTENDS Naturals, Sequences, FiniteSets, Functions

CONSTANTS
  Name,   \* the names of the elements
  Rank    \* their alphabetical order

ASSUME RankAssumption ==
  /\ Rank \in [Name -> Nat]
  /\ \A m, n \in Name : Rank[m] = Rank[n] => m = n

Variables == {"resource", "resources", "generator", "provisioner"}
Roots == {"resources", "generator"}

\* resources.x.field, resources["x"].field, and what neither regular expression
\* finds: resources['x'].field, or resources.x without a field.
Forms == {"dotted", "escaped", "other"}

References == [root: Roots, form: Forms, name: Name, part: {"spec", "status"}]
Expressions == [starts: Variables, reads: Seq(References)]

(***************************************************************************)
(* ExprExpression.Dependencies: for each of the four regular expressions,  *)
(* FindStringSubmatch returns the first match and no other.                *)
(***************************************************************************)
FirstMatch(e, root, form) ==
  LET found == {i \in DOMAIN e.reads : e.reads[i].root = root /\ e.reads[i].form = form}
  IN {<<root, e.reads[i].name>> : i \in {k \in found : \A j \in found : k <= j}}

\* (slip: the escaped form is not looked for)
ExpressionDependenciesSlip(e) == UNION {FirstMatch(e, root, "dotted") : root \in Roots}

ExpressionDependencies(e) ==
  UNION {FirstMatch(e, root, form) : root \in Roots, form \in {"dotted", "escaped"}}

\* Options drop an expression that starts with another variable: it stays as text.
Only(variables, expressions) == {e \in expressions : e.starts \in variables}

\* newProperties collects the dependencies of all properties in a set.
ElementDependencies(expressions) == UNION {ExpressionDependencies(e) : e \in expressions}

\* The references that expressions make, and the elements they read: what
\* Dependencies is to find.
ReferencesIn(expressions) == UNION {Range(e.reads) : e \in expressions}
ReadBy(expressions) == {r.name : r \in ReferencesIn(expressions)}

-----------------------------------------------------------------------------
(***************************************************************************)
(* Sort.  An edge from an element that is not there is refused, and so is  *)
(* one that closes a cycle.  StableTopologicalSort then visits a queue: at *)
(* first the elements without dependencies, then those that each visited   *)
(* element leaves without unmet ones, alphabetically every time.  So they  *)
(* come in the order of the visit that freed them, and in alphabetical     *)
(* order where that is the same.  Element n is the vertex                  *)
(* <<"resources", n>>.                                                     *)
(***************************************************************************)
Vertices(S) == {<<"resources", n>> : n \in S}

\* The sequences that list each element of S once.
Enumerations(S) == {s \in [1..Cardinality(S) -> S] : S = {s[i] : i \in DOMAIN s}}

\* The visits, counted from 1, to what the i-th element of s needs; the last of
\* them frees it (0: it needs nothing).
VisitsFor(s, needs, i) == {k \in DOMAIN s : <<"resources", s[k]>> \in needs[s[i]]}

FreedBy(s, needs, i) ==
  LET visits == VisitsFor(s, needs, i)
  IN IF visits = {} THEN 0 ELSE CHOOSE k \in visits : \A l \in visits : l <= k

Stable(s, needs) ==
  \A i \in DOMAIN s :
    /\ \A k \in VisitsFor(s, needs, i) : k < i
    /\ \A j \in 1..(i - 1) :
         \/ FreedBy(s, needs, j) < FreedBy(s, needs, i)
         \/ /\ FreedBy(s, needs, j) = FreedBy(s, needs, i)
            /\ Rank[s[j]] < Rank[s[i]]

\* The order, if there is one, of the elements of S.
Sort(S, needs) ==
  {s \in Enumerations(S) : Stable(s, needs) /\ \A n \in S : needs[n] \subseteq Vertices(S)}
=============================================================================
