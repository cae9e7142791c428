------------------------------- MODULE Patches -------------------------------
(***************************************************************************)
(* patches.ApplyTo (internal/patches/patches.go) and the loop of           *)
(* ResourceReconciler.Reconcile that applies the patches of a Resource,    *)
(* one after the other, to the map its status was serialized to.           *)
(*                                                                         *)
(* Go maps are references and ApplyTo changes them in place, so the map is *)
(* a heap: node 1 is the root, and a key of a node has a node, a value or  *)
(* nothing.                                                                *)
(***************************************************************************)
EXTENDS Naturals, FiniteSets, SequencesExt

CONSTANTS
  Key,        \* the names paths are made of
  Value,      \* what a patch may write, and what may be there before
  Documents,  \* the heaps a status may be serialized to: trees
  MaxLength,  \* bound: names in the path of a patch
  MaxPatches, \* bound: patches of a Resource
  Absent      \* no value

Paths(n) == UNION {[1..k -> Key] : k \in 1..n}
Patch == [to: Paths(MaxLength), from: Value]

\* A document is a tree, its maps numbered from the root down.
ASSUME PatchesAssumption ==
  /\ Absent \notin Value
  /\ \A x \in Value \union {Absent} : x \notin Nat
  /\ \A h \in Documents :
       /\ h \in Seq([Key -> DOMAIN h \union Value \union {Absent}]) /\ h # << >>
       /\ \A n \in DOMAIN h, k \in Key : h[n][k] \in DOMAIN h =>
            /\ h[n][k] > n
            /\ \A m \in DOMAIN h, l \in Key : h[m][l] = h[n][k] => m = n /\ l = k
  /\ {MaxLength, MaxPatches} \subseteq Nat

VARIABLES
  heap,     \* newResourceStatusAsMap
  patches,  \* the patches still to be applied
  last,     \* the one applied last
  straight  \* history: no patch so far went where its path does not lead

vars == <<heap, patches, last, straight>>

IsMap(h, x) == x \in DOMAIN h

(***************************************************************************)
(* apply.  The map in which each name of the path is looked up: the map    *)
(* under the name before it, and without one (the name is missing, or has  *)
(* a value) the same map again.                                            *)
(***************************************************************************)
Source(h, path) ==
  LET source[i \in 1..Len(path)] ==
        IF i = 1 THEN 1
        ELSE LET property == h[source[i - 1]][path[i - 1]]
             IN IF IsMap(h, property) THEN property ELSE source[i - 1]
  IN source

\* (slip: anything under a name is taken for a map)
FoundSlip(h, path, i) == h[Source(h, path)[i]][path[i]] # Absent

Found(h, path, i) == IsMap(h, h[Source(h, path)[i]][path[i]])

\* Every name with no map under it, but for the last, gets a new map.
Missing(h, path) == {i \in 1..(Len(path) - 1) : ~Found(h, path, i)}

NewMap(h, path, i) == Len(h) + Cardinality({j \in Missing(h, path) : j <= i})

\* (slip: name and value are returned in the wrong order)
PropertySlip(h, patch, i) ==
  IF i = Len(patch.to) THEN patch.to[i]
  ELSE IF i \in Missing(h, patch.to) THEN NewMap(h, patch.to, i)
  ELSE h[Source(h, patch.to)[i]][patch.to[i]]

\* What apply returns to the level above the i-th name.
Property(h, patch, i) ==
  IF i = Len(patch.to) THEN patch.from
  ELSE IF i \in Missing(h, patch.to) THEN NewMap(h, patch.to, i)
  ELSE h[Source(h, patch.to)[i]][patch.to[i]]

\* (slip: the map is cleared when a name is set in it)
SetSlip(h, patch, node, i) ==
  [k \in Key |-> IF k = patch.to[i] THEN Property(h, patch, i) ELSE Absent]

\* The map `node`, in which the i-th name was set.
Set(h, patch, node, i) == [h[node] EXCEPT ![patch.to[i]] = Property(h, patch, i)]

\* The level whose name is set in the map n of the heap: the first in the root,
\* and the one after each map that was found.
SetIn(h, path, n) ==
  {i \in 1..Len(path) :
     IF i = 1 THEN n = 1
     ELSE i - 1 \notin Missing(h, path) /\ n = h[Source(h, path)[i - 1]][path[i - 1]]}

ApplyTo(h, patch) ==
  [n \in 1..Len(h) |->
     IF \E i \in SetIn(h, patch.to, n) : TRUE
       THEN Set(h, patch, n, CHOOSE i \in SetIn(h, patch.to, n) : TRUE)
       ELSE h[n]]
  \o
  [m \in 1..Cardinality(Missing(h, patch.to)) |->
     LET i == CHOOSE j \in Missing(h, patch.to) : NewMap(h, patch.to, j) = Len(h) + m
     IN [k \in Key |-> IF k = patch.to[i + 1] THEN Property(h, patch, i + 1) ELSE Absent]]

\* After a name that has no map, no later name is found where it does not belong.
Straight(h, path) ==
  \A i \in Missing(h, path) : \A j \in (i + 1)..(Len(path) - 1) : j \in Missing(h, path)

-----------------------------------------------------------------------------
Init ==
  /\ heap \in Documents
  /\ patches \in UNION {[1..k -> Patch] : k \in 0..MaxPatches}
  /\ last = Absent
  /\ straight = TRUE

\* One turn of the loop of lines 396 to 398.
ApplyNext ==
  /\ patches # << >>
  /\ heap' = ApplyTo(heap, Head(patches))
  /\ last' = Head(patches)
  /\ patches' = Tail(patches)
  /\ straight' = (straight /\ Straight(heap, Head(patches).to))

Next == ApplyNext

Spec == Init /\ [][Next]_vars

-----------------------------------------------------------------------------
\* What is found under a path.
At(h, path) ==
  LET at[i \in 0..Len(path)] ==
        IF i = 0 THEN 1
        ELSE IF IsMap(h, at[i - 1]) THEN h[at[i - 1]][path[i]] ELSE Absent
  IN at[Len(path)]

\* One name more than the paths of patches have.
Depth == MaxLength + 1

Contents(h) == {e \in {<<p, At(h, p)>> : p \in Paths(Depth)} : e[2] \in Value}

TypeOK ==
  /\ \A n \in DOMAIN heap : heap[n] \in [Key -> DOMAIN heap \union Value \union {Absent}]
  /\ patches \in Seq(Patch)
  /\ last \in Patch \union {Absent}
  /\ straight \in BOOLEAN

\* Right after a patch its value is found under its path, whatever was on the
\* way, also when the patch went somewhere else too (lines 24 to 34).
ReadsBack == last # Absent => At(heap, last.to) = last.from

\* The reference: what setting a path does to the contents of a tree.  What was
\* below it is gone, and so is a value that is now on the way.
SetPath(contents, path, value) ==
  {e \in contents : ~IsPrefix(path, e[1]) /\ ~IsPrefix(e[1], path)} \union {<<path, value>>}

\* A patch sets its path and keeps everything else, whatever the patches before
\* it did, as long as none found a later name of its path where an earlier one
\* is missing ("We should be able to keep map state", patches_test.go:39).
KeepsTheRest ==
  [][straight' => Contents(heap') = SetPath(Contents(heap), last'.to, last'.from)]_vars
==============================================================================
