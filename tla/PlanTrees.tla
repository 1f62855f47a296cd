----------------------------- MODULE PlanTrees -----------------------------
(***************************************************************************)
(* The walks over the tree of a plan (feature_engineering/                 *)
(* feature_utils.py).  A plan is a function from the place of a node to    *)
(* the node: the root is at <<>>, and the i-th entry of the "Plans" of the *)
(* node at p is at Append(p, i).  The walks of the source are recursive;   *)
(* here each is what it comes to, which is a function of the places, so    *)
(* that it can be proved about.  PlanWalk compares the two.                *)
(***************************************************************************)
EXTENDS Integers, Sequences, FiniteSets, FiniteSetsExt, SequencesExt

\* A node has a parent, and the elder sibling of every child but the first.
IsTree(plan) ==
    LET places == DOMAIN plan
    IN  /\ IsFiniteSet(places) /\ <<>> \in places
        /\ \A p \in places : p \in Seq(Nat \ {0})
        /\ \A p \in places \ {<<>>} :
              /\ Front(p) \in places
              /\ Last(p) > 1 => Append(Front(p), Last(p) - 1) \in places

----------------------------------------------------------------------------
(* dfs_iter(): a parent before its children, a child and all below it      *)
(* before the next.                                                        *)

\* The first place where they differ is the end of p or leads q to a later child.
Before(p, q) ==
    \E i \in DOMAIN q :
        /\ i <= Len(p) + 1 /\ \A j \in 1 .. i - 1 : p[j] = q[j]
        /\ i <= Len(p) => p[i] < q[i]

\* The node that as many others come before.
Rank(places, p)   == Cardinality({q \in places : Before(q, p)})
PlaceAt(places, i) == CHOOSE p \in places : Rank(places, p) = i - 1

Dfs(plan) ==
    [i \in 1 .. Cardinality(DOMAIN plan) |-> plan[PlaceAt(DOMAIN plan, i)]]

\* One field of the nodes, in the order of the walk.
NodeValues(plan, field) == LET nodes == Dfs(plan) IN [i \in DOMAIN nodes |-> nodes[i][field]]

----------------------------------------------------------------------------
(* tree_size_and_depth().                                                  *)

TreeSize(plan)  == Cardinality(DOMAIN plan)
TreeDepth(plan) == 1 + Max({Len(p) : p \in DOMAIN plan})
=============================================================================
