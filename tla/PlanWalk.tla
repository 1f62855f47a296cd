------------------------------ MODULE PlanWalk ------------------------------
(***************************************************************************)
(* The recursive walks of feature_utils.py as they are written, compared   *)
(* with those of PlanTrees on every tree whose nodes are among ten places  *)
(* of four levels.                                                         *)
(***************************************************************************)
EXTENDS PlanTrees

Children(plan, p) ==
    [i \in 1 .. Cardinality({q \in DOMAIN plan : q # <<>> /\ Front(q) = p}) |-> Append(p, i)]

RECURSIVE DfsIter(_, _)
DfsIter(plan, p) ==
    <<plan[p]>> \o FlattenSeq([i \in DOMAIN Children(plan, p) |->
                                  DfsIter(plan, Children(plan, p)[i])])

\* The total and the depth of the subtree.
RECURSIVE SizeAndDepth(_, _)
SizeAndDepth(plan, p) ==
    LET below == [i \in DOMAIN Children(plan, p) |-> SizeAndDepth(plan, Children(plan, p)[i])]
    IN  <<1 + FoldLeft(LAMBDA n, kid : n + kid[1], 0, below),
          1 + FoldLeft(LAMBDA d, kid : IF kid[2] > d THEN kid[2] ELSE d, 0, below)>>

Places == {<<>>, <<1>>, <<2>>, <<1, 1>>, <<1, 2>>, <<2, 1>>, <<2, 2>>, <<1, 1, 1>>, <<1, 1, 2>>, <<2, 1, 1>>}
Shapes == {plan \in {[p \in places |-> p] : places \in SUBSET Places} : IsTree(plan)}

ASSUME WalksAgree ==
    \A plan \in Shapes :
        /\ Dfs(plan) = DfsIter(plan, <<>>)
        /\ <<TreeSize(plan), TreeDepth(plan)>> = SizeAndDepth(plan, <<>>)
=============================================================================
