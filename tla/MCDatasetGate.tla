--------------------------- MODULE MCDatasetGate ---------------------------
(* TrainingRows on a small workload: two parameterized queries, one of     *)
(* them on the table customer, and one query of each other corpus; and     *)
(* ModelGate on training sets of as many statements as there are folds,    *)
(* two of them with two rows or one with three, and on sets that cannot be *)
(* evaluated.                                                              *)
EXTENDS TrainingRows, PlanWalk

MCQueriesOf == [raw |-> <<"r1">>, plans |-> <<"q1">>, param |-> <<"q3_p0", "q4_p0">>,
                ds |-> <<"d1">>, job |-> <<"j1">>]
MCReadsCustomer == {"q3_p0", "d1"}
MCVariantNames == <<"default", "no_hashjoin", "no_nestloop">>
MCAttempts(n) == IF n = 3 THEN {<<4, 8, 2>>} ELSE {[i \in 1 .. n |-> 2]}
MCSlow == {<<"q3_p0", "no_hashjoin">>, <<"q3_p0", "no_nestloop">>, <<"q4_p0", "default">>,
           <<"d1", "no_hashjoin">>}
MCBaseOf(q) == CASE q = "q3_p0" -> "q3" [] q = "q4_p0" -> "q4" [] OTHER -> q

Node(type, cost, rows, actual) ==
    [type |-> type, cost |-> cost, startup |-> cost \div 10, rows |-> rows, actual |-> actual,
     time |-> actual, loops |-> 1, filtered |-> rows, blocks |-> actual, launched |-> 0]

Tree(node, kids) ==
    [p \in {<<>>} \cup UNION {{<<i>> \o q : q \in DOMAIN kids[i]} : i \in DOMAIN kids} |->
        IF p = <<>> THEN node ELSE kids[Head(p)][Tail(p)]]

Scan(rows, actual) == Tree(Node("Seq Scan", 10, rows, actual), <<>>)

\* A parallel scan, a hash join, and the nested loop that replaces it.
MCAnalyzed(q, off) ==
    [planning |-> Cardinality(off) + 1,
     tree |->
        IF q \notin MCReadsCustomer
        THEN Tree(Node("Gather", 12, 40, 40),
                  <<Tree([Node("Seq Scan", 10, 40, 40) EXCEPT !.launched = 2], <<>>)>>)
        ELSE IF "no_hashjoin" \in off
        THEN Tree(Node("Nested Loop", 90, 5, 60),
                  <<Scan(40, 40), Tree([Node("Index Scan", 3, 1, 1) EXCEPT !.loops = 40], <<>>)>>)
        ELSE Tree(Node("Hash Join", 30, 5, 60),
                  <<Scan(40, 40), Tree(Node("Hash", 20, 30, 2), <<Scan(30, 2)>>)>>)]

MCRow(q) == [query : {q}, variant : {"default", "no_hashjoin"}, time : {1, 2}]
MCSingle(q) == [query |-> q, variant |-> "default", time |-> q]
\* The first row of a query, whose variant may have any name.
MCFirst(q) == {row \in MCRow(q) : row.variant = "default"}
MCSets(a, b, c, d) == {<<s, t, u, v>> : s \in a, t \in b, u \in c, v \in d}

MCPairs == {rows \o <<MCSingle(3), MCSingle(4), MCSingle(5)>> :
               rows \in MCSets(MCFirst(1), MCRow(1), MCFirst(2), MCRow(2))}
MCTriples == {rows \o <<MCSingle(3), MCSingle(4), MCSingle(5)>> :
                 rows \in MCSets(MCFirst(1), MCRow(1), MCRow(1), {MCSingle(2)})}
MCUnfit == {<<>>, [q \in 1 .. 5 |-> MCSingle(q)]} \cup MCSets(MCFirst(1), MCRow(1), MCRow(2), {MCSingle(3)})
MCDatasets == MCPairs \cup MCTriples \cup MCUnfit
=============================================================================
