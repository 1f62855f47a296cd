-------------------------- MODULE MCConnectionPool --------------------------
(* ConnectionPool on small instances.  Which thread and which connection   *)
(* is which makes no difference to the safety properties.                  *)
EXTENDS ConnectionPool, TLC

ThreadsAndConns == Permutations(Threads) \cup Permutations(Conns)
=============================================================================
