--------------------------- MODULE MCModelServing ---------------------------
(* ModelServing on small instances.                                        *)
EXTENDS ModelServing
=============================================================================
