----------------------------- MODULE MCFileLock -----------------------------
(* FileLock on small instances.                                            *)
EXTENDS FileLock
=============================================================================
