------------------------------ MODULE MCWaitSet ------------------------------
(* WaitSet on small sets of entities and threads.                          *)
EXTENDS WaitSet
=============================================================================
