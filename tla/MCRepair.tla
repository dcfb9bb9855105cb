------------------------------ MODULE MCRepair ------------------------------
(* The instances of MCOperator, for the runs with lagging host caches.      *)
EXTENDS MCOperator, Repair
=============================================================================
