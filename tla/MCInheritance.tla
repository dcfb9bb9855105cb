--------------------------- MODULE MCInheritance ---------------------------
(* The instances of MCOperator, for the runs in which CRs follow each other. *)
EXTENDS MCOperator, Inheritance
=============================================================================
