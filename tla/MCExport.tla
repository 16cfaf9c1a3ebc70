------------------------------ MODULE MCExport ------------------------------
(* Finite instances of Export for TLC. *)
EXTENDS Export, TLC

MCIncludes == {Kinds, {"lessonplans"}}
=============================================================================
