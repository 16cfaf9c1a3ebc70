----------------------------- MODULE MCStartup -----------------------------
(* Finite instances of Startup for TLC. *)
EXTENDS Startup, TLC
=============================================================================
