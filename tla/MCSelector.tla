----------------------------- MODULE MCSelector -----------------------------
(* Instances of Selector for TLC. *)
EXTENDS Selector

NoKind == {}
=============================================================================
