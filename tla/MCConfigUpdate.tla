-------------------------- MODULE MCConfigUpdate --------------------------
(* Instances of ConfigUpdate for TLC: one or two CLIs and two rules.          *)
EXTENDS ConfigUpdate

CONSTANTS c1, c2, r1, r2
=============================================================================
