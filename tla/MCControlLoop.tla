--------------------------- MODULE MCControlLoop ---------------------------
(* Instances of ControlLoop for TLC.                                          *)
EXTENDS ControlLoop

CONSTANTS cli, guest
=============================================================================
