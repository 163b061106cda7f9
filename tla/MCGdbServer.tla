---------------------------- MODULE MCGdbServer ----------------------------
(* GdbServer with the values of the model checker's configurations.         *)
EXTENDS GdbServer
=============================================================================
