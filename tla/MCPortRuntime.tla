---------------------------- MODULE MCPortRuntime ----------------------------
(* PortRuntime on small instances, for TLC. *)
EXTENDS PortRuntime, TLC

=============================================================================
