--------------------------- MODULE MCPortController ---------------------------
(* PortController on small instances, for TLC. *)
EXTENDS PortController, TLC

\* Serial settings and bind addresses are only compared.
Alike == Permutations(Serials) \cup Permutations(Binds)
=============================================================================
