--------------------------- MODULE MCNetworkChange ----------------------------
(* NetworkChange on small instances, for TLC. *)
EXTENDS NetworkChange, TLC

\* Policies are only compared.
Alike == Permutations(Profiles)
=============================================================================
