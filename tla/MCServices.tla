------------------------------ MODULE MCServices ------------------------------
(* Services on a small instance, for TLC. *)
EXTENDS Services

MCParts == {"uart", "seed", "time", "panel", "dhcp", "owner", "bindings", "web"}
=============================================================================
