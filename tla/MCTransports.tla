----------------------------- MODULE MCTransports -----------------------------
(* Transports on a small instance, for TLC. *)
EXTENDS Transports

\* One source repeats and reuses its numbers; there are more sources than peers.
MCDatagrams ==
    {[source |-> "a", tid |-> 1, body |-> 1], [source |-> "a", tid |-> 1, body |-> 2],
     [source |-> "a", tid |-> 2, body |-> 1], [source |-> "b", tid |-> 1, body |-> 1],
     [source |-> "c", tid |-> 1, body |-> 1]}
=============================================================================
