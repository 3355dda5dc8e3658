--------------------------- MODULE RequestService ----------------------------
(***************************************************************************)
(* What a serial port promises the listeners that submit requests to it:   *)
(* a request is accepted once, every accepted request gets at most one     *)
(* final status, and requests are resolved oldest first.  Several can be   *)
(* resolved by one call, but only if nothing reached the line for them.    *)
(***************************************************************************)
EXTENDS Integers

CONSTANTS MaxId, FinalStatus

VARIABLE fate    \* fate[i]: "unused", "pending", or the final status of request i

Pending == {i \in 1..MaxId : fate[i] = "pending"}

Init == fate = [i \in 1..MaxId |-> "unused"]

\* Ids are handed out in order; an id may be skipped.
Accept(i) ==
    /\ \A j \in i..MaxId : fate[j] = "unused"
    /\ fate' = [fate EXCEPT ![i] = "pending"]

\* The requests of S, older than all others pending, get the same status.
Resolve(S, status) ==
    /\ S # {}
    /\ \A i \in S, j \in Pending : j <= i => j \in S
    /\ status \in {"TIMED_OUT", "CANCELLED"} \/ \E i \in S : S = {i}
    /\ fate' = [i \in 1..MaxId |-> IF i \in S THEN status ELSE fate[i]]

Next ==
    \/ \E i \in 1..MaxId : Accept(i)
    \/ \E S \in SUBSET Pending, status \in FinalStatus : Resolve(S, status)

Spec == Init /\ [][Next]_fate
=============================================================================
