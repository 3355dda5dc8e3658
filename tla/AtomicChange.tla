---------------------------- MODULE AtomicChange ------------------------------
(***************************************************************************)
(* What a change of the network policy promises.  A boot after a power cut *)
(* finds one whole policy; while a change is being saved it may be either  *)
(* of two, and the user is told how the change ended only when it is one.  *)
(***************************************************************************)
CONSTANT Policies

VARIABLES
    saved,      \* the policies a boot after a power cut may find
    told        \* "none", "busy", "kept", "reverted", "failed" or "uncertain"

Sure == \E p \in Policies : saved = {p}

Init == Sure /\ told = "none"

Begin == told' = "busy" /\ UNCHANGED saved

\* Another policy may be found from now on.
Publish == told = "busy" /\ UNCHANGED told /\ \E p \in Policies : saved' = saved \cup {p}

\* One of them is found from now on.
Settle == told = "busy" /\ UNCHANGED told /\ \E p \in saved : saved' = {p}

End ==
    /\ told' \in {"kept", "reverted", "failed", "uncertain"}
    /\ told' \in {"kept", "reverted"} => Sure
    /\ UNCHANGED saved

PowerCut == told' = "none" /\ \E p \in saved : saved' = {p}

Restart == told' = "none" /\ UNCHANGED saved

Next == Begin \/ Publish \/ Settle \/ End \/ PowerCut \/ Restart

Spec == Init /\ [][Next]_<<saved, told>>
=============================================================================
