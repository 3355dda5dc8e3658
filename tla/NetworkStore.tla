----------------------------- MODULE NetworkStore -----------------------------
(***************************************************************************)
(* The records of the network store (src/network/gateway_network_store.c)  *)
(* on a disk that may lose what no directory sync has covered.  A record   *)
(* is a whole profile: a write goes to write.tmp and is synced before the  *)
(* rename, so the rename is the only change of a record a reader can see.  *)
(*                                                                         *)
(* An operation is a script: changes of single records, each followed by   *)
(* a sync of the directory.                                                *)
(***************************************************************************)
EXTENDS Integers, Sequences

CONSTANTS
    Profiles,   \* network policies together with the bindings of the ports
    Absent,     \* no such record
    Faults      \* what may fail: "io" (rename, unlink), "sync", "stage", "net"

ASSUME StoreAssumption ==
    /\ Absent \notin Profiles
    /\ Faults \subseteq {"io", "sync", "stage", "net"}

Names == {"confirmed", "good", "candidate", "guard"}

Records == Profiles \cup {Absent}

VARIABLES
    dir,        \* the records as a reader sees them
    maybe       \* per record, what a power cut may leave of it

disk == <<dir, maybe>>

\* gateway_network_store_boot: the guard of an unfinished commit first, never
\* the candidate.
Boot(d) ==
    CASE d["guard"] # Absent                               -> d["guard"]
      [] d["guard"] = Absent /\ d["confirmed"] # Absent    -> d["confirmed"]
      [] d["guard"] = Absent /\ d["confirmed"] = Absent    -> d["good"]

\* The directories a power cut may leave.
Images == {d \in [Names -> Records] : \A n \in Names : d[n] \in maybe[n]}

\* What a boot after a power cut may select.
Saved == {Boot(d) : d \in Images}

-----------------------------------------------------------------------------
(* Changes and their sync. *)

Change(n, v) == [name |-> n, value |-> v]

Changes == [name: Names, value: Records]

\* The rename or the unlink of one change.
Made(c) ==
    /\ dir' = [dir EXCEPT ![c.name] = c.value]
    /\ maybe' = [maybe EXCEPT ![c.name] = @ \cup {c.value}]

\* sync_directory
Synced == maybe' = [n \in Names |-> {dir[n]}] /\ UNCHANGED dir

May(fault) == fault \in Faults

-----------------------------------------------------------------------------
(* The operations. *)

\* Fault: the new policy is published before the old one is guarded.
ConfirmUnguarded(old, new) ==
    << Change("good", old), Change("confirmed", new), Change("guard", old),
       Change("candidate", Absent), Change("guard", Absent) >>

\* gateway_network_store_confirm
Confirm(old, new) ==
    << Change("guard", old), Change("good", old), Change("confirmed", new),
       Change("candidate", Absent), Change("guard", Absent) >>

\* Fault: there is always a commit to abort.
AbortBlindly(guard) == << Change("confirmed", guard), Change("guard", Absent) >>

\* gateway_network_store_abort_commit
AbortCommit(guard) ==
    IF guard = Absent THEN << >>
    ELSE << Change("confirmed", guard), Change("guard", Absent) >>

\* gateway_network_store_discard
Discard == << Change("candidate", Absent) >>

\* Fault: the candidate goes where a boot finds it.
SaveConfirmed(p) == << Change("confirmed", p) >>

\* save_profile of the candidate
SaveCandidate(p) == << Change("candidate", p) >>

\* The store after gateway_network_store_adopt.
Adopted(p) ==
    /\ dir = [n \in Names |-> IF n \in {"confirmed", "good"} THEN p ELSE Absent]
    /\ maybe = [n \in Names |-> {dir[n]}]

\* A power cut and what the disk has after it.
Cut == dir' \in Images /\ maybe' = [n \in Names |-> {dir'[n]}]
=============================================================================
