---------------------------- MODULE NetworkOwner ----------------------------
(* The service that owns the interfaces, routes and resolver: an owner       *)
(* (network/gateway_network_owner.c) that follows one policy and its leases, *)
(* and a guardian (network/gateway_network_service.c) that writes what the   *)
(* owner asks for in a process of its own, restarts the owner when it fails  *)
(* and writes the confirmed policy in between.                               *)
(*                                                                           *)
(* A policy is static or leased; what it makes of the network is its target. *)
(* Retries and deadlines are not counted: they may come at any time.         *)
EXTENDS Integers, Sequences

CONSTANTS Policies, Leased, Leases, MaxFailures, MaxCommands

VARIABLES
    installed,  \* what the kernel has: a target, or Half
    disk,       \* the store: the confirmed policy and the candidate
    request,    \* the client's connection and the command in it
    owner,      \* gateway_network_owner_t and its process
    guardian,   \* the guardian's own variables
    job,        \* the process that writes
    toGuardian, toOwner,   \* the socket between the two
    count       \* of failures and of commands

ownerVars == <<installed, disk, request, owner, guardian, job, toGuardian, toOwner, count>>

NoLease == "noLease"
Target(p, l) == <<p, IF p \in Leased THEN l ELSE NoLease>>
Targets == {Target(p, l) : p \in Policies, l \in Leases \cup {NoLease}}
Half == <<"mixed", NoLease>>
Cancel == <<"cancel", NoLease>>

NoOwner == [process |-> "none", active |-> FALSE, policy |-> "none", lease |-> NoLease,
            observed |-> Half, writing |-> Half, job |-> FALSE, canceling |-> FALSE,
            stale |-> FALSE, dirty |-> FALSE, look |-> FALSE, settled |-> FALSE,
            refused |-> FALSE, stopping |-> FALSE]
NoJob == [kind |-> "none", target |-> Half, at |-> "start", killed |-> FALSE]

Wanted(o) == Target(o.policy, o.lease)
Running == owner.process = "running"
MayFail == count.failures < MaxFailures
Failed == count' = [count EXCEPT !.failures = @ + 1]
Cancels(o) == o.job /\ ~o.canceling
Cancelled(o) == [o EXCEPT !.canceling = @ \/ o.job]
SendsCancel(o) == toGuardian' = IF Cancels(o) THEN Append(toGuardian, Cancel) ELSE toGuardian

-----------------------------------------------------------------------------
(* The worker of a network change, or another client.                        *)

Connect ==
    /\ request = "none" /\ count.commands < MaxCommands
    /\ \/ Running /\ request' = "idle" /\ UNCHANGED guardian
       \/ /\ guardian.state \in {"none", "gone"} /\ owner.process = "none" /\ UNCHANGED request
          /\ guardian' = [state |-> "up", stopped |-> FALSE, recovering |-> FALSE,
                          bootstrap |-> FALSE, stopping |-> FALSE]
    /\ UNCHANGED <<installed, disk, owner, job, toGuardian, toOwner, count>>

\* A: take the candidate.  R and K: take what is confirmed.
Command ==
    /\ request = "idle" /\ count.commands < MaxCommands
    /\ count' = [count EXCEPT !.commands = @ + 1]
    /\ \/ \E p \in Policies : disk' = [disk EXCEPT !.candidate = p] /\ request' = "apply"
       \/ request' = "confirmed" /\ UNCHANGED disk
    /\ UNCHANGED <<installed, owner, guardian, job, toGuardian, toOwner>>

Commit ==
    /\ request # "none" /\ disk.confirmed # disk.candidate
    /\ disk' = [disk EXCEPT !.confirmed = disk.candidate]
    /\ UNCHANGED <<installed, request, owner, guardian, job, toGuardian, toOwner, count>>

HangUp ==
    /\ request \in {"idle", "apply", "confirmed"} /\ request' = "closed"
    /\ UNCHANGED <<installed, disk, owner, guardian, job, toGuardian, toOwner, count>>

-----------------------------------------------------------------------------
(* gateway_network_owner_policy and the commands in run_owner.               *)

Follows(o, p) ==
    [Cancelled(o) EXCEPT
        !.lease = IF o.active /\ (o.policy \in Leased <=> p \in Leased) THEN @ ELSE NoLease,
        !.policy = p, !.active = TRUE, !.stopping = FALSE, !.settled = FALSE, !.dirty = TRUE,
        !.stale = o.job, !.look = TRUE, !.refused = FALSE]

ReadCommand ==
    /\ Running /\ request \in {"apply", "confirmed"}
    /\ request' = "idle"
    /\ \/ /\ owner' = Follows(owner, IF request = "apply" THEN disk.candidate
                                                          ELSE disk.confirmed)
          /\ SendsCancel(owner) /\ UNCHANGED count
       \/ /\ MayFail /\ Failed
          /\ owner' = [owner EXCEPT !.refused = TRUE, !.settled = FALSE]
          /\ UNCHANGED toGuardian
    /\ UNCHANGED <<installed, disk, guardian, job, toOwner>>

\* Whoever leaves, leaves the confirmed policy; without one the owner ends.
ReadHangUp ==
    /\ Running /\ request = "closed" /\ request' = "none"
    /\ \/ owner' = Follows(owner, disk.confirmed) /\ SendsCancel(owner) /\ UNCHANGED count
       \/ /\ MayFail /\ Failed /\ UNCHANGED toGuardian
          /\ owner' = [NoOwner EXCEPT !.process = "dead"]
    /\ UNCHANGED <<installed, disk, guardian, job, toOwner>>

-----------------------------------------------------------------------------
(* gateway_network_owner_step.                                               *)

Begun(o) == [o EXCEPT !.settled = FALSE]

\* The expiry of a lease is looked at before everything else.
Expired(o) ==
    {o} \cup {[o EXCEPT !.lease = NoLease, !.dirty = TRUE] : l \in {o.lease} \ {NoLease}}

\* An observation every 250 ms, and at once after a write.
Observed(o) ==
    {[o EXCEPT !.observed = installed, !.look = FALSE]} \cup (IF o.look THEN {} ELSE {o})

\* The DHCP client gains a lease or loses it; a lease that does not go with the
\* other LAN is given up.
LeasesOf(o) ==
    IF o.policy \notin Leased \/ o.stopping THEN {o}
    ELSE {[o EXCEPT !.lease = l] : l \in Leases \cup {NoLease}}
         \cup {[o EXCEPT !.lease = NoLease, !.dirty = TRUE]}

Prepared == UNION {UNION {LeasesOf(q) : q \in Observed(p)} : p \in Expired(Begun(owner))}

\* owner_poll: the job was reaped, and this is how it ended.
Reported == toOwner # <<>>
Answer == toOwner[1]

StepBlind ==
    /\ Running /\ owner.active /\ MayFail /\ Failed
    /\ \E o \in Expired(Begun(owner)) :
          IF o.job
          THEN /\ SendsCancel(o) /\ toOwner' = IF Reported THEN Tail(toOwner) ELSE toOwner
               /\ owner' = IF Reported
                           THEN [o EXCEPT !.job = FALSE, !.canceling = FALSE, !.dirty = TRUE]
                           ELSE Cancelled(o)
          ELSE owner' = o /\ UNCHANGED <<toGuardian, toOwner>>
    /\ UNCHANGED <<installed, disk, request, guardian, job>>

\* Fault: what was observed before the job ended still counts.
ReportedBlind(o, ok) ==
    [o EXCEPT !.job = FALSE, !.dirty = o.canceling \/ o.stale \/ o.writing # Wanted(o),
              !.canceling = FALSE]

\* A job that was cancelled, or is not the one wanted now, leaves everything open.
JobReported(o, ok) ==
    [o EXCEPT !.job = FALSE, !.dirty = o.canceling \/ o.stale \/ o.writing # Wanted(o),
              !.look = TRUE, !.canceling = FALSE]

\* The job is awaited, and cancelled when it is old or late.
StepJob ==
    /\ Running /\ owner.active /\ owner.job
    /\ \E o \in Prepared, late \in BOOLEAN :
          LET cancels == (o.stale \/ o.writing # Wanted(o) \/ late) /\ ~o.canceling
              p == IF cancels THEN Cancelled(o) ELSE o
          IN  /\ toGuardian' = IF cancels THEN Append(toGuardian, Cancel) ELSE toGuardian
              /\ toOwner' = IF Reported THEN Tail(toOwner) ELSE toOwner
              /\ owner' = IF Reported THEN JobReported(p, Answer) ELSE p
    /\ UNCHANGED <<installed, disk, request, guardian, job, count>>

\* apply: the target is handed to the guardian; a failed one is tried again later.
StepWrite ==
    /\ Running /\ owner.active /\ ~owner.job
    /\ \E o \in Prepared :
          /\ o.dirty \/ o.observed # Wanted(o)
          /\ \/ /\ toGuardian' = Append(toGuardian, Wanted(o))
                /\ owner' = [o EXCEPT !.writing = Wanted(o), !.stale = FALSE, !.job = TRUE,
                                      !.dirty = FALSE]
             \/ owner' = o /\ UNCHANGED toGuardian
    /\ UNCHANGED <<installed, disk, request, guardian, job, toOwner, count>>

StepSettled ==
    /\ Running /\ owner.active /\ ~owner.job
    /\ \E o \in Prepared :
          ~o.dirty /\ o.observed = Wanted(o) /\ owner' = [o EXCEPT !.settled = TRUE]
    /\ UNCHANGED <<installed, disk, request, guardian, job, toGuardian, toOwner, count>>

\* gateway_network_owner_stop: a foreign DHCP client runs.
StopLeases ==
    /\ Running /\ MayFail /\ Failed
    /\ SendsCancel(owner)
    /\ owner' = [Cancelled(owner) EXCEPT !.lease = NoLease, !.settled = FALSE, !.stopping = TRUE,
                     !.dirty = TRUE, !.stale = owner.job]
    /\ UNCHANGED <<installed, disk, request, guardian, job, toOwner>>

-----------------------------------------------------------------------------
(* The process that writes; a killed one may finish the call that it is in.  *)

JobWrites ==
    /\ job.kind # "none"
    /\ \/ /\ job.at = "start" /\ job' = [job EXCEPT !.at = "half"] /\ installed' = Half
          /\ UNCHANGED count
       \/ /\ job.at = "half" /\ job' = [job EXCEPT !.at = "done"] /\ installed' = job.target
          /\ UNCHANGED count
       \/ /\ job.at \in {"start", "half"} /\ MayFail /\ Failed
          /\ job' = [job EXCEPT !.at = "failed"] /\ UNCHANGED installed
    /\ UNCHANGED <<disk, request, owner, guardian, toGuardian, toOwner>>

-----------------------------------------------------------------------------
(* guardian.                                                                 *)

Killed(j) == [j EXCEPT !.killed = j.kind # "none"]
Started(kind, target) == [NoJob EXCEPT !.kind = kind, !.target = target]

\* In one turn of its loop the guardian goes on to recover, or to exit.
Turns(g, o, j) ==
    /\ owner' = o
    /\ IF g.stopped /\ o.process = "none" /\ j.kind = "none" /\ ~g.recovering
       THEN /\ job' = Started("recover", Target(disk.confirmed, NoLease))
            /\ guardian' = [g EXCEPT !.recovering = TRUE, !.stopped = FALSE]
       ELSE /\ job' = j
            /\ guardian' = IF g.stopping /\ o.process = "none" /\ j.kind = "none" /\ ~g.recovering
                           THEN [g EXCEPT !.state = "gone"] ELSE g
    /\ UNCHANGED <<installed, disk>>

StartOwner ==
    /\ guardian.state = "up" /\ owner.process = "none" /\ job.kind = "none"
    /\ ~guardian.recovering /\ ~guardian.stopping
    /\ toGuardian' = <<>> /\ toOwner' = <<>>
    /\ \/ /\ owner' = IF guardian.bootstrap
                      THEN Follows([NoOwner EXCEPT !.process = "running"], disk.confirmed)
                      ELSE [NoOwner EXCEPT !.process = "running"]
          /\ UNCHANGED count
       \/ owner' = [NoOwner EXCEPT !.process = "dead"] /\ MayFail /\ Failed
    /\ UNCHANGED <<installed, disk, request, guardian, job>>

Receive ==
    /\ Running /\ ~guardian.stopped /\ toGuardian # <<>>
    /\ toGuardian' = Tail(toGuardian)
    /\ job' = CASE toGuardian[1] = Cancel -> Killed(job)
                [] toGuardian[1] # Cancel /\ job.kind = "none" -> Started("write", toGuardian[1])
                [] OTHER -> job
    /\ UNCHANGED <<installed, disk, request, owner, guardian, toOwner, count>>

Overdue == /\ job.kind # "none" /\ ~job.killed /\ MayFail /\ Failed /\ job' = Killed(job)
           /\ UNCHANGED <<installed, disk, request, owner, guardian, toGuardian, toOwner>>

\* Only after the process was reaped does the owner hear of its end.  When the
\* confirmed policy cannot be written the guardian ends.
ReapJob ==
    LET ok == job.at = "done"
        recovered == [guardian EXCEPT !.recovering = FALSE, !.bootstrap = TRUE]
    IN  /\ job.kind # "none" /\ (job.killed \/ job.at \in {"done", "failed"})
        /\ toOwner' = IF guardian.recovering \/ guardian.stopped \/ owner.process = "none"
                      THEN toOwner ELSE Append(toOwner, ok)
        /\ CASE guardian.recovering /\ ok -> Turns(recovered, owner, NoJob)
             [] guardian.recovering /\ ~ok -> Turns([recovered EXCEPT !.state = "gone"], owner, NoJob)
             [] OTHER -> Turns(guardian, owner, NoJob)
        /\ UNCHANGED <<request, toGuardian, count>>

\* The owner does not answer for two seconds, has ended, or the guardian is told to
\* stop: it is killed, and what it started too.
StopOwner ==
    /\ owner.process # "none" /\ ~guardian.stopped
    /\ IF owner.process = "dead" \/ guardian.stopping THEN UNCHANGED count ELSE MayFail /\ Failed
    /\ guardian' = [guardian EXCEPT !.stopped = TRUE]
    /\ owner' = [NoOwner EXCEPT !.process = "dead"] /\ job' = Killed(job)
    /\ request' = "none" /\ toGuardian' = <<>> /\ toOwner' = <<>>
    /\ UNCHANGED <<installed, disk>>

ReapOwner ==
    /\ owner.process = "dead" /\ guardian.stopped
    /\ Turns(guardian, NoOwner, Killed(job))
    /\ UNCHANGED <<request, toGuardian, toOwner, count>>

Terminate ==
    /\ guardian.state = "up" /\ ~guardian.stopping /\ MayFail /\ Failed
    /\ Turns([guardian EXCEPT !.stopping = TRUE], owner, job)
    /\ UNCHANGED <<request, toGuardian, toOwner>>

Init ==
    /\ \E p \in Policies :
          /\ disk = [confirmed |-> p, candidate |-> p]
          /\ installed \in {Target(p, NoLease), Half}
    /\ request = "none" /\ owner = NoOwner /\ job = NoJob
    /\ guardian = [state |-> "none", stopped |-> FALSE, recovering |-> FALSE,
                   bootstrap |-> FALSE, stopping |-> FALSE]
    /\ toGuardian = <<>> /\ toOwner = <<>>
    /\ count = [failures |-> 0, commands |-> 0]

Next ==
    \/ Connect \/ Command \/ Commit \/ HangUp
    \/ ReadCommand \/ ReadHangUp \/ StepBlind \/ StepJob \/ StepWrite \/ StepSettled
    \/ StopLeases \/ JobWrites \/ StartOwner \/ Receive \/ Overdue \/ ReapJob
    \/ StopOwner \/ ReapOwner \/ Terminate

-----------------------------------------------------------------------------
(* Properties.                                                               *)

TypeOK ==
    /\ installed \in Targets \cup {Half}
    /\ owner.process \in {"none", "running", "dead"}
    /\ owner.observed \in Targets \cup {Half} /\ owner.writing \in Targets \cup {Half}
    /\ request \in {"none", "idle", "apply", "confirmed", "closed"}
    /\ job.at \in {"start", "half", "done", "failed"}
    /\ Len(toGuardian) <= 3 /\ Len(toOwner) <= 1

\* Hazard: a policy, a lost lease or a deadline cancels a write that was already
\* done, or is killed half way, and its answer comes after the next wish.  What the
\* owner tells settled is in the kernel whole, for the policy and the lease of now,
\* and nothing writes.
SettledIsInstalled ==
    (Running /\ owner.settled) => installed = Wanted(owner) /\ job.kind = "none"

=============================================================================
