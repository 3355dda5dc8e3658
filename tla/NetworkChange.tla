---------------------------- MODULE NetworkChange -----------------------------
(***************************************************************************)
(* A change of the network policy: Apply, then Keep or Revert.             *)
(*                                                                         *)
(* The supervisor process (gateway_network_supervisor.c) runs the manager  *)
(* (gateway_network_manager.c) over the worker's operations                *)
(* (gateway_network_runtime.c).  A store operation of the worker is a call *)
(* that blocks it; the commit is a child process that it may kill.  The    *)
(* application sends commands and may go away; the power may be cut at any *)
(* time.  Deadlines may pass whenever the code looks at them.              *)
(***************************************************************************)
EXTENDS NetworkStore

VARIABLES
    state,          \* manager.state; "STAGING": within gateway_network_manager_apply
    candidate,      \* r->candidate, w->candidate
    believed,       \* r->confirmed, which w->confirmed equals when a worker starts
    alive, keepAsked, revertAsked, bindingsReady,   \* of the manager
    call,           \* the store operation the worker is in
    child,          \* the process of the commit
    cancelled,      \* w->commit_canceled
    net,            \* the policy the interfaces have; Absent: part of several
    writing,        \* the policy being written to them; Absent: none
    authorised,     \* history: the policies the user kept
    cancels         \* a rollback may be asked for, or a deadline pass, during the commit

flagVars == <<alive, keepAsked, revertAsked, bindingsReady, cancels>>
netVars  == <<net, writing>>
knownVars == <<candidate, believed, authorised>>
vars == <<disk, state, knownVars, flagVars, call, child, cancelled, netVars>>

Busy == {"STAGING", "APPLYING", "WAIT_BINDINGS", "WAIT_CONFIRM", "COMMITTING",
         "ROLLING_BACK", "ROLLBACK_BINDINGS"}

States == Busy \cup {"IDLE", "KEPT", "REVERTED", "FAILED", "ROLLBACK_FAILED",
                     "DURABILITY_UNCERTAIN"}

Idle == [todo |-> << >>, dirty |-> FALSE, then |-> "none", result |-> "none"]

\* A call that continues with "then" when it returns.
Calling(script, then) ==
    [todo |-> script, dirty |-> FALSE, then |-> then,
     result |-> IF script = << >> THEN "ok" ELSE "running"]

Committer(script) == [todo |-> script, dirty |-> FALSE, then |-> "ok", result |-> "running"]

Init ==
    /\ \E p \in Profiles : Adopted(p) /\ believed = p /\ net = p
    /\ state = "IDLE" /\ candidate = believed /\ authorised = {believed}
    /\ cancels \in BOOLEAN
    /\ alive = TRUE /\ keepAsked = FALSE /\ revertAsked = FALSE /\ bindingsReady = FALSE
    /\ call = Idle /\ child = Idle /\ cancelled = FALSE
    /\ writing = Absent

-----------------------------------------------------------------------------
(* A store operation runs: in the worker (call) and in the commit (child). *)

Done(p) == [p EXCEPT !.todo = Tail(@), !.dirty = FALSE,
                     !.result = IF Len(p.todo) = 1 THEN "ok" ELSE "running"]

CallChange ==
    /\ call.result = "running" /\ ~call.dirty
    /\ \/ Made(Head(call.todo)) /\ call' = [call EXCEPT !.dirty = TRUE]
       \/ May("io") /\ call' = [call EXCEPT !.result = "failed"] /\ UNCHANGED disk
    /\ UNCHANGED <<state, knownVars, flagVars, child, cancelled, netVars>>

CallSync ==
    /\ call.result = "running" /\ call.dirty
    /\ \/ Synced /\ call' = Done(call)
       \/ May("sync") /\ call' = [call EXCEPT !.result = "failed"] /\ UNCHANGED disk
    /\ UNCHANGED <<state, knownVars, flagVars, child, cancelled, netVars>>

ChildChange ==
    /\ child.result = "running" /\ ~child.dirty
    /\ \/ Made(Head(child.todo)) /\ child' = [child EXCEPT !.dirty = TRUE]
       \/ /\ May("io") /\ UNCHANGED disk
          /\ child' = [child EXCEPT !.result = IF child.then = "ok" THEN "error" ELSE "uncertain"]
    /\ UNCHANGED <<state, knownVars, flagVars, call, cancelled, netVars>>

\* Fault: the commit is taken for good although its last sync failed.
NotReguarded(p) == [p EXCEPT !.result = "ok"]

\* The commit was about to be published: the guard comes back.
Reguarded(p) == [p EXCEPT !.todo = << Change("guard", dir["good"]) >>, !.dirty = FALSE,
                          !.then = "uncertain"]

ChildSync ==
    /\ child.result = "running" /\ child.dirty
    /\ \/ Synced /\ child' = [Done(child) EXCEPT !.result = IF @ = "ok" THEN child.then ELSE @]
       \/ /\ May("sync") /\ UNCHANGED disk
          /\ child' = IF child.todo = << Change("guard", Absent) >> THEN Reguarded(child)
                      ELSE [child EXCEPT !.result = "uncertain"]
    /\ UNCHANGED <<state, knownVars, flagVars, call, cancelled, netVars>>

\* The write of a policy to the interfaces ends.
NetworkWritten ==
    /\ writing # Absent /\ writing' = Absent
    /\ \/ net' = writing
       \/ May("net") /\ net' = Absent
    /\ UNCHANGED <<disk, state, knownVars, flagVars, call, child, cancelled>>

Write(p) == writing' = p /\ net' = Absent

-----------------------------------------------------------------------------
(* Rolling back. *)

Goto(next) == state' = next

Abort(then) == call' = Calling(AbortCommit(dir["guard"]), then)

\* restore without a commit in flight
Restore == Abort("restore")

\* Fault: the policy from before the change is taken from memory.
RamBaseline == believed

\* The policy to get back to is what the store selects.
Baseline == Boot(dir)

\* Fault: the commit goes on.
NotKilled == UNCHANGED child

Killed == child' = [child EXCEPT !.result = IF @ = "running" THEN "killed" ELSE @]

\* rollback: with a commit in flight the restore has to wait for its end.
Rollback ==
    /\ Goto("ROLLING_BACK")
    /\ keepAsked' = FALSE /\ revertAsked' = FALSE /\ bindingsReady' = FALSE
    /\ IF child # Idle THEN Killed /\ cancelled' = TRUE /\ UNCHANGED call
       ELSE Restore /\ UNCHANGED <<child, cancelled>>
    /\ UNCHANGED <<alive, cancels>>

\* What the worker does when its store operation returns.
Returned(then, result) == call.then = then /\ call.result = result /\ call # Idle

RestoreReturns ==
    /\ \/ /\ Returned("restore", "ok")
          /\ \/ Write(Baseline) /\ UNCHANGED state
             \/ May("net") /\ Goto("ROLLBACK_FAILED") /\ UNCHANGED netVars
       \/ Returned("restore", "failed") /\ Goto("ROLLBACK_FAILED") /\ UNCHANGED netVars
    /\ call' = Idle
    /\ UNCHANGED <<disk, knownVars, flagVars, child, cancelled>>

DiscardReturns ==
    /\ \/ Returned("discard", "ok") /\ Goto(IF alive THEN "ROLLBACK_BINDINGS" ELSE "REVERTED")
       \/ Returned("discard", "failed") /\ Goto("ROLLBACK_FAILED")
    /\ call' = Idle
    /\ UNCHANGED <<disk, knownVars, flagVars, child, cancelled, netVars>>

-----------------------------------------------------------------------------
(* gateway_network_runtime_start and gateway_network_manager_apply *)

Startable == state \in {"IDLE", "KEPT", "REVERTED", "FAILED"} /\ alive

Apply(p) ==
    /\ Startable /\ Boot(dir) = believed
    /\ candidate' = p
    /\ Goto("STAGING") /\ Abort("stage")
    /\ keepAsked' = FALSE /\ revertAsked' = FALSE /\ bindingsReady' = FALSE
    /\ UNCHANGED <<disk, believed, authorised, alive, cancels, child, cancelled,
                   netVars>>

\* The store selects neither what the application believes: the worker exits.
\* The application then finds the candidate in the store, or gives up.
ApplyRefused(p) ==
    /\ Startable /\ Boot(dir) # believed
    /\ candidate' = p
    /\ \/ Boot(dir) = p /\ Goto("KEPT") /\ believed' = p
       \/ Goto("ROLLBACK_FAILED") /\ UNCHANGED believed
    /\ UNCHANGED <<disk, authorised, flagVars, call, child, cancelled, netVars>>

\* The live network and the documents must be those of the confirmed policy.
StageReturns ==
    /\ \/ /\ Returned("stage", "ok")
          /\ \/ /\ net = believed /\ writing = Absent
                /\ call' = Calling(SaveCandidate(candidate), "save") /\ UNCHANGED state
             \/ /\ net # believed \/ writing # Absent \/ May("stage")
                /\ Goto("FAILED") /\ call' = Idle
       \/ Returned("stage", "failed") /\ Goto("FAILED") /\ call' = Idle
    /\ UNCHANGED <<disk, knownVars, flagVars, child, cancelled, netVars>>

SaveReturns ==
    /\ \/ /\ Returned("save", "ok")
          /\ \/ /\ Write(candidate) /\ Goto("APPLYING") /\ call' = Idle
                /\ UNCHANGED <<flagVars, child, cancelled>>
             \/ May("net") /\ Rollback /\ UNCHANGED netVars
       \/ /\ Returned("save", "failed") /\ Goto("FAILED") /\ call' = Idle
          /\ UNCHANGED <<flagVars, child, cancelled, netVars>>
    /\ UNCHANGED <<disk, knownVars>>

-----------------------------------------------------------------------------
(* gateway_network_manager_step, while the worker is in no store operation *)

Free == call = Idle

\* The application left, asked for a rollback, or a deadline passed.
GiveUp ==
    /\ Free /\ state \in {"APPLYING", "WAIT_BINDINGS", "WAIT_CONFIRM", "COMMITTING"}
    /\ state = "COMMITTING" => cancels
    /\ Rollback
    /\ UNCHANGED <<disk, knownVars, netVars>>

Wished == Free /\ alive /\ ~revertAsked

StepApplying ==
    /\ Wished /\ state = "APPLYING" /\ writing = Absent
    /\ \/ /\ net = candidate /\ Goto("WAIT_BINDINGS")
          /\ UNCHANGED <<flagVars, call, child, cancelled>>
       \/ (net # candidate \/ May("net")) /\ Rollback
    /\ UNCHANGED <<disk, knownVars, netVars>>

StepBindings ==
    /\ Wished /\ state = "WAIT_BINDINGS" /\ bindingsReady
    /\ Goto("WAIT_CONFIRM")
    /\ UNCHANGED <<disk, knownVars, flagVars, call, child, cancelled, netVars>>

StepConfirm ==
    /\ Wished /\ state = "WAIT_CONFIRM"
    /\ \/ /\ keepAsked /\ Goto("COMMITTING") /\ authorised' = authorised \cup {candidate}
          /\ UNCHANGED <<flagVars, call, child, cancelled>>
       \/ May("net") /\ Rollback /\ UNCHANGED authorised
    /\ UNCHANGED <<disk, candidate, believed, netVars>>

\* commit: the first call forks the child.
StepCommitting ==
    /\ Wished /\ state = "COMMITTING" /\ child = Idle
    /\ \/ /\ child' = Committer(Confirm(Boot(dir), dir["candidate"]))
          /\ UNCHANGED <<state, flagVars, call, cancelled>>
       \/ May("io") /\ Rollback
    /\ UNCHANGED <<disk, knownVars, netVars>>

Kept == Goto("KEPT") /\ believed' = candidate

CommitReaped ==
    /\ Wished /\ state = "COMMITTING" /\ child.result \in {"ok", "uncertain", "error"}
    /\ \/ child.result = "ok" /\ Kept /\ UNCHANGED <<flagVars, call>>
       \/ child.result = "uncertain" /\ Abort("baseline") /\ UNCHANGED <<state, believed, flagVars>>
       \/ /\ child.result = "error" /\ Goto("ROLLING_BACK") /\ Restore
          /\ keepAsked' = FALSE /\ revertAsked' = FALSE /\ bindingsReady' = FALSE
          /\ UNCHANGED <<believed, alive, cancels>>
    /\ child' = Idle
    /\ UNCHANGED <<disk, candidate, authorised, cancelled, netVars>>

\* The commit was uncertain: it is rolled back only if the store is what it was.
BaselineReturns ==
    /\ call.then = "baseline" /\ call.result \in {"ok", "failed"}
    /\ IF call.result = "ok" /\ Boot(dir) = believed
       THEN Rollback
       ELSE Goto("DURABILITY_UNCERTAIN") /\ call' = Idle /\ UNCHANGED <<flagVars, child, cancelled>>
    /\ UNCHANGED <<disk, knownVars, netVars>>

\* Fault: the commit stays cancelled.
ReapedHalf == child' = Idle /\ UNCHANGED cancelled

Reaped == child' = Idle /\ cancelled' = FALSE

\* The cancelled commit is reaped: it won the race, or it is aborted.
StepCancelled ==
    /\ Free /\ state = "ROLLING_BACK" /\ cancelled
    /\ IF child.result = "ok" THEN Kept /\ UNCHANGED call
       ELSE Restore /\ UNCHANGED <<state, believed>>
    /\ Reaped
    /\ UNCHANGED <<disk, candidate, authorised, flagVars, netVars>>

StepRollingBack ==
    /\ Free /\ state = "ROLLING_BACK" /\ ~cancelled /\ writing = Absent
    /\ \/ net = Baseline /\ call' = Calling(Discard, "discard") /\ UNCHANGED state
       \/ (net # Baseline \/ May("net")) /\ Goto("ROLLBACK_FAILED") /\ UNCHANGED call
    /\ UNCHANGED <<disk, knownVars, flagVars, child, cancelled, netVars>>

StepRollbackBindings ==
    /\ Free /\ state = "ROLLBACK_BINDINGS" /\ (bindingsReady \/ ~alive)
    /\ Goto("REVERTED")
    /\ UNCHANGED <<disk, knownVars, flagVars, call, child, cancelled, netVars>>

\* Fault: a rollback has no deadline.
NotOverdue == FALSE

\* Neither the restore nor the bindings came in time.
RollbackOverdue ==
    /\ Free /\ state \in {"ROLLING_BACK", "ROLLBACK_BINDINGS"}
    /\ Goto("ROLLBACK_FAILED")
    /\ child' = Idle /\ cancelled' = FALSE
    /\ UNCHANGED <<disk, knownVars, flagVars, call, netVars>>

Step ==
    \/ GiveUp \/ StepApplying \/ StepBindings \/ StepConfirm \/ StepCommitting
    \/ CommitReaped \/ StepCancelled \/ StepRollingBack \/ StepRollbackBindings
    \/ RollbackOverdue

Return ==
    RestoreReturns \/ DiscardReturns \/ StageReturns \/ SaveReturns \/ BaselineReturns

-----------------------------------------------------------------------------
(* The application and the power. *)

AskKeep ==
    /\ Free /\ state = "WAIT_CONFIRM" /\ alive /\ bindingsReady
    /\ keepAsked' = TRUE
    /\ UNCHANGED <<disk, state, knownVars, alive, cancels, revertAsked, bindingsReady, call, child,
                   cancelled, netVars>>

AskRevert ==
    /\ Free /\ state \in Busy /\ alive
    /\ state = "COMMITTING" => cancels
    /\ revertAsked' = TRUE
    /\ UNCHANGED <<disk, state, knownVars, alive, cancels, keepAsked, bindingsReady, call, child,
                   cancelled, netVars>>

\* The ports are bound to the addresses of the policy in force.
BindingsReady ==
    /\ Free /\ state \in {"WAIT_BINDINGS", "ROLLBACK_BINDINGS"} /\ alive
    /\ bindingsReady' = TRUE
    /\ UNCHANGED <<disk, state, knownVars, alive, cancels, keepAsked, revertAsked, call, child,
                   cancelled, netVars>>

\* The application departs, dies, or closes its end of the channel.
Departs ==
    /\ Free /\ state \in Busy /\ alive
    /\ state = "COMMITTING" => cancels
    /\ alive' = FALSE
    /\ UNCHANGED <<disk, state, knownVars, keepAsked, revertAsked, bindingsReady, cancels, call, child,
                   cancelled, netVars>>

\* The gateway starts again and reads the store.
Restarts ==
    /\ state \notin Busy
    /\ Goto("IDLE") /\ believed' = Boot(dir) /\ authorised' = Saved
    /\ alive' = TRUE
    /\ UNCHANGED <<disk, candidate, keepAsked, revertAsked, bindingsReady, cancels, call, child,
                   cancelled, netVars>>

\* The power is cut and the gateway boots with what the store then selects.
PowerCut ==
    /\ Cut
    /\ Goto("IDLE") /\ believed' = Boot(dir') /\ authorised' = {Boot(dir')}
    /\ candidate' = believed' /\ net' = believed' /\ writing' = Absent
    /\ alive' = TRUE /\ keepAsked' = FALSE /\ revertAsked' = FALSE /\ bindingsReady' = FALSE
    /\ call' = Idle /\ child' = Idle /\ cancelled' = FALSE /\ UNCHANGED cancels

Next ==
    \/ \E p \in Profiles : Apply(p) \/ ApplyRefused(p)
    \/ CallChange \/ CallSync \/ ChildChange \/ ChildSync \/ NetworkWritten
    \/ Return \/ Step
    \/ AskKeep \/ AskRevert \/ BindingsReady \/ Departs
    \/ Restarts \/ PowerCut

Spec == Init /\ [][Next]_vars

\* What the supervisor, the worker and the commit do whatever the application
\* and the disk do: every loop steps the manager, whose deadlines all pass.
Moves == CallChange \/ CallSync \/ ChildChange \/ ChildSync \/ NetworkWritten \/ Return

FairSpec ==
    /\ Spec /\ WF_vars(Moves)
    /\ WF_vars(GiveUp \/ StepCommitting \/ CommitReaped \/ StepCancelled \/ StepRollingBack \/ RollbackOverdue)

-----------------------------------------------------------------------------
(* Properties *)

TypeOK ==
    /\ dir \in [Names -> Records] /\ maybe \in [Names -> SUBSET Records]
    /\ \A n \in Names : dir[n] \in maybe[n]
    /\ state \in States /\ candidate \in Profiles /\ believed \in Profiles
    /\ authorised \subseteq Profiles
    /\ alive \in BOOLEAN /\ keepAsked \in BOOLEAN /\ revertAsked \in BOOLEAN
    /\ bindingsReady \in BOOLEAN /\ cancelled \in BOOLEAN /\ cancels \in BOOLEAN
    /\ call.then \in {"none", "stage", "save", "restore", "discard", "baseline"}
    /\ child.then \in {"none", "ok", "uncertain"}
    /\ \A p \in {call, child} : \A i \in 1..Len(p.todo) : p.todo[i] \in Changes
    /\ net \in Records /\ writing \in Records
    /\ cancelled => child # Idle /\ state = "ROLLING_BACK"

\* Wherever the power is cut, the boot finds a whole policy, and one the user
\* asked to keep: never a candidate on trial, whichever of the syncs, renames and
\* kills of commits and aborts came before.
BootsAuthorised == Saved # {} /\ Saved \subseteq authorised

\* KEPT is told only when no power cut can take the change back, and the
\* network runs it.
KeptIsSaved == state = "KEPT" => Saved = {candidate} /\ net = candidate

\* REVERTED is told only when one policy is saved for good and the network runs
\* that one.
RevertedIsSaved == state = "REVERTED" => Saved = {net}

\* REVERTED means that the policy from before the change is back.
RevertedIsOld == state = "REVERTED" => Saved = {believed} /\ net = believed

\* What the user is told of the end of a change is what is saved for good and what the
\* network runs; it is the old policy again after REVERTED, when nothing cancelled a
\* commit.
ToldIsSaved == KeptIsSaved /\ RevertedIsSaved /\ (~cancels => RevertedIsOld)

\* Before the network is touched nothing adds to what the next boot may find
\* ("No active mutation may occur in stage()").
StagingIsSilent == [][state = "STAGING" /\ state' # "IDLE" => Saved' \subseteq Saved]_vars

\* Two processes never change the store at the same time, and no commit outlives
\* its change.
OneWriter ==
    /\ child.result = "running" => call = Idle /\ state = "COMMITTING"
    /\ state \notin Busy => child = Idle /\ call = Idle

\* The store over every interleaving of worker, commit, kill and power cut.
StoreIsKept == TypeOK /\ OneWriter /\ BootsAuthorised

\* Every change ends, even if nobody answers and whatever fails.
ChangesEnd == state \in Busy ~> state \notin Busy

\* The change is atomic to a power cut and to the user (AtomicChange).
Told ==
    CASE state \in Busy                              -> "busy"
      [] state = "IDLE"                              -> "none"
      [] state = "KEPT"                              -> "kept"
      [] state = "REVERTED"                          -> "reverted"
      [] state = "DURABILITY_UNCERTAIN"              -> "uncertain"
      [] state \in {"FAILED", "ROLLBACK_FAILED"}     -> "failed"

Atomic == INSTANCE AtomicChange WITH Policies <- Profiles, saved <- Saved, told <- Told

IsAtomic == Atomic!Spec
=============================================================================
