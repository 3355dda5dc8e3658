------------------------------ MODULE TimeSync ------------------------------
(* The gateway's clock (app/gateway_application.c): it is set by hand, or by *)
(* an `ntpdate' that the application starts as a process of its own, polls,  *)
(* kills when it takes too long, and reaps.  What the panel tells about the  *)
(* clock, the trust, is kept beside it, and the two must agree whatever      *)
(* comes between: new settings, a diagnostic test, a stop.                   *)
(*                                                                           *)
(* Durations are abstract: a timer that runs falls due at some time.  The    *)
(* contents of the real-time clock and the counters of the health are left   *)
(* out, and so is a failing waitpid, which no child of one's own gives.      *)
EXTENDS Integers

CONSTANTS Servers, Intervals, TestAttempts

VARIABLES
    coordinator,    \* starting, ready, shutting or stopped
    process,        \* process_state
    stopRequested,
    ntp,            \* gateway_time_health_t with the application's ntp_* members
    clock           \* who set CLOCK_REALTIME last

timeVars == <<coordinator, process, stopRequested, ntp, clock>>

Settings == [on : BOOLEAN, server : Servers, interval : Intervals]
ByHand == [by |-> "hand", server |-> "none"]
ByNtp(server) == [by |-> "ntp", server |-> server]

-----------------------------------------------------------------------------
(* Parts of a step, each from the ntp record before it to the one after it.  *)

\* SIGKILL does nothing to a helper that has exited.
Cancelled(n) ==
    [n EXCEPT !.terminating = TRUE,
              !.helper = IF @ = "running" THEN "killed" ELSE @]

Polled(n) == [n EXCEPT !.helper = "none"]
Lives(n) == n.helper \in {"running", "killed"}

\* A deadline that waits for the next attempt, after a success or a failure; the
\* test ends with its last attempt.
Rescheduled(n) ==
    [n EXCEPT !.retry = "runs", !.normal = "runs",
              !.testing = @ /\ n.testAttempts < TestAttempts]

\* time_sync_failed
Failed(n) ==
    [Rescheduled(n) EXCEPT !.trust =
        CASE n.before = "manual" -> "manual"
          [] n.before \in {"synced", "holdover"} -> "holdover"
          [] OTHER -> "error"]

\* Fault: what was synchronised with the old server is told of the new one.
AppliedSynced(n, settings) ==
    LET c == IF n.trust = "syncing" THEN [Cancelled(n) EXCEPT !.trust = n.before] ELSE n
    IN  [c EXCEPT !.testing = FALSE, !.on = settings.on, !.server = settings.server,
                  !.interval = settings.interval, !.retry = "off", !.normal = "off",
                  !.applied = TRUE]

\* time_settings_step, for another server or another switch.
Applied(n, settings) ==
    LET c == IF n.trust = "syncing" THEN [Cancelled(n) EXCEPT !.trust = n.before] ELSE n
    IN  [c EXCEPT !.trust = IF @ = "synced" THEN "holdover" ELSE @,
                  !.testing = FALSE, !.on = settings.on, !.server = settings.server,
                  !.interval = settings.interval, !.retry = "off", !.normal = "off",
                  !.applied = TRUE]

\* time_settings_step: another interval counts from the last synchronisation.
Settled(n, settings) ==
    LET counted(due) ==
            [n EXCEPT !.interval = settings.interval, !.normal = due,
                      !.retry = IF n.testing THEN @ ELSE due]
    IN  IF coordinator' # "ready" THEN {n}
        ELSE IF ~n.applied \/ n.on # settings.on \/ n.server # settings.server
        THEN {Applied(n, settings)}
        ELSE IF n.interval # settings.interval /\ n.trust = "synced"
        THEN {counted("due"), counted("runs")}
        ELSE {[n EXCEPT !.interval = settings.interval]}

\* A stop ends the test and the attempt.
Halted(n) ==
    LET quiet == [n EXCEPT !.testing = FALSE]
    IN  IF n.trust = "syncing" /\ ~n.terminating
        THEN [Cancelled(quiet) EXCEPT !.trust = n.before] ELSE quiet

\* Fault: a helper that was killed is taken for reaped.
Forgotten(n) == [n EXCEPT !.terminating = FALSE]

\* A cancelled helper is polled until it is reaped, whatever it exited with.
Reaped(n) == IF Lives(n) THEN n ELSE [Polled(n) EXCEPT !.terminating = FALSE]

\* The attempt under way.
Awaited(n) ==
    CASE n.helper = "succeeded" ->
             {[Rescheduled(Polled(n)) EXCEPT !.trust = "synced"],
              Failed([Polled(n) EXCEPT !.before = "unsynced"])}    \* no valid calendar
      [] n.helper \in {"failed", "none"} -> {Failed(Polled(n))}
      [] OTHER -> {IF n.timeout = "due" THEN Failed(Cancelled(n)) ELSE n}

\* The next attempt: ntp_start may fail, and it does while a helper is known.
Started(n) ==
    LET counted == [n EXCEPT !.before = n.trust,
                             !.testAttempts = IF n.testing THEN @ + 1 ELSE @]
        running == [counted EXCEPT !.trust = "syncing", !.helper = "running",
                        !.helperServer = n.server, !.set = FALSE, !.timeout = "runs"]
    IN  {Failed(counted)} \cup (IF n.helper = "none" THEN {running} ELSE {})

\* No usable network, as far as is observed.
Deferred(n) ==
    [n EXCEPT !.trust = IF @ = "synced" /\ n.normal = "due" THEN "holdover" ELSE @]

\* time_sync_step after the settings or the stop.
Synced(n, stopping) ==
    LET r == IF n.terminating THEN Reaped(n) ELSE n
    IN  IF r.terminating \/ stopping \/ ~r.applied \/ ~r.on THEN {r}
        ELSE IF r.trust = "syncing" THEN Awaited(r)
        ELSE {Deferred(r)} \cup (IF r.retry = "runs" THEN {r} ELSE Started(r))

-----------------------------------------------------------------------------
(* Actions.                                                                  *)

\* gateway_coordinator_step, as far as the clock can tell.
CoordinatorStep ==
    coordinator' \in
        CASE stopRequested /\ coordinator \in {"starting", "ready"} -> {"shutting"}
          [] coordinator = "starting" -> {"starting", "ready"}
          [] coordinator = "shutting" -> {"shutting", "stopped"}
          [] OTHER -> {coordinator}

\* gateway_application_step with the settings selected by then.
Step(settings) ==
    /\ process # "stopped"
    /\ CoordinatorStep
    /\ LET stopping == stopRequested \/ coordinator' \in {"shutting", "stopped"}
       IN  \E n \in IF stopping THEN {Halted(ntp)} ELSE Settled(ntp, settings) :
              ntp' \in Synced(n, stopping)
    /\ process' = CASE coordinator' = "ready" -> "running"
                    [] coordinator' = "shutting" -> "stopping"
                    [] coordinator' = "stopped" ->
                           IF ntp'.terminating THEN "stopping" ELSE "stopped"
                    [] OTHER -> process
    /\ UNCHANGED <<stopRequested, clock>>

\* gateway_application_system_time_set
SetByHand ==
    /\ ntp.trust # "syncing" /\ ~ntp.terminating
    /\ ~stopRequested /\ process # "stopped"
    /\ clock' = ByHand /\ ntp' = [ntp EXCEPT !.trust = "manual"]
    /\ UNCHANGED <<coordinator, process, stopRequested>>

\* Fault: the attempts of an earlier test are not forgotten.
TestAgain(enabled) ==
    /\ process = "running" /\ ~stopRequested
    /\ enabled => ntp.on /\ ~ntp.terminating
    /\ enabled # ntp.testing
    /\ ntp' = [ntp EXCEPT !.testing = enabled]
    /\ UNCHANGED <<coordinator, process, stopRequested, clock>>

\* gateway_application_ntp_test
Test(enabled) ==
    LET normal == IF enabled THEN ntp.retry ELSE ntp.normal
    IN  /\ process = "running" /\ ~stopRequested
        /\ enabled => ntp.on /\ ~ntp.terminating
        /\ enabled # ntp.testing
        /\ ntp' = [ntp EXCEPT
               !.testing = enabled, !.normal = normal,
               !.testAttempts = IF enabled THEN 0 ELSE @,
               !.retry = CASE ntp.trust = "syncing" -> @
                           [] enabled -> "runs"
                           [] OTHER -> normal]
        /\ UNCHANGED <<coordinator, process, stopRequested, clock>>

RequestStop ==
    /\ ~stopRequested /\ stopRequested' = TRUE
    /\ UNCHANGED <<coordinator, process, ntp, clock>>

FallsDue(timer) ==
    /\ ntp[timer] = "runs" /\ ntp' = [ntp EXCEPT ![timer] = "due"]
    /\ UNCHANGED <<coordinator, process, stopRequested, clock>>

\* The helper: one that is being killed may still complete its system call.
HelperSetsClock ==
    /\ Lives(ntp) /\ ~ntp.set
    /\ clock' = ByNtp(ntp.helperServer) /\ ntp' = [ntp EXCEPT !.set = TRUE]
    /\ UNCHANGED <<coordinator, process, stopRequested>>

HelperEnds ==
    /\ \/ ntp.helper = "running" /\ ntp.set /\ ntp' = [ntp EXCEPT !.helper = "succeeded"]
       \/ Lives(ntp) /\ ntp' = [ntp EXCEPT !.helper = "failed"]
    /\ UNCHANGED <<coordinator, process, stopRequested, clock>>

Init ==
    /\ coordinator = "starting" /\ process = "starting" /\ stopRequested = FALSE
    /\ clock = [by |-> "nobody", server |-> "none"]
    /\ ntp = [trust |-> "unsynced", before |-> "unknown", on |-> FALSE, server |-> "none",
              interval |-> 1, applied |-> FALSE, testing |-> FALSE, testAttempts |-> 0,
              terminating |-> FALSE, timeout |-> "off", retry |-> "off", normal |-> "off",
              helper |-> "none", helperServer |-> "none", set |-> FALSE]

Next ==
    \/ \E settings \in Settings : Step(settings)
    \/ SetByHand \/ RequestStop \/ HelperSetsClock \/ HelperEnds
    \/ \E enabled \in BOOLEAN : Test(enabled)
    \/ \E timer \in {"timeout", "retry", "normal"} : FallsDue(timer)

-----------------------------------------------------------------------------
(* Properties.                                                               *)

TypeOK ==
    /\ coordinator \in {"starting", "ready", "shutting", "stopped"}
    /\ process \in {"starting", "running", "stopping", "stopped"}
    /\ ntp.trust \in {"unsynced", "syncing", "synced", "manual", "error", "holdover"}
    /\ ntp.helper \in {"none", "running", "killed", "succeeded", "failed"}

\* Hazard: an old helper sets the clock after new settings, or its late success
\* is taken for that of the new server.  What is told to be synchronised was set
\* from the server configured, and a holdover by some server.
TrustIsTrue ==
    /\ ntp.trust = "synced" => clock = ByNtp(ntp.server)
    /\ ntp.trust = "holdover" => clock.by = "ntp"

\* Hazard: a helper that was cancelled, timed out or stopped is lost sight of and
\* sets the clock under the user, beside the next helper, or after the end.
HelperIsMinded ==
    /\ ntp.helper # "none" => ntp.trust = "syncing" \/ ntp.terminating
    /\ process = "stopped" => ntp.helper = "none"

\* Hazard: failures, settings and repeated keys keep the diagnostic test alive
\* (docs/user-guide.md:382).  A test makes no attempt beyond its last.
TestIsBounded == ntp.testAttempts <= TestAttempts

=============================================================================
