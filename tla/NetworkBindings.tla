--------------------------- MODULE NetworkBindings ----------------------------
(* The application's side of a change of the network policy: it binds the     *)
(* ports again to where the LAN is now (app/gateway_application_network.c)    *)
(* and follows, from one tick to the next, the worker that carries out the    *)
(* change and a process that observes the network                             *)
(* (gateway_network_runtime_poll in network/gateway_network_runtime.c).       *)
(*                                                                            *)
(* One LAN and the enabled ports; a policy is an address of its own, or is    *)
(* leased.  The worker is NetworkChange without its steps on the disk: it     *)
(* reads a command before its next move, and its commit is one step.          *)
(* Deadlines may pass at any time.  Left out: a listener that cannot be       *)
(* closed, a port that is disabled, and the end of the program.               *)
EXTENDS Integers, Sequences

CONSTANTS Policies, Leased, Leases, Ports, Bound, MaxApplies, MaxTroubles, MaxLeases

VARIABLES
    world,     \* the network: policy, lease, and where the LAN was under this policy
    worker,    \* the process of a change, and the frames it has sent
    app,       \* gateway_network_runtime_t
    seen,      \* the observation that was accepted last
    observer,  \* the process that observes
    port,      \* of each port: life cycle, addresses and network_wait
    count      \* of changes, troubles and leases

bindingVars == <<world, worker, app, seen, observer, port, count>>

Nowhere == "nowhere"
NoFrame == [policy |-> Nowhere]
NoObserver == [running |-> FALSE, stale |-> FALSE, frame |-> NoFrame, recovering |-> FALSE]
NoWorker == [alive |-> FALSE, state |-> "none", sent |-> <<>>, bindings |-> FALSE,
             keep |-> FALSE, revert |-> FALSE]

Address(w) == IF w.policy \in Leased THEN w.lease ELSE w.policy
Under(w, p) ==
    LET v == [w EXCEPT !.policy = p, !.late = FALSE,
                       !.lease = IF w.policy \in Leased /\ p \in Leased THEN @ ELSE Nowhere]
    IN  [v EXCEPT !.had = {Address(v)}]

Busy(a) == a.pid \/ a.recovering
MayFail == count.troubles < MaxTroubles
Failed == count' = [count EXCEPT !.troubles = @ + 1]

All == [worker |-> worker, app |-> app, seen |-> seen, observer |-> observer, port |-> port]
Becomes(s) ==
    /\ worker' = s.worker /\ app' = s.app /\ seen' = s.seen
    /\ observer' = s.observer /\ port' = s.port

-----------------------------------------------------------------------------
(* The worker, the owner of the network, the LAN and the ports.              *)

Tells(w, state) == [w EXCEPT !.state = state, !.sent = Append(@, state)]
Ends(w, state) == [Tells(w, state) EXCEPT !.alive = FALSE]
Alive(state) == worker.alive /\ worker.state = state

WorkerApplies ==
    /\ Alive("APPLYING")
    /\ \/ /\ worker' = Tells(worker, "WAIT_BINDINGS") /\ world' = Under(world, app.candidate)
          /\ UNCHANGED count
       \/ worker' = Ends(worker, "FAILED") /\ MayFail /\ Failed /\ UNCHANGED world
    /\ UNCHANGED <<app, seen, observer, port>>

WorkerWaits ==
    /\ Alive("WAIT_BINDINGS") /\ worker.bindings /\ ~worker.revert
    /\ worker' = Tells(worker, "WAIT_CONFIRM")
    /\ UNCHANGED <<world, app, seen, observer, port, count>>

WorkerCommits ==
    /\ Alive("WAIT_CONFIRM") /\ worker.keep /\ ~worker.revert
    /\ worker' = Tells(worker, "COMMITTING")
    /\ world' = [world EXCEPT !.stored = app.candidate]
    /\ UNCHANGED <<app, seen, observer, port, count>>

WorkerRestores ==
    /\ worker.alive /\ worker.state \in {"APPLYING", "WAIT_BINDINGS", "WAIT_CONFIRM"}
    /\ worker' = [Tells(worker, "ROLLING_BACK") EXCEPT !.bindings = FALSE, !.keep = FALSE,
                                                       !.revert = FALSE]
    /\ world' = Under(world, world.stored)
    /\ UNCHANGED <<app, seen, observer, port, count>>

WorkerGoesOn ==
    /\ \/ Alive("ROLLING_BACK") /\ worker' = Tells(worker, "ROLLBACK_BINDINGS") /\ UNCHANGED count
       \/ Alive("COMMITTING") /\ worker' = Ends(worker, "KEPT") /\ UNCHANGED count
       \/ /\ Alive("ROLLBACK_BINDINGS") /\ worker.bindings
          /\ worker' = Ends(worker, "REVERTED") /\ UNCHANGED count
       \/ /\ worker.alive /\ worker.state \in {"ROLLING_BACK", "ROLLBACK_BINDINGS"}
          /\ worker' = Ends(worker, "ROLLBACK_FAILED") /\ MayFail /\ Failed
    /\ UNCHANGED <<world, app, seen, observer, port>>

\* The owner takes the policy that is stored when the worker has hung up.
WorkerDies ==
    /\ worker.alive /\ MayFail /\ Failed
    /\ worker' = [worker EXCEPT !.alive = FALSE] /\ world' = [world EXCEPT !.late = TRUE]
    /\ UNCHANGED <<app, seen, observer, port>>

OwnerFollows ==
    /\ world.late /\ world' = Under(world, world.stored)
    /\ UNCHANGED <<worker, app, seen, observer, port, count>>

LeaseMoves ==
    /\ world.policy \in Leased /\ count.leases < MaxLeases
    /\ count' = [count EXCEPT !.leases = @ + 1]
    /\ \E l \in (Leases \cup {Nowhere}) \ {world.lease} :
          world' = [world EXCEPT !.lease = l, !.had = @ \cup {l}]
    /\ UNCHANGED <<worker, app, seen, observer, port>>

\* A change of the address alone: step_port with listener_rebind.
PortEnds(i) ==
    /\ port[i].life = "CHANGING"
    /\ \/ port' = [port EXCEPT ![i].life = "WAIT"] /\ port[i].wait /\ UNCHANGED count
       \/ /\ ~port[i].wait /\ UNCHANGED count
          /\ port' = [port EXCEPT ![i].life = "READY", ![i].current = port[i].staged]
       \/ /\ ~port[i].wait /\ MayFail /\ Failed
          /\ port' = [port EXCEPT ![i].life = "READY"]
       \/ port' = [port EXCEPT ![i].life = "ERROR"] /\ MayFail /\ Failed
    /\ UNCHANGED <<world, worker, app, seen, observer>>

PortFails(i) ==
    /\ port[i].life = "READY" /\ MayFail /\ Failed
    /\ port' = [port EXCEPT ![i].life = "ERROR"]
    /\ UNCHANGED <<world, worker, app, seen, observer>>

\* The child of poll_observer; it holds what the application knew when it was forked.
ObserverReads ==
    /\ observer.running /\ observer.frame = NoFrame
    /\ observer' = [observer EXCEPT !.frame =
          [policy |-> world.policy, settled |-> ~world.late, lease |-> world.lease,
           generation |-> IF ~observer.recovering THEN 0
                          ELSE IF world.stored = app.confirmed THEN 1 ELSE 2]]
    /\ UNCHANGED <<world, worker, app, seen, port, count>>

-----------------------------------------------------------------------------
(* gateway_network_runtime_poll.                                             *)

Blind == [valid |-> FALSE, error |-> FALSE, lease |-> Nowhere]

\* accept_observation
Accepted(s, f) ==
    LET policy == IF f.generation = 2 THEN s.app.candidate ELSE s.app.confirmed
        valid == ~s.app.recovering \/ (f.generation # 0 /\ f.settled /\ f.policy = policy)
        kept == s.app.recovering /\ valid /\ f.generation = 2
    IN  [s EXCEPT !.seen = [valid |-> valid, error |-> FALSE, lease |-> f.lease],
                  !.app.confirmed = IF kept THEN s.app.candidate ELSE @,
                  !.app.kept = @ \/ kept]

\* Fault: a frame counts whatever has happened since the process was forked.
ReadAlways(s) == Accepted(s, s.observer.frame)

ReadFrame(s) == IF s.observer.stale THEN s ELSE Accepted(s, s.observer.frame)

Observed(s) ==
    IF ~s.observer.running
    THEN {s, [s EXCEPT !.observer = [NoObserver EXCEPT !.running = TRUE,
                                                       !.recovering = s.app.recovering]]}
    ELSE {s} \cup (IF s.observer.frame = NoFrame THEN {}
                   ELSE {[ReadFrame(s) EXCEPT !.observer = NoObserver]})

\* The observer fails, or takes more than 200 ms.
ObserverFailed(s) ==
    [s EXCEPT !.observer = NoObserver,
              !.seen = IF s.observer.stale THEN @ ELSE [@ EXCEPT !.error = TRUE]]

\* A new phase: what was observed, or is being observed, does not count for it.
Forgets(s) ==
    [s EXCEPT !.app.index = 1, !.app.wait = FALSE, !.app.ack = FALSE,
              !.seen.valid = FALSE, !.observer.stale = s.observer.running]

\* One frame a tick.
Received(s) ==
    LET state == Head(s.worker.sent)
        told == [s EXCEPT !.worker.sent = Tail(@), !.app.status = state,
                          !.app.confirmed = IF state = "KEPT" THEN s.app.candidate ELSE @]
    IN  IF state # s.app.status /\ state \in {"WAIT_BINDINGS", "ROLLBACK_BINDINGS"}
        THEN Forgets(told) ELSE told

Terminal == {"KEPT", "REVERTED", "FAILED", "ROLLBACK_FAILED"}

\* Fault: a worker that ends without a last word has put the old policy back.
ReapedReverted(s) ==
    [s EXCEPT !.worker = NoWorker, !.app.pid = FALSE,
              !.app.status = IF @ \in Terminal THEN @ ELSE "REVERTED"]

\* The worker is reaped: without a last word the store tells how the change ended.
Reaped(s) ==
    LET t == [s EXCEPT !.worker = NoWorker, !.app.pid = FALSE]
    IN  IF s.app.status \in Terminal THEN t
        ELSE Forgets([t EXCEPT !.app.recovering = TRUE, !.app.kept = FALSE,
                               !.app.status = "ROLLBACK_BINDINGS"])

Heard(s) ==
    CASE s.app.pid /\ s.worker.sent # <<>> -> {Received(s)}
      [] s.app.pid /\ s.worker.sent = <<>> /\ ~s.worker.alive -> {Reaped(s)}
      [] s.app.recovering ->
             {s, [s EXCEPT !.app.recovering = FALSE, !.app.status = "ROLLBACK_FAILED"]}
      [] OTHER -> {s}

-----------------------------------------------------------------------------
(* gateway_application_network_step.                                         *)

\* binding_address
Where(s, p) ==
    IF p \notin Leased THEN p
    ELSE IF s.seen.valid /\ ~s.seen.error THEN s.seen.lease ELSE Nowhere

\* gateway_controller_network_wait
Waits(s, i, wait) ==
    [s EXCEPT !.port[i].wait = wait,
              !.port[i].life = IF wait /\ @ = "READY" THEN "WAIT" ELSE @]

\* gateway_controller_reconfigure
Changeable(s, i) == s.port[i].life \in {"READY", "WAIT"}
Changes(s, i, address) ==
    [s EXCEPT !.port[i].life = "CHANGING", !.port[i].staged = address]

\* gateway_network_runtime_command
Reverts(s) == [s EXCEPT !.worker.revert = s.worker.alive]
Acknowledges(s) ==
    [s EXCEPT !.worker.bindings =
                  s.worker.alive /\ s.worker.state \in {"WAIT_BINDINGS", "ROLLBACK_BINDINGS"},
              !.app.ack = s.worker.alive]

\* dynamic_bindings: in each tick all ports learn whether there is an address, and
\* one of them follows it.
Follows(s, i) ==
    LET address == Where(s, s.app.confirmed)
        t == [s EXCEPT !.port = [j \in Ports |->
                 IF j \in Bound THEN Waits(s, j, address = Nowhere).port[j] ELSE s.port[j]]]
        follows == address # Nowhere /\ i \in Bound
    IN  CASE follows /\ t.port[i].life = "READY" /\ t.port[i].current = address ->
                 [t EXCEPT !.port[i].selected = address]
          [] follows /\ Changeable(t, i)
                     /\ (t.port[i].life = "WAIT" \/ t.port[i].current # address) ->
                 Changes(t, i, address)
          [] OTHER -> t

Dynamic(s) ==
    IF Busy(s.app) \/ s.app.confirmed \notin Leased THEN {s} ELSE {Follows(s, i) : i \in Ports}

Served(s) == \A i \in Ports : s.port[i].life = "READY"

\* What is kept is what is selected.
Selects(s) ==
    LET address == Where(s, s.app.confirmed)
    IN  IF s.app.status # "KEPT" THEN s
        ELSE [s EXCEPT !.app.affinity = {},
                       !.port = [i \in Ports |-> IF i \in s.app.affinity /\ address # Nowhere
                                                 THEN [s.port[i] EXCEPT !.selected = address]
                                                 ELSE s.port[i]]]

Watches(s) == IF s.app.status = "WAIT_CONFIRM" /\ ~Served(s) THEN Reverts(s) ELSE s

Binding(s) ==
    s.app.status \in {"WAIT_BINDINGS", "ROLLBACK_BINDINGS"} /\ ~s.app.ack /\ s.seen.valid

\* All ports are bound.
Concludes(s) ==
    IF s.app.status = "WAIT_BINDINGS" /\ ~Served(s) THEN Reverts(s)
    ELSE IF s.app.recovering
    THEN [s EXCEPT !.app.recovering = FALSE, !.app.ack = TRUE,
                   !.app.status = IF s.app.kept THEN "KEPT" ELSE "REVERTED"]
    ELSE Acknowledges(s)

Passes(s) == [s EXCEPT !.app.index = @ + 1, !.app.wait = FALSE]

\* Fault: a port that serves is passed wherever it is bound.
BindsSome(s, i, address) ==
    LET t == Waits(s, i, FALSE)
    IN  CASE t.port[i].life = "READY" -> Passes(t)
          [] t.port[i].life # "READY" /\ ~s.app.wait ->
                 IF Changeable(t, i) THEN [Changes(t, i, address) EXCEPT !.app.wait = TRUE]
                 ELSE Reverts(t)
          [] OTHER -> IF t.port[i].life = "ERROR" THEN Reverts(t) ELSE t

\* One port at a time is bound to the address of the policy.
BindsAt(s, i, address) ==
    LET t == Waits(s, i, FALSE)
    IN  CASE t.port[i].life = "READY" /\ t.port[i].current = address -> Passes(t)
          [] ~(t.port[i].life = "READY" /\ t.port[i].current = address) /\ ~s.app.wait ->
                 IF Changeable(t, i) THEN [Changes(t, i, address) EXCEPT !.app.wait = TRUE]
                 ELSE Reverts(t)
          [] OTHER -> IF t.port[i].life \in {"READY", "ERROR"} THEN Reverts(t) ELSE t

BindsNext(s) ==
    LET i == s.app.index
        waits == s.app.status = "WAIT_BINDINGS"
        address == Where(s, IF waits THEN s.app.candidate ELSE s.app.confirmed)
    IN  CASE i \notin Ports -> Concludes(s)
          [] i \in Ports /\ i \notin s.app.affinity -> Passes(s)
          [] OTHER -> IF address # Nowhere THEN BindsAt(s, i, address)
                      ELSE IF waits THEN s ELSE Passes(Waits(s, i, TRUE))

Binds(s) ==
    LET t == Watches(Selects(s))
    IN  IF Binding(t) THEN BindsNext(t) ELSE t

Tick ==
    /\ \E o \in Observed(All) : \E h \in Heard(o) : \E d \in Dynamic(h) : Becomes(Binds(d))
    /\ UNCHANGED <<world, count>>

TickBlind ==
    /\ observer.running /\ MayFail /\ Failed
    /\ \E h \in Heard(ObserverFailed(All)) : \E d \in Dynamic(h) : Becomes(Binds(d))
    /\ UNCHANGED world

\* The expiry of a lease is a time of its own in the snapshot.
LeaseExpires ==
    /\ ~Busy(app) /\ seen.valid /\ app.confirmed \in Leased /\ seen.lease # Nowhere
    /\ world.lease # seen.lease
    /\ seen' = [seen EXCEPT !.lease = Nowhere]
    /\ UNCHANGED <<world, worker, app, observer, port, count>>

-----------------------------------------------------------------------------
(* The user.                                                                 *)

\* gateway_application_network_apply and gateway_network_runtime_start
Apply ==
    /\ ~Busy(app) /\ app.status \in {"IDLE", "KEPT", "REVERTED", "FAILED"}
    /\ \A i \in Ports : port[i].life \in {"READY", "WAIT"}
    /\ count.applies < MaxApplies /\ count' = [count EXCEPT !.applies = @ + 1]
    /\ \E p \in Policies :
          app' = [app EXCEPT !.pid = TRUE, !.status = "APPLYING", !.candidate = p,
                             !.affinity = Bound, !.index = 1, !.wait = FALSE, !.ack = FALSE]
    /\ worker' = [NoWorker EXCEPT !.alive = TRUE, !.state = "APPLYING"]
    /\ UNCHANGED <<world, seen, observer, port>>

Keep ==
    /\ app.status = "WAIT_CONFIRM" /\ app.ack
    /\ worker.alive /\ worker.state = "WAIT_CONFIRM" /\ worker.bindings
    /\ worker' = [worker EXCEPT !.keep = TRUE]
    /\ UNCHANGED <<world, app, seen, observer, port, count>>

Revert ==
    /\ worker.alive /\ worker' = [worker EXCEPT !.revert = TRUE]
    /\ UNCHANGED <<world, app, seen, observer, port, count>>

\* The ports were started where the LAN was.
Init ==
    /\ \E p \in Policies, l \in Leases :
          LET w == [policy |-> p, lease |-> IF p \in Leased THEN l ELSE Nowhere,
                    stored |-> p, late |-> FALSE, had |-> {}]
          IN  /\ world = [w EXCEPT !.had = {Address(w)}]
              /\ port = [i \in Ports |-> [life |-> "READY", current |-> Address(w),
                            staged |-> Address(w), selected |-> Address(w), wait |-> FALSE]]
              /\ app = [status |-> "IDLE", confirmed |-> p, candidate |-> p, pid |-> FALSE,
                        recovering |-> FALSE, kept |-> FALSE, affinity |-> {}, index |-> 1,
                        wait |-> FALSE, ack |-> FALSE]
    /\ worker = NoWorker /\ observer = NoObserver /\ seen = Blind
    /\ count = [applies |-> 0, troubles |-> 0, leases |-> 0]

Next ==
    \/ WorkerApplies \/ WorkerWaits \/ WorkerCommits \/ WorkerRestores \/ WorkerGoesOn
    \/ WorkerDies \/ OwnerFollows \/ LeaseMoves \/ ObserverReads
    \/ \E i \in Ports : PortEnds(i) \/ PortFails(i)
    \/ Tick \/ TickBlind \/ LeaseExpires \/ Apply \/ Keep \/ Revert

-----------------------------------------------------------------------------
(* Properties.                                                               *)

TypeOK ==
    /\ world.policy \in Policies /\ world.stored \in Policies
    /\ world.lease \in Leases \cup {Nowhere} /\ Len(worker.sent) <= 4
    /\ app.confirmed \in Policies /\ app.affinity \subseteq Bound
    /\ \A i \in Ports : port[i].life \in {"READY", "WAIT", "CHANGING", "ERROR"}

\* Hazard: ports are bound one by one, over many ticks, while leases move and an
\* observation of the time before the change is still under way.  When the user is
\* asked to keep the change, every bound port that serves is where the LAN is or
\* was under the new policy.
AskedWhenBound ==
    worker.alive /\ worker.state \in {"WAIT_CONFIRM", "COMMITTING"} =>
        \A i \in Bound : port[i].life = "READY" => port[i].current \in world.had

\* Hazard: the worker dies between the commit and telling it, or its last frame
\* comes with its end.  What the application takes for the end of the change is
\* what the store has.
RecoveredIsStored ==
    (~Busy(app) /\ app.status \in {"KEPT", "REVERTED", "FAILED"}) => app.confirmed = world.stored

\* Hazard: ports are bound again after a change, after its return, and after a
\* recovery that may have to wait for the observer.  When it is over every bound port
\* that serves has the address of the policy that stays.
EndsBound ==
    ~Busy(app) /\ app.status \in {"KEPT", "REVERTED"} /\ app.confirmed \notin Leased =>
        \A i \in Bound : port[i].life = "READY" => port[i].current = app.confirmed
=============================================================================
