----------------------------- MODULE PortRuntime -----------------------------
(***************************************************************************)
(* The runtime of one serial port (src/core/port_runtime.c): a request     *)
(* queue, at most one active transaction, the port's life cycle and its    *)
(* recovery from a silent or failing line.  The event loop is single       *)
(* threaded, so every call below is one atomic action; what interleaves is *)
(* the loop's port_runtime_step with the calls of the listener and of the  *)
(* controller, with the passing of time and with what the line answers.    *)
(*                                                                         *)
(* Time.  A deadline is kept as the number of ticks left; 0 is "expired".  *)
(* The code's clock wraps, and its intervals stay below half its range.    *)
(*                                                                         *)
(* The backend (core_backend_ops_t) is the environment: each call may      *)
(* succeed or fail, and a started generation may produce one TRANSMITTED   *)
(* and one final event, also after it was cancelled.  That covers the      *)
(* UART backend, which forgets a cancelled generation, and the mock        *)
(* backend of the tests, which delivers late.                              *)
(***************************************************************************)
EXTENDS Integers, Sequences

CONSTANTS
    MaxId,            \* model bound: ids 1..MaxId are issued, then no request comes
    QueueCapacity,    \* CORE_QUEUE_CAPACITY
    QueueBytesMax,    \* CORE_QUEUE_BYTES_MAX
    Lengths,          \* the payload lengths requests have
    QueueTimeout,     \* the queue timeout of a request, in ticks
    ResponseTimeout,  \* its response timeout
    StateTimeout,     \* the start, reconfigure and stop timeout
    RecoveryDelay,    \* recovery_delay
    MaxAttempts,      \* CORE_RECOVERY_MAX_ATTEMPTS
    Configs,          \* serial configurations
    InitConfig,       \* the one port_runtime_init is given
    NoConfig          \* the all-zero one port_runtime_init leaves staged

ASSUME RuntimeAssumption ==
    /\ MaxId \in Nat
    /\ QueueCapacity \in Nat
    /\ QueueBytesMax \in Nat
    /\ Lengths \subseteq Nat \ {0}
    /\ QueueTimeout \in Nat /\ ResponseTimeout \in Nat
    /\ StateTimeout \in Nat /\ RecoveryDelay \in Nat
    /\ MaxAttempts \in Nat \ {0}
    /\ InitConfig \in Configs /\ NoConfig \notin Configs

VARIABLES
    state,      \* port->state
    queue,      \* port->queue.entries, oldest first
    bytes,      \* port->queue.bytes
    active,     \* port->active
    hasActive,  \* port->has_active
    generation, \* port->generation
    nextId,     \* port->next_transaction_id
    stateLeft,  \* port->state_deadline, as ticks left
    attempts,   \* port->recovery_attempts
    current, staged, knownGood,  \* the three configurations
    refused,    \* a transition was refused: stats.illegal_transitions > 0
    inflight,   \* backend: what it was handed and may still end with a final event
    accepted,   \* history: ids that submit returned CORE_ACCEPTED for
    answers     \* history: what the completion callback was told, by id

queueVars  == <<queue, bytes>>
activeVars == <<active, hasActive, generation>>
configVars == <<current, staged, knownGood>>
clientVars == <<accepted, nextId>>
vars == <<state, queueVars, activeVars, stateLeft, attempts, configVars,
          refused, inflight, clientVars, answers>>

-----------------------------------------------------------------------------
States == {"DISABLED", "STARTING", "READY", "ACTIVE", "WAITING", "RECOVERING",
           "DEGRADED", "RECONFIGURING", "STOPPING", "ERROR"}

FinalStatus == {"COMPLETED", "TIMED_OUT", "CANCELLED", "FAILED", "MALFORMED"}

Ids == 1..MaxId

Transaction == [id: 0..MaxId, length: Nat, left: Nat, gen: Nat, sent: BOOLEAN]

NoTransaction == [id |-> 0, length |-> 0, left |-> 0, gen |-> 0, sent |-> FALSE]

\* What backend->start is given: the generation, which is all that an event of
\* the backend names, and, for the properties, the request that it was for.
Work == [gen: Nat, id: 0..MaxId]

Handed(t) == [gen |-> t.gen, id |-> t.id]

\* One call of the completion callback: the status, and the request that the
\* backend worked for when it produced the event behind it (0: no event).
Answer == [status: FinalStatus, event: 0..MaxId]

\* Fault: no edge leads to DEGRADED.
AllowedNoDegraded(from) == States \ {"DEGRADED"}

Allowed(from) ==
    CASE from = "DISABLED"      -> {"STARTING"}
      [] from = "STARTING"      -> {"READY", "RECOVERING", "STOPPING", "ERROR"}
      [] from = "READY"         -> {"ACTIVE", "RECOVERING", "RECONFIGURING", "STOPPING"}
      [] from = "ACTIVE"        -> {"WAITING", "RECOVERING", "RECONFIGURING", "STOPPING"}
      [] from = "WAITING"       -> {"READY", "RECOVERING", "RECONFIGURING", "STOPPING"}
      [] from = "RECOVERING"    -> {"READY", "DEGRADED", "RECONFIGURING", "STOPPING", "ERROR"}
      [] from = "DEGRADED"      -> {"RECOVERING", "RECONFIGURING", "STOPPING", "ERROR"}
      [] from = "RECONFIGURING" -> {"READY", "STOPPING", "ERROR"}
      [] from = "STOPPING"      -> {"DISABLED", "ERROR"}
      [] from = "ERROR"         -> {"STARTING", "STOPPING", "DISABLED"}

\* port_runtime_transition: a refused transition leaves the state and is
\* counted; no caller inside the runtime looks at the result.
Goto(next) ==
    IF next \in Allowed(state)
    THEN state' = next /\ UNCHANGED refused
    ELSE refused' = TRUE /\ UNCHANGED state

-----------------------------------------------------------------------------
(* Requests: waiting in the queue, or active. *)
Queued == {queue[j].id : j \in DOMAIN queue}

Pending == Queued \cup (IF hasActive THEN {active.id} ELSE {})

\* Fault: who waited too long is dropped without a word.
NotifyNoTimeout(S, status, event) ==
    answers' = [i \in Ids |->
                  IF i \in S /\ status # "TIMED_OUT"
                  THEN Append(answers[i], [status |-> status, event |-> event])
                  ELSE answers[i]]

\* notify_completion for every transaction of S.
Notify(S, status, event) ==
    answers' = [i \in Ids |->
                  IF i \in S
                  THEN Append(answers[i], [status |-> status, event |-> event])
                  ELSE answers[i]]

ClearActive == active' = NoTransaction /\ hasActive' = FALSE

\* backend->cancel when `pending` is what still has an event to come.
CancelBackend(pending) ==
    inflight' \in IF hasActive THEN {pending, pending \ {Handed(active)}} ELSE {pending}

\* Fault: a deadline counts only once the request has left.
ExpiredIfSent(t) == t.left = 0 /\ t.sent

Expired(t) == t.left = 0

Less(ticks) == IF ticks > 0 THEN ticks - 1 ELSE 0

\* What queue->bytes counts.
TotalLength(s) ==
    LET sum[n \in 0..Len(s)] == IF n = 0 THEN 0 ELSE sum[n - 1] + s[n].length
    IN  sum[Len(s)]

\* Fault: the new entry is stored at the head index.
PushedAtHead(t) == <<t>> \o queue

\* queue_push
Pushed(t) == Append(queue, t)

\* Fault: the limit is compared with what is queued already.
FitsBefore(length) == Len(queue) < QueueCapacity /\ bytes < QueueBytesMax

TotalFits(length) == Len(queue) < QueueCapacity /\ bytes + length <= QueueBytesMax

-----------------------------------------------------------------------------
Init ==
    /\ state = "DISABLED"
    /\ queue = <<>> /\ bytes = 0
    /\ active = NoTransaction /\ hasActive = FALSE /\ generation = 0
    /\ nextId = 1
    /\ stateLeft = 0 /\ attempts = 0
    /\ current = InitConfig /\ staged = NoConfig /\ knownGood = InitConfig
    /\ refused = FALSE
    /\ inflight = {}
    /\ accepted = {}
    /\ answers = [i \in Ids |-> <<>>]

\* port_runtime_start.
Start ==
    /\ "STARTING" \in Allowed(state)
    /\ Goto("STARTING")
    /\ stateLeft' = StateTimeout
    /\ UNCHANGED <<queueVars, activeVars, attempts, configVars, inflight,
                   clientVars, answers>>

\* port_runtime_submit_operation, in the states that take requests.  The id is
\* consumed before the queue is asked, so a full queue costs one.
Submit(length) ==
    /\ state \in {"READY", "ACTIVE", "WAITING"}
    /\ nextId <= MaxId
    /\ nextId' = nextId + 1
    /\ IF TotalFits(length)
       THEN /\ queue' = Pushed([id |-> nextId, length |-> length,
                                left |-> QueueTimeout, gen |-> 0, sent |-> FALSE])
            /\ bytes' = bytes + length
            /\ accepted' = accepted \cup {nextId}
       ELSE UNCHANGED <<queueVars, accepted>>
    /\ UNCHANGED <<state, activeVars, stateLeft, attempts, configVars, refused,
                   inflight, answers>>

-----------------------------------------------------------------------------
\* Fault: the deadline is what the last state left of it.
EnterUnarmed == attempts' = 0 /\ UNCHANGED stateLeft /\ Goto("RECOVERING")

EnterRecovery == attempts' = 0 /\ stateLeft' = RecoveryDelay /\ Goto("RECOVERING")

\* begin_recovery: drop the active transaction and give the line time to fall
\* silent.  The queue is kept: its requests are to be served afterwards.
BeginRecovery(pending) ==
    /\ CancelBackend(pending)
    /\ ClearActive
    /\ EnterRecovery

\* Fault: the queue is walked but not emptied.
DropAllKeepQueue ==
    /\ CancelBackend(inflight)
    /\ Notify(Pending, "CANCELLED", 0)
    /\ ClearActive
    /\ UNCHANGED queueVars

\* flush_queue, together with the cancellation of the active transaction.
DropAll ==
    /\ CancelBackend(inflight)
    /\ Notify(Pending, "CANCELLED", 0)
    /\ ClearActive
    /\ queue' = <<>> /\ bytes' = 0

\* port_runtime_cancel_active
CancelActive ==
    /\ hasActive
    /\ Notify({active.id}, "CANCELLED", 0)
    /\ BeginRecovery(inflight)
    /\ UNCHANGED <<queueVars, generation, configVars, clientVars>>

\* port_runtime_detach_listener: the listener goes away, its callbacks must not
\* be called later.
DetachListener ==
    /\ DropAll
    /\ IF hasActive
       THEN EnterRecovery
       ELSE UNCHANGED <<state, refused, attempts, stateLeft>>
    /\ UNCHANGED <<generation, configVars, clientVars>>

\* port_runtime_report_io_failure
ReportIoFailure ==
    /\ state = "READY" /\ ~hasActive /\ queue = <<>>
    /\ BeginRecovery(inflight)
    /\ UNCHANGED <<queueVars, generation, configVars, clientVars, answers>>

\* port_runtime_request_reconfigure
RequestReconfigure(config) ==
    /\ state \in {"READY", "ACTIVE", "WAITING", "RECOVERING", "DEGRADED"}
    /\ DropAll
    /\ knownGood' = current
    /\ staged' = config
    /\ stateLeft' = StateTimeout
    /\ Goto("RECONFIGURING")
    /\ UNCHANGED <<generation, attempts, current, clientVars>>

\* port_runtime_request_stop
RequestStop ==
    /\ state \notin {"DISABLED", "STOPPING"}
    /\ DropAll
    /\ stateLeft' = StateTimeout
    /\ Goto("STOPPING")
    /\ UNCHANGED <<generation, attempts, configVars, clientVars>>

-----------------------------------------------------------------------------
(* port_runtime_step, one action per state it is called in. *)

\* PORT_STARTING: backend->open succeeds, or fails once more after the deadline.
Opened ==
    /\ state = "STARTING"
    /\ attempts' = 0
    /\ Goto("READY")
    /\ UNCHANGED <<queueVars, activeVars, stateLeft, configVars, inflight,
                   clientVars, answers>>

OpenGivenUp ==
    /\ state = "STARTING" /\ stateLeft = 0
    /\ BeginRecovery(inflight)
    /\ UNCHANGED <<queueVars, generation, configVars, clientVars, answers>>

\* Fault: a generation is used again by whoever comes next.
SameGeneration == IF generation = 0 THEN 1 ELSE generation

NextGeneration == generation + 1

\* PORT_READY: requests that waited too long are answered and popped, up to the
\* first that did not; that one becomes active under a new generation.
StepReady ==
    /\ state = "READY"
    /\ queue # <<>>
    /\ \E k \in 0..Len(queue) :
         /\ \A j \in 1..k : Expired(queue[j])
         /\ k < Len(queue) => ~Expired(queue[k + 1])
         /\ Notify({queue[j].id : j \in 1..k}, "TIMED_OUT", 0)
         /\ IF k = Len(queue)
            THEN /\ queue' = <<>> /\ bytes' = bytes - TotalLength(queue)
                 /\ ClearActive
                 /\ UNCHANGED <<state, refused, generation>>
            ELSE /\ queue' = SubSeq(queue, k + 2, Len(queue))
                 /\ bytes' = bytes - TotalLength(SubSeq(queue, 1, k + 1))
                 /\ hasActive' = TRUE
                 /\ generation' = NextGeneration
                 /\ active' = [queue[k + 1] EXCEPT !.gen = NextGeneration,
                                                   !.left = ResponseTimeout]
                 /\ Goto("ACTIVE")
    /\ UNCHANGED <<stateLeft, attempts, configVars, inflight, clientVars>>

\* PORT_ACTIVE: hand the request to the backend.
StepActive ==
    /\ state = "ACTIVE"
    /\ \/ /\ Goto("WAITING")                      \* backend->start succeeds
          /\ inflight' = inflight \cup {Handed(active)}
          /\ UNCHANGED <<active, hasActive, stateLeft, attempts, answers>>
       \/ /\ Notify({active.id}, "FAILED", 0)
          /\ BeginRecovery(inflight)
    /\ UNCHANGED <<queueVars, generation, configVars, clientVars>>

\* step_waiting, when poll reports that the request has left: only once for a
\* generation, and only for the one the backend works on.
WaitingTransmitted ==
    /\ state = "WAITING" /\ ~active.sent /\ Handed(active) \in inflight
    /\ active' = [active EXCEPT !.sent = TRUE]
    /\ UNCHANGED <<state, queueVars, hasActive, generation, stateLeft, attempts,
                   configVars, refused, inflight, clientVars, answers>>

\* Fault: the generation of the event is not compared.
AnyEvent(e) == TRUE

OwnEvent(e) == e.gen = active.gen

\* step_waiting, when poll reports a final event of another generation.
WaitingStale ==
    /\ state = "WAITING"
    /\ \E e \in inflight : ~OwnEvent(e) /\ inflight' = inflight \ {e}
    /\ UNCHANGED <<state, queueVars, activeVars, stateLeft, attempts, configVars,
                   refused, clientVars, answers>>

\* step_waiting, on a final event of the active generation.
WaitingResponse(e) ==
    /\ state = "WAITING" /\ e \in inflight /\ OwnEvent(e)
    /\ Notify({active.id}, "COMPLETED", e.id)
    /\ ClearActive
    /\ inflight' = inflight \ {e}
    /\ Goto("READY")
    /\ UNCHANGED <<queueVars, generation, stateLeft, attempts, configVars, clientVars>>

WaitingFailure(e, status) ==
    /\ state = "WAITING" /\ e \in inflight /\ OwnEvent(e)
    /\ Notify({active.id}, status, e.id)
    /\ BeginRecovery(inflight \ {e})
    /\ UNCHANGED <<queueVars, generation, configVars, clientVars>>

\* step_waiting, when poll reports nothing and the response deadline has passed.
WaitingTimeout ==
    /\ state = "WAITING" /\ Expired(active)
    /\ Notify({active.id}, "TIMED_OUT", 0)
    /\ BeginRecovery(inflight)
    /\ UNCHANGED <<queueVars, generation, configVars, clientVars>>

StepWaiting ==
    \/ WaitingTransmitted
    \/ WaitingStale
    \/ \E e \in inflight : WaitingResponse(e)
    \/ \E e \in inflight, status \in {"MALFORMED", "FAILED"} : WaitingFailure(e, status)
    \/ WaitingTimeout

\* PORT_RECOVERING: an event that arrives is read and thrown away; when the delay
\* is over the backend is asked to recover, MaxAttempts times at most.
DiscardEvent == inflight' \in {inflight} \cup {inflight \ {e} : e \in inflight}

RecoverDelayed ==
    /\ state = "RECOVERING" /\ stateLeft > 0
    /\ DiscardEvent
    /\ UNCHANGED <<state, queueVars, activeVars, stateLeft, attempts, configVars,
                   refused, clientVars, answers>>

Recovered ==
    /\ state = "RECOVERING" /\ stateLeft = 0
    /\ DiscardEvent
    /\ attempts' = 0
    /\ Goto("READY")
    /\ UNCHANGED <<queueVars, activeVars, stateLeft, configVars, clientVars, answers>>

\* Fault: one attempt too many.
LateAttempt == attempts >= MaxAttempts

LastAttempt == attempts + 1 >= MaxAttempts

RecoverFailed ==
    /\ state = "RECOVERING" /\ stateLeft = 0
    /\ DiscardEvent
    /\ attempts' = attempts + 1
    /\ IF LastAttempt
       THEN Goto("DEGRADED") /\ UNCHANGED stateLeft
       ELSE stateLeft' = RecoveryDelay /\ UNCHANGED <<state, refused>>
    /\ UNCHANGED <<queueVars, activeVars, configVars, clientVars, answers>>

\* Fault: the known good configuration is forgotten.
TakeOverHalf == current' = staged /\ UNCHANGED knownGood

TakeOver == current' = staged /\ knownGood' = staged

\* PORT_RECONFIGURING: apply the staged configuration, else the known good one;
\* after the deadline only the known good one.
StepReconfiguring ==
    /\ state = "RECONFIGURING"
    /\ \/ /\ stateLeft > 0
          /\ TakeOver
          /\ Goto("READY")
       \/ Goto("READY") /\ UNCHANGED <<current, knownGood>>
       \/ Goto("ERROR") /\ UNCHANGED <<current, knownGood>>
    /\ UNCHANGED <<queueVars, activeVars, stateLeft, attempts, staged, inflight,
                   clientVars, answers>>

\* PORT_STOPPING: backend->stop succeeds, or fails once more after the deadline.
Stopped ==
    /\ state = "STOPPING"
    /\ Goto("DISABLED")
    /\ UNCHANGED <<queueVars, activeVars, stateLeft, attempts, configVars, inflight,
                   clientVars, answers>>

\* Fault: a stop that fails is retried for ever.
StopNeverGivenUp == FALSE

StopGivenUp ==
    /\ state = "STOPPING" /\ stateLeft = 0
    /\ Goto("ERROR")
    /\ UNCHANGED <<queueVars, activeVars, stateLeft, attempts, configVars, inflight,
                   clientVars, answers>>

Step ==
    \/ Opened \/ OpenGivenUp
    \/ StepReady \/ StepActive \/ StepWaiting
    \/ RecoverDelayed \/ Recovered \/ RecoverFailed
    \/ StepReconfiguring
    \/ Stopped \/ StopGivenUp

\* One tick of the monotonic clock.
Tick ==
    /\ stateLeft > 0 \/ active.left > 0 \/ \E j \in DOMAIN queue : queue[j].left > 0
    /\ stateLeft' = Less(stateLeft)
    /\ active' = [active EXCEPT !.left = Less(@)]
    /\ queue' = [j \in DOMAIN queue |-> [queue[j] EXCEPT !.left = Less(@)]]
    /\ UNCHANGED <<state, bytes, hasActive, generation, attempts, configVars,
                   refused, inflight, clientVars, answers>>

\* The calls of the controller and of the listener.
Call ==
    \/ Start
    \/ \E length \in Lengths : Submit(length)
    \/ CancelActive
    \/ DetachListener
    \/ ReportIoFailure
    \/ \E config \in Configs : RequestReconfigure(config)
    \/ RequestStop

Next == Call \/ Step \/ Tick

Spec == Init /\ [][Next]_vars

\* What port_runtime_step does when the line is silent and the device's calls
\* keep failing.  The loop steps the port again and again, so these happen
\* unless something better does; no success of the device is assumed.
StepUnaided ==
    \/ OpenGivenUp \/ StepReady \/ StepActive \/ WaitingTimeout \/ RecoverFailed
    \/ StepReconfiguring \/ StopGivenUp

FairSpec == Spec /\ WF_vars(StepUnaided) /\ WF_vars(Tick)

-----------------------------------------------------------------------------
(* Properties *)

TypeOK ==
    /\ state \in States
    /\ queue \in Seq(Transaction)
    /\ active \in Transaction
    /\ hasActive \in BOOLEAN
    /\ generation \in Nat
    /\ nextId \in 1..(MaxId + 1)
    /\ stateLeft \in Nat
    /\ attempts \in 0..MaxAttempts
    /\ current \in Configs /\ knownGood \in Configs
    /\ staged \in Configs \cup {NoConfig}
    /\ refused \in BOOLEAN
    /\ inflight \subseteq Work
    /\ accepted \subseteq Ids
    /\ answers \in [Ids -> Seq(Answer)]

\* The completion callback of a request is called at most once: a listener that
\* was told twice would answer a client's next request with the old result
\* (notify_completion runs before the transaction is cleared, and flush_queue,
\* cancel and recovery can follow one another).
AnsweredOnce == \A i \in Ids : Len(answers[i]) <= 1

\* A request is either still held by the port or its completion was called: the
\* paths that clear the active transaction or empty the queue forget nobody.
NothingForgotten ==
    \A i \in Ids : answers[i] = <<>> <=> i \notin accepted \/ i \in Pending

\* A request is answered once, and as soon as the port does not hold it any more.
AnsweredExactlyOnce == AnsweredOnce /\ NothingForgotten

\* Hazard: the backend still works for a request that was cancelled, timed out or
\* flushed when the next one is handed to it, and its events name a generation
\* only.  Nobody is told that it is completed, or is malformed, by what the backend
\* did for another request: that rests on the comparison in step_waiting and on no
\* generation being given to a second request, whatever came between.
AnsweredByOwnEvent ==
    \A i \in Ids : \A n \in DOMAIN answers[i] :
        LET a == answers[i][n]
        IN  \/ a.event = i
            \/ a.event = 0 /\ a.status \notin {"COMPLETED", "MALFORMED"}

\* The queue holds requests only in states whose step, recovery or stop will
\* get to them; submit and every flush keep it empty elsewhere.
QueueOnlyWhereServed ==
    queue # <<>> => state \in {"READY", "ACTIVE", "WAITING", "RECOVERING", "DEGRADED"}

\* has_active goes with the states ACTIVE and WAITING, the active request runs
\* under the newest generation, and no handler asks for a transition that
\* port_runtime_transition refuses: its result is ignored, so a refusal would
\* leave the port in a state that does not fit its data.
LifecycleConsistent ==
    /\ hasActive <=> state \in {"ACTIVE", "WAITING"}
    /\ hasActive => active.gen = generation /\ generation > 0
    /\ ~refused

\* Requests are pending in the order their ids were given out, all older than
\* the next id: popping the head serves the oldest.
PendingInOrder ==
    /\ \A j, k \in DOMAIN queue : j < k => queue[j].id < queue[k].id
    /\ \A j \in DOMAIN queue : queue[j].id \in accepted /\ queue[j].id < nextId
    /\ hasActive => /\ active.id \in accepted /\ active.id < nextId
                    /\ \A j \in DOMAIN queue : active.id < queue[j].id

\* queue->bytes is the total length of the queued payloads and both limits
\* hold, over every push, pop and flush.
QueueAccounted ==
    /\ bytes = TotalLength(queue)
    /\ bytes <= QueueBytesMax /\ Len(queue) <= QueueCapacity

\* The queue over every push, pop and flush: its order, its limits, and that it is
\* empty where nobody gets to it.
QueueIsKept == PendingInOrder /\ QueueAccounted /\ QueueOnlyWhereServed

\* The configuration a failed reconfiguration falls back to is the one the port
\* ran before it.
FallbackIsCurrent == knownGood = current

\* DEGRADED is reached only by MaxAttempts failed recoveries in a row.
DegradedAfterAllAttempts ==
    /\ state = "DEGRADED" => attempts = MaxAttempts
    /\ state = "RECOVERING" => attempts < MaxAttempts

\* Whatever fails, the life cycle, what is active, the configuration to fall back to
\* and the count of recoveries agree.
FailuresAreSound == LifecycleConsistent /\ FallbackIsCurrent /\ DegradedAfterAllAttempts

\* A request that reached the line and did not complete is followed by a
\* recovery, a reconfiguration or a stop, never directly by the next request; and
\* a recovery lasts: it starts with the whole delay, of which only the clock takes
\* anything, a tick at a time, and the port serves again when nothing is left of it.
BarrierAfterFailure ==
    [][ /\ hasActive /\ active'.id # active.id =>
            \/ state' \in {"RECONFIGURING", "STOPPING"}
            \/ state' = "RECOVERING" /\ stateLeft' = RecoveryDelay
            \/ /\ state' = "READY"
               /\ answers'[active.id] # <<>>
               /\ answers'[active.id][1].status = "COMPLETED"
        /\ state = "RECOVERING" =>
            /\ state' = "READY" => stateLeft = 0
            /\ state' = "RECOVERING" /\ stateLeft' < stateLeft =>
                  stateLeft' = stateLeft - 1 /\ UNCHANGED <<inflight, attempts, answers>> ]_vars

\* The port implements RequestService: one final status each, oldest first.
Fate == [i \in Ids |->
           IF i \notin accepted THEN "unused"
           ELSE IF answers[i] = <<>> THEN "pending"
           ELSE answers[i][Len(answers[i])].status]

Service == INSTANCE RequestService WITH fate <- Fate

ServesRequests == Service!Spec

\* To its controller the port is a PortLife: states and configurations change by
\* the steps listed there only, whatever the requests, the line and time do.
Life == INSTANCE PortLife
    WITH life <- [state |-> state, current |-> current, staged |-> staged,
                  knownGood |-> knownGood]

FollowsLife == Life!Spec

\* Every accepted request is answered unless the port gives up on its line: a
\* DEGRADED port serves nobody and checks no queue deadline, until it is
\* reconfigured, detached or stopped.
AnsweredUnlessDegraded ==
    \A i \in Ids : i \in accepted ~> (answers[i] # <<>> \/ state = "DEGRADED")

\* No transient state lasts: each has a deadline or a bounded number of tries.
TransientStatesEnd ==
    \A s \in {"STARTING", "ACTIVE", "WAITING", "RECOVERING", "RECONFIGURING", "STOPPING"} :
        state = s ~> state # s
=============================================================================
