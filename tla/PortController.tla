---------------------------- MODULE PortController ----------------------------
(***************************************************************************)
(* One port of the gateway controller (src/gateway/gateway_controller.c):  *)
(* it starts, reconfigures and stops the port's runtime, and starts and    *)
(* stops the network listener that feeds it.  The runtime is PortLife,     *)
(* which PortRuntime implements; the UART backend is what it last applied. *)
(*                                                                         *)
(* The calls come from the application: a configuration edited by the      *)
(* user, its rollback, a new address of the interface, the loss of the     *)
(* address, and the shutdown.                                              *)
(***************************************************************************)
EXTENDS Integers

CONSTANTS
    Serials,        \* UART settings, transport and endpoint port of a configuration
    Binds,          \* bind addresses
    MaxRevision,    \* model bound: the user edits a port MaxRevision - 1 times
    NoConfig,       \* no listener, and an all-zero staged configuration
    Failures,       \* the calls that may fail: "device", "apply", "listener", "close"
    Mishaps         \* the values of mishaps

ASSUME ControllerAssumption ==
    /\ MaxRevision \in Nat \ {0}
    /\ Failures \subseteq {"device", "apply", "listener", "close"}
    /\ Mishaps \subseteq SUBSET {"switch", "rollback"}

Revisions == 1..MaxRevision

Config == [enabled: BOOLEAN, serial: Serials, bind: Binds, revision: Revisions]

CoreConfig == [serial: Serials, revision: Revisions]

ASSUME NoConfigAssumption == NoConfig \notin Config \cup CoreConfig

\* core_config
Core(config) == [serial |-> config.serial, revision |-> config.revision]

VARIABLES
    mishaps,        \* what else this port may meet: "switch", the user also disables and
                    \* enables it; "rollback", applying an old configuration may fail
    phase,          \* of the coordinator: "boot", "running" or "closing"
    lifecycle,      \* p->lifecycle
    lastError,      \* p->last_error
    current, staged, knownGood,
    life,           \* p->runtime
    listener,       \* the configuration the listener was started at; NoConfig: not owned
    pendingDisable, rebind, networkWait,
    uart            \* uart->config: what the backend applied last, also after a stop

configVars == <<current, staged, knownGood>>
flagVars   == <<pendingDisable, rebind, networkWait>>
vars == <<mishaps, phase, lifecycle, lastError, configVars, life, listener, flagVars, uart>>

Runtime == INSTANCE PortLife WITH Configs <- CoreConfig

Lifecycles == {"DISABLED", "STARTING", "READY", "RECONFIGURING", "ROLLING_BACK",
               "STOPPING", "DEGRADED", "ERROR", "NETWORK_WAIT"}

Errors == {"NONE", "BACKEND_START", "LISTENER_START", "RECONFIGURE", "ROLLBACK", "STOP"}

-----------------------------------------------------------------------------
(* The listener. *)

May(call) == call \in Failures

\* transport_start_at
ListenerStarts(config) == listener' = config

ListenerFails == May("listener") /\ UNCHANGED listener

\* Fault: the listener is not stopped.
ListenerKept == UNCHANGED listener

\* transport_stop; true also when there is nothing to stop.
ListenerStops == listener' = NoConfig

ListenerHangs == May("close") /\ listener # NoConfig /\ UNCHANGED listener

-----------------------------------------------------------------------------
(* The runtime within step_port. *)

\* What the listener's step and port_runtime_step make of the runtime.  Only a
\* listener submits requests or reports a failure of its line.
Stepped ==
    LET before == {life} \cup (IF listener # NoConfig /\ life.state = "READY"
                               THEN {Runtime!In(life, "RECOVERING")} ELSE {})
    IN  {q \in UNION {Runtime!AfterStep(p) : p \in before} :
           /\ q.state = "ACTIVE" => listener # NoConfig
           /\ q.state \in {"RECOVERING", "DEGRADED", "ERROR"} =>
                 q.state = life.state \/ May("device") \/ life.state = "RECONFIGURING"
           /\ life.state = "RECONFIGURING" =>
                 \/ q.state = "READY" /\ q.current = life.staged
                 \/ May("apply") /\ (lifecycle = "ROLLING_BACK" => "rollback" \in mishaps)}

\* What the backend applied during the step: the staged configuration, or the
\* known good one, which is the runtime's current one.
Applied(q) ==
    uart' = IF life.state = "RECONFIGURING" /\ q.state = "READY" THEN q.current ELSE uart

-----------------------------------------------------------------------------
Init ==
    /\ phase = "boot" /\ mishaps \in Mishaps
    /\ lifecycle = "DISABLED" /\ lastError = "NONE"
    /\ current \in {c \in Config : c.revision = 1 /\ (c.enabled \/ "switch" \in mishaps)}
    /\ staged = NoConfig /\ knownGood = current
    /\ life = Runtime!Fresh(Core(current))
    /\ listener = NoConfig
    /\ pendingDisable = FALSE /\ rebind = FALSE /\ networkWait = FALSE
    /\ uart = Core(current)

\* gateway_controller_start
Start ==
    /\ phase = "boot" /\ phase' = "running"
    /\ IF current.enabled
       THEN life' = Runtime!In(life, "STARTING") /\ lifecycle' = "STARTING"
       ELSE UNCHANGED <<life, lifecycle>>
    /\ UNCHANGED <<mishaps, lastError, configVars, listener, flagVars, uart>>

-----------------------------------------------------------------------------
(* step_port: the runtime steps to q and the controller follows. *)

Follow(q, next) == life' = q /\ lifecycle' = next

\* start_listener_or_fail
StartListenerOrFail(q, error) ==
    \/ networkWait /\ Follow(q, "NETWORK_WAIT") /\ lastError' = error /\ UNCHANGED listener
    \/ ~networkWait /\ ListenerStarts(current) /\ Follow(q, "READY") /\ lastError' = "NONE"
    \/ /\ ~networkWait /\ ListenerFails /\ lastError' = "LISTENER_START"
       /\ Follow(Runtime!In(q, "STOPPING"), "STOPPING")

StepStarting(q) ==
    /\ lifecycle = "STARTING"
    /\ CASE q.state = "READY" -> StartListenerOrFail(q, lastError)
         [] q.state \in {"DEGRADED", "ERROR"} ->
              Follow(q, "ERROR") /\ lastError' = "BACKEND_START" /\ UNCHANGED listener
         [] OTHER -> Follow(q, lifecycle) /\ UNCHANGED <<lastError, listener>>
    /\ UNCHANGED <<configVars, flagVars>>

StepReady(q) ==
    /\ lifecycle = "READY"
    /\ Follow(q, IF q.state \in {"DEGRADED", "ERROR"} THEN "DEGRADED" ELSE "READY")
    /\ UNCHANGED <<lastError, configVars, listener, flagVars>>

\* Fault: the listener moves, the configuration is not taken over.
TakeOverForgotten == current' = current /\ knownGood' = staged

\* The staged configuration is the port's from now on.
TakeOver == current' = staged /\ knownGood' = staged

\* Fault: the flag stays set.
RebindKept == UNCHANGED rebind

\* listener_rebind is cleared when the move is over.
RebindDone == rebind' = (lifecycle' = "RECONFIGURING")

\* Only the listener moves; the runtime gets the new revision.
StepRebind(q) ==
    /\ lifecycle = "RECONFIGURING" /\ rebind
    /\ CASE q.state = "READY" ->
              \/ /\ networkWait /\ Follow(q, "NETWORK_WAIT")
                 /\ UNCHANGED <<lastError, configVars, listener>>
              \/ /\ ~networkWait /\ ListenerStarts(staged) /\ TakeOver
                 /\ Follow([q EXCEPT !.current.revision = staged.revision,
                                     !.knownGood.revision = staged.revision], "READY")
                 /\ lastError' = "NONE" /\ UNCHANGED staged
              \/ /\ ~networkWait /\ May("listener") /\ lastError' = "LISTENER_START"
                 /\ \/ ListenerStarts(current) /\ Follow(q, "READY")
                    \/ ListenerFails /\ Follow(q, "ERROR")
                 /\ UNCHANGED configVars
         [] q.state \in {"ERROR", "DEGRADED"} ->
              Follow(q, "ERROR") /\ lastError' = "RECONFIGURE" /\ UNCHANGED <<configVars, listener>>
         [] OTHER -> Follow(q, lifecycle) /\ UNCHANGED <<lastError, configVars, listener>>
    /\ RebindDone
    /\ UNCHANGED <<pendingDisable, networkWait>>

\* Fault: any configuration the runtime is ready with counts as the staged one.
AnyRevision(q) == TRUE

\* The runtime runs the staged configuration and did not fall back.
TookStaged(q) == q.current.revision = staged.revision

\* The runtime applies the staged configuration, then the listener moves to it.
StepReconfiguring(q) ==
    /\ lifecycle = "RECONFIGURING" /\ ~rebind
    /\ CASE q.state = "READY" /\ ~TookStaged(q) ->
              StartListenerOrFail(q, "RECONFIGURE") /\ UNCHANGED configVars
         [] q.state = "READY" /\ TookStaged(q) ->
              \/ /\ networkWait /\ TakeOver /\ Follow(q, "NETWORK_WAIT")
                 /\ lastError' = "NONE" /\ UNCHANGED <<staged, listener>>
              \/ /\ ~networkWait /\ ListenerStarts(staged) /\ TakeOver
                 /\ Follow(q, "READY") /\ lastError' = "NONE" /\ UNCHANGED staged
              \/ /\ ~networkWait /\ ListenerFails /\ lastError' = "LISTENER_START"
                 /\ Follow(Runtime!Reconfigured(q, Core(knownGood)), "ROLLING_BACK")
                 /\ UNCHANGED configVars
         [] q.state = "ERROR" ->
              Follow(q, "ERROR") /\ lastError' = "ROLLBACK" /\ UNCHANGED <<configVars, listener>>
         [] OTHER -> Follow(q, lifecycle) /\ UNCHANGED <<lastError, configVars, listener>>
    /\ UNCHANGED flagVars

StepRollingBack(q) ==
    /\ lifecycle = "ROLLING_BACK"
    /\ CASE q.state = "READY" ->
              \/ networkWait /\ Follow(q, "NETWORK_WAIT") /\ UNCHANGED listener
              \/ ~networkWait /\ ListenerStarts(current) /\ Follow(q, "READY")
              \/ ~networkWait /\ ListenerFails /\ Follow(q, "ERROR")
         [] q.state = "ERROR" -> Follow(q, "ERROR") /\ UNCHANGED listener
         [] OTHER -> Follow(q, lifecycle) /\ UNCHANGED listener
    /\ UNCHANGED <<lastError, configVars, flagVars>>

\* Fault: a runtime that cannot stop is waited for.
StopFailedIgnored(q) == FALSE

StopFailed(q) == q.state = "ERROR"

StepStopping(q) ==
    /\ lifecycle = "STOPPING"
    /\ CASE q.state = "DISABLED" /\ pendingDisable ->
              Follow(q, "DISABLED") /\ TakeOver /\ UNCHANGED <<lastError, staged>>
         [] q.state = "DISABLED" /\ ~pendingDisable ->
              Follow(q, IF lastError = "NONE" THEN "DISABLED" ELSE "ERROR")
              /\ UNCHANGED <<lastError, configVars>>
         [] StopFailed(q) ->
              Follow(q, "ERROR") /\ lastError' = "STOP" /\ UNCHANGED configVars
         [] OTHER -> Follow(q, lifecycle) /\ UNCHANGED <<lastError, configVars>>
    /\ pendingDisable' = (pendingDisable /\ q.state # "DISABLED")
    /\ UNCHANGED <<listener, rebind, networkWait>>

\* Nothing to follow in the other lifecycles.
StepIdle(q) ==
    /\ lifecycle \in {"DISABLED", "DEGRADED", "ERROR", "NETWORK_WAIT"}
    /\ Follow(q, lifecycle)
    /\ UNCHANGED <<lastError, configVars, listener, flagVars>>

StepPort ==
    /\ phase # "boot" /\ UNCHANGED <<mishaps, phase>>
    /\ \E q \in Stepped :
         /\ Applied(q)
         /\ \/ StepStarting(q) \/ StepReady(q) \/ StepRebind(q) \/ StepReconfiguring(q)
            \/ StepRollingBack(q) \/ StepStopping(q) \/ StepIdle(q)

-----------------------------------------------------------------------------
(* gateway_controller_reconfigure, in the lifecycles that take it. *)

Accepts == phase = "running" /\ lifecycle \in {"READY", "DISABLED", "NETWORK_WAIT"}

\* The listener of a port to be changed does not stop: the change is refused.
Refuse ==
    /\ Accepts /\ lifecycle # "DISABLED"
    /\ ListenerHangs
    /\ lastError' = "STOP"
    /\ UNCHANGED <<mishaps, phase, lifecycle, configVars, life, flagVars, uart>>

DisableDisabled(config) ==
    /\ Accepts /\ lifecycle = "DISABLED" /\ ~config.enabled
    /\ current' = config
    /\ UNCHANGED <<mishaps, phase, lifecycle, lastError, staged, knownGood, life, listener,
                   flagVars, uart>>

\* Fault: the change begins without its configuration.
StageForgotten(config) == UNCHANGED staged

Stage(config) == staged' = config

Disable(config) ==
    /\ Accepts /\ lifecycle # "DISABLED" /\ ~config.enabled
    /\ ListenerStops
    /\ Stage(config) /\ pendingDisable' = TRUE
    /\ lastError' = "NONE"
    /\ life' = Runtime!In(life, "STOPPING") /\ lifecycle' = "STOPPING"
    /\ UNCHANGED <<mishaps, phase, current, knownGood, rebind, networkWait, uart>>

\* The runtime is initialised anew and started; the UART keeps what it had.
Enable(config) ==
    /\ Accepts /\ lifecycle = "DISABLED" /\ config.enabled
    /\ current' = config /\ knownGood' = config
    /\ life' = Runtime!In(Runtime!Fresh(Core(config)), "STARTING")
    /\ lifecycle' = "STARTING"
    /\ UNCHANGED <<mishaps, phase, lastError, staged, listener, flagVars, uart>>

\* Only the bind address, its policy or the revision differ.
OnlyRebinds(config) == config.enabled = current.enabled /\ config.serial = current.serial

Rebind(config) ==
    /\ Accepts /\ lifecycle # "DISABLED" /\ config.enabled /\ OnlyRebinds(config)
    /\ ListenerStops
    /\ life' = Runtime!Detached(life)
    /\ Stage(config) /\ rebind' = TRUE
    /\ lifecycle' = "RECONFIGURING"
    /\ UNCHANGED <<mishaps, phase, lastError, current, knownGood, pendingDisable, networkWait, uart>>

Reconfigure(config) ==
    /\ Accepts /\ lifecycle # "DISABLED" /\ config.enabled /\ ~OnlyRebinds(config)
    /\ Runtime!Reconfigurable(life)
    /\ ListenerStops
    /\ Stage(config)
    /\ lastError' = "NONE"
    /\ life' = Runtime!Reconfigured(life, Core(config)) /\ lifecycle' = "RECONFIGURING"
    /\ UNCHANGED <<mishaps, phase, current, knownGood, flagVars, uart>>

\* gateway_controller_network_wait
NetworkLost ==
    /\ phase = "running"
    /\ networkWait' = TRUE
    /\ \/ /\ lifecycle = "READY" /\ ListenerStops
          /\ life' = Runtime!Detached(life) /\ lifecycle' = "NETWORK_WAIT"
       \/ /\ lifecycle = "READY" => ListenerHangs
          /\ UNCHANGED <<lifecycle, life, listener>>
    /\ UNCHANGED <<mishaps, phase, lastError, configVars, pendingDisable, rebind, uart>>

NetworkBack ==
    /\ phase = "running" /\ networkWait
    /\ networkWait' = FALSE
    /\ UNCHANGED <<mishaps, phase, lifecycle, lastError, configVars, life, listener,
                   pendingDisable, rebind, uart>>

\* gateway_controller_shutdown; the coordinator calls it once.
Shutdown ==
    /\ phase = "running" /\ phase' = "closing"
    /\ \/ ListenerStops /\ lastError' = "NONE"
       \/ ListenerHangs /\ lastError' = "STOP"
    /\ IF Runtime!Stoppable(life)
       THEN life' = Runtime!In(life, "STOPPING") /\ lifecycle' = "STOPPING"
       ELSE UNCHANGED <<life, lifecycle>>
    /\ UNCHANGED <<mishaps, configVars, flagVars, uart>>

\* What the application asks for: an edit comes with the next revision, a new
\* interface address with the old one, a rollback with all of an older one.
Wanted ==
    {c \in Config :
       /\ c.revision = current.revision => c.serial = current.serial /\ c.enabled = current.enabled
       /\ c.revision <= current.revision + 1
       /\ c.enabled \/ "switch" \in mishaps}

Next ==
    \/ Start
    \/ StepPort
    \/ Refuse
    \/ \E config \in Wanted :
         \/ DisableDisabled(config) \/ Disable(config) \/ Enable(config)
         \/ Rebind(config) \/ Reconfigure(config)
    \/ NetworkLost \/ NetworkBack
    \/ Shutdown

Spec == Init /\ [][Next]_vars

\* The loop steps every port again and again, and no transient state of the
\* runtime lasts (PortRuntime!TransientStatesEnd), whether the device works or not.
StepMoves == StepPort /\ <<life.state, lifecycle>>' # <<life.state, lifecycle>>

FairSpec == Spec /\ WF_vars(StepMoves)

-----------------------------------------------------------------------------
(* The port as the application sees it. *)

\* The lifecycle without the kinds of a change and of a failure, and what a change
\* is to take over.
AsSlot ==
    [life    |-> CASE lifecycle \in {"STARTING", "RECONFIGURING", "ROLLING_BACK"} -> "CHANGING"
                   [] lifecycle \in {"DEGRADED", "ERROR"} -> "DOWN"
                   [] OTHER -> lifecycle,
     current |-> current,
     target  |-> IF lifecycle = "RECONFIGURING" \/ pendingDisable THEN staged ELSE NoConfig,
     owned   |-> listener # NoConfig,
     wait    |-> networkWait]

Slot == INSTANCE PortSlot WITH Configs <- Config, slot <- AsSlot

-----------------------------------------------------------------------------
(* Properties *)

TypeOK ==
    /\ phase \in {"boot", "running", "closing"}
    /\ lifecycle \in Lifecycles /\ lastError \in Errors
    /\ current \in Config /\ knownGood \in Config /\ staged \in Config \cup {NoConfig}
    /\ life \in [state: Runtime!States, current: CoreConfig,
                 staged: CoreConfig \cup {NoConfig}, knownGood: CoreConfig]
    /\ listener \in Config \cup {NoConfig}
    /\ pendingDisable \in BOOLEAN /\ rebind \in BOOLEAN /\ networkWait \in BOOLEAN
    /\ uart \in CoreConfig

\* A listener that is open serves the configuration the port reports, whatever
\* mixture of failed binds, fallbacks, lost addresses and refused changes led
\* here: clients would otherwise reach a port under settings nobody configured.
ListenerServesCurrent ==
    listener # NoConfig =>
        current.enabled /\ listener.serial = current.serial /\ listener.bind = current.bind

\* A lifecycle promises what holds of the runtime, the listener and the flags: a READY
\* port is served by a listener and its runtime works; one that waits for its network
\* has none, and both can be reconfigured, so that the failure branch of
\* gateway_controller_reconfigure, which restarts the listener and ignores the
\* result, is never taken; a DISABLED port holds nothing.  listener_rebind and
\* pending_disable do not outlive the change they belong to: a stale one would make
\* the next reconfiguration skip the UART, or the next stop install an old staged
\* configuration.
LifecycleTold ==
    /\ TypeOK
    /\ lifecycle = "READY" =>
          listener # NoConfig /\ life.state \in {"READY", "ACTIVE", "WAITING", "RECOVERING"}
    /\ lifecycle = "NETWORK_WAIT" => listener = NoConfig /\ Runtime!Reconfigurable(life)
    /\ lifecycle = "DISABLED" => listener = NoConfig /\ life.state = "DISABLED"
    /\ phase # "closing" => /\ rebind => lifecycle = "RECONFIGURING"
                            /\ pendingDisable => lifecycle \in {"STOPPING", "ERROR"}

\* The UART of a READY port was last given the serial settings of the port's
\* configuration.
UartRunsCurrent == lifecycle = "READY" => uart.serial = current.serial

\* It is so for a port that is never disabled and whose rollbacks always apply.
UartRunsCurrentOtherwise == mishaps = {} => UartRunsCurrent

\* Every start, change and stop ends, one way or the other.
ChangesEnd ==
    LET transient == {"STARTING", "RECONFIGURING", "ROLLING_BACK", "STOPPING"}
    IN  lifecycle \in transient ~> lifecycle \notin transient

\* To the application a port is PortSlot: a change it took ends with the port on
\* the new or on the old configuration, never on a third one, and a port that is
\* down takes no further change.
FollowsSlot == Slot!Spec
=============================================================================
