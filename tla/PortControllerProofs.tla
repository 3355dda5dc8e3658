------------------------- MODULE PortControllerProofs -------------------------
(***************************************************************************)
(* Theorems about PortController, for every set of settings and addresses, *)
(* every number of edits, and whatever fails.                              *)
(***************************************************************************)
EXTENDS PortController, TLAPS

-----------------------------------------------------------------------------
(* The inductive invariant, part by part. *)

Changing == {"STARTING", "RECONFIGURING", "ROLLING_BACK"}

\* Which lifecycles have a listener, and whose configuration may get one.
ListenerInv ==
    /\ lifecycle \in Changing \cup {"NETWORK_WAIT", "DISABLED"} => listener = NoConfig
    /\ lifecycle = "READY" => listener # NoConfig
    /\ lifecycle \in Changing \cup {"READY", "NETWORK_WAIT", "DEGRADED"} => current.enabled
    /\ lifecycle = "STOPPING" /\ listener # NoConfig => lastError # "NONE"

\* What the runtime does in each lifecycle.
RuntimeInv ==
    /\ lifecycle = "DISABLED" => life.state = "DISABLED"
    /\ lifecycle = "STARTING" => life.state \in {"STARTING", "RECOVERING"}
    /\ lifecycle = "READY" => life.state \in {"READY", "ACTIVE", "WAITING", "RECOVERING"}
    /\ lifecycle = "NETWORK_WAIT" => life.state \in {"READY", "RECOVERING", "DEGRADED"}
    /\ lifecycle = "DEGRADED" => life.state \in {"DEGRADED", "ERROR"}
    /\ lifecycle = "STOPPING" => life.state = "STOPPING"
    /\ lifecycle = "ROLLING_BACK" => life.state = "RECONFIGURING"
    /\ life.state = "RECONFIGURING" => life.staged \in CoreConfig

\* What a change is about: another listener only, or other settings.
ChangeInv ==
    /\ lifecycle = "RECONFIGURING" => staged \in Config /\ staged.enabled
    /\ lifecycle = "RECONFIGURING" /\ rebind =>
          life.state \in {"READY", "RECOVERING", "DEGRADED"} /\ staged.serial = current.serial
    /\ lifecycle = "RECONFIGURING" /\ ~rebind =>
          life.state = "RECONFIGURING" /\ life.staged = Core(staged)
    /\ pendingDisable => /\ lifecycle \in {"STOPPING", "ERROR"} /\ listener = NoConfig
                         /\ staged \in Config

\* Before the start and after the shutdown.
PhaseInv ==
    /\ phase = "boot" => lifecycle = "DISABLED" /\ ~pendingDisable
    /\ phase = "closing" => lifecycle \in {"STOPPING", "DISABLED", "ERROR"}
    /\ rebind /\ phase # "closing" => lifecycle = "RECONFIGURING"

\* A port that is never disabled and whose rollbacks apply: configuration, runtime
\* and UART agree wherever the port can come into service.
UartInv ==
    mishaps = {} =>
        /\ knownGood = current /\ ~pendingDisable
        /\ phase = "boot" => current.enabled
        /\ phase = "running" => lifecycle # "DISABLED"
        /\ phase = "running" /\ lifecycle = "STOPPING" => lastError # "NONE"
        /\ \/ phase = "boot" \/ lifecycle \in {"STARTING", "READY", "NETWORK_WAIT", "RECONFIGURING"}
           => life.current = Core(current)
        /\ \/ phase = "boot" \/ lifecycle \in {"STARTING", "READY", "NETWORK_WAIT"}
           \/ lifecycle = "RECONFIGURING" /\ rebind
           => uart.serial = current.serial
        /\ lifecycle = "RECONFIGURING" /\ ~rebind => staged.revision # current.revision
        /\ lifecycle = "ROLLING_BACK" => life.staged = Core(current)

ControllerInv ==
    TypeOK /\ ListenerServesCurrent /\ ListenerInv /\ RuntimeInv /\ ChangeInv /\ PhaseInv /\ UartInv
-----------------------------------------------------------------------------
(* Lemmas about configurations and about what the runtime may do in a step. *)

\* The type of p->runtime.
LifeType == [state: Runtime!States, current: CoreConfig,
             staged: CoreConfig \cup {NoConfig}, knownGood: CoreConfig]

\* core_config of a configuration is one of the runtime's, and never "none".
LEMMA CoreIs ==
    ASSUME NEW c \in Config
    PROVE  /\ Core(c) \in CoreConfig /\ Core(c) # NoConfig /\ c # NoConfig
           /\ Core(c).serial = c.serial /\ Core(c).revision = c.revision
           /\ c.serial \in Serials /\ c.bind \in Binds /\ c.enabled \in BOOLEAN
           /\ c.revision \in Revisions
<1>1. Core(c) \in CoreConfig
  BY DEF Core, Config, CoreConfig
<1> QED
  BY <1>1, NoConfigAssumption DEF Core, Config

\* In and Reconfigured keep the type of a runtime.
LEMMA InIs ==
    ASSUME NEW p \in LifeType, NEW next \in Runtime!States
    PROVE  /\ Runtime!In(p, next) \in LifeType
           /\ Runtime!In(p, next).state = next
           /\ Runtime!In(p, next).current = p.current
           /\ Runtime!In(p, next).staged = p.staged
           /\ Runtime!In(p, next).knownGood = p.knownGood
BY DEF LifeType, Runtime!In

\* The runtime is told of a new configuration: it stages it and keeps the current one.
LEMMA ReconfiguredIs ==
    ASSUME NEW p \in LifeType, NEW c \in CoreConfig
    PROVE  /\ Runtime!Reconfigured(p, c) \in LifeType
           /\ Runtime!Reconfigured(p, c).state = "RECONFIGURING"
           /\ Runtime!Reconfigured(p, c).staged = c
           /\ Runtime!Reconfigured(p, c).current = p.current
<1>1. p.current \in CoreConfig
  BY DEF LifeType
<1>2. "RECONFIGURING" \in Runtime!States
  BY DEF Runtime!States
<1> QED
  BY <1>1, <1>2 DEF LifeType, Runtime!Reconfigured

\* port_runtime_detach: a request that is with the backend is abandoned.
LEMMA DetachedIs ==
    ASSUME NEW p \in LifeType
    PROVE  /\ Runtime!Detached(p) \in LifeType
           /\ Runtime!Detached(p).current = p.current
           /\ Runtime!Detached(p).staged = p.staged
           /\ Runtime!Detached(p).state = IF p.state \in {"ACTIVE", "WAITING"}
                                          THEN "RECOVERING" ELSE p.state
<1>1. "RECOVERING" \in Runtime!States
  BY DEF Runtime!States
<1> QED
  BY <1>1, InIs DEF Runtime!Detached, Runtime!Busy

\* Where one step of the controller may take the runtime.
LEMMA SteppedIs ==
    ASSUME life \in LifeType, NEW q \in Stepped,
           life.state = "RECONFIGURING" => life.staged \in CoreConfig
    PROVE  /\ q \in LifeType
           /\ life.state # "RECONFIGURING" => q.current = life.current /\ q.staged = life.staged
           /\ q.state = "ACTIVE" => listener # NoConfig
           /\ q.state = "RECONFIGURING" => life.state = "RECONFIGURING"
           /\ life.state = "STARTING" => q.state \in {"STARTING", "READY", "RECOVERING"}
           /\ life.state = "READY" => q.state \in {"READY", "ACTIVE", "RECOVERING", "DEGRADED"}
           /\ life.state = "READY" /\ listener = NoConfig => q.state = "READY"
           /\ life.state = "ACTIVE" => q.state \in {"WAITING", "RECOVERING"}
           /\ life.state = "WAITING" => q.state \in {"WAITING", "READY", "RECOVERING"}
           /\ life.state = "RECOVERING" => q.state \in {"RECOVERING", "READY", "DEGRADED"}
           /\ life.state = "STOPPING" => q.state \in {"STOPPING", "DISABLED", "ERROR"}
           /\ life.state = "RECONFIGURING" =>
                /\ q.state \in {"READY", "ERROR"}
                /\ q.state = "READY" =>
                     \/ q.current = life.staged
                     \/ q.current = life.current
                        /\ (lifecycle = "ROLLING_BACK" => "rollback" \in mishaps)
                /\ q.state = "ERROR" => (lifecycle = "ROLLING_BACK" => "rollback" \in mishaps)
           /\ life.state \in {"DISABLED", "DEGRADED", "ERROR"} => q.state = life.state
<1> DEFINE before == {life} \cup (IF listener # NoConfig /\ life.state = "READY"
                                  THEN {Runtime!In(life, "RECOVERING")} ELSE {})
<1>1. PICK p \in before : q \in Runtime!AfterStep(p)
  BY DEF Stepped
<1>2. /\ q.state = "ACTIVE" => listener # NoConfig
      /\ life.state = "RECONFIGURING" =>
            \/ q.state = "READY" /\ q.current = life.staged
            \/ lifecycle = "ROLLING_BACK" => "rollback" \in mishaps
  BY DEF Stepped
<1>3. /\ p \in LifeType /\ p.current = life.current /\ p.staged = life.staged
      /\ \/ p.state = life.state
         \/ listener # NoConfig /\ life.state = "READY" /\ p.state = "RECOVERING"
  <2>1. "RECOVERING" \in Runtime!States
    BY DEF Runtime!States
  <2>2. \/ p = life
        \/ listener # NoConfig /\ life.state = "READY" /\ p = Runtime!In(life, "RECOVERING")
    OBVIOUS
  <2>3. CASE p = life
    BY <2>3
  <2>4. CASE listener # NoConfig /\ life.state = "READY" /\ p = Runtime!In(life, "RECOVERING")
    BY <2>1, <2>4, InIs
  <2> QED
    BY <2>2, <2>3, <2>4
<1>4. CASE q = Runtime!TookOver(p) /\ p.state = "RECONFIGURING"
  <2>0. life.state = "RECONFIGURING" /\ p.staged \in CoreConfig
    BY <1>3, <1>4
  <2>1. /\ q.state = "READY" /\ q.current = p.staged /\ q.staged = p.staged /\ q \in LifeType
    BY <2>0, <1>4 DEF Runtime!TookOver, LifeType, Runtime!States
  <2> QED
    BY <2>0, <2>1, <1>2, <1>3, <1>4
<1>5. CASE \E next \in Runtime!StepsTo(p.state) : q = Runtime!In(p, next)
  <2>1. PICK next \in Runtime!StepsTo(p.state) : q = Runtime!In(p, next)
    BY <1>5
  <2>2. p.state \in Runtime!States
    BY <1>3 DEF LifeType
  <2>3. /\ next \in Runtime!States
        /\ p.state = "STARTING" => next \in {"STARTING", "READY", "RECOVERING"}
        /\ p.state = "READY" => next \in {"READY", "ACTIVE"}
        /\ p.state = "ACTIVE" => next \in {"WAITING", "RECOVERING"}
        /\ p.state = "WAITING" => next \in {"WAITING", "READY", "RECOVERING"}
        /\ p.state = "RECOVERING" => next \in {"RECOVERING", "READY", "DEGRADED"}
        /\ p.state = "RECONFIGURING" => next \in {"READY", "ERROR"}
        /\ p.state = "STOPPING" => next \in {"STOPPING", "DISABLED", "ERROR"}
        /\ p.state \notin {"STARTING", "READY", "ACTIVE", "WAITING", "RECOVERING",
                           "RECONFIGURING", "STOPPING"} => next = p.state
    BY <2>1, <2>2 DEF Runtime!StepsTo, Runtime!States
  <2>4. /\ q \in LifeType /\ q.state = next
        /\ q.current = life.current /\ q.staged = life.staged
    BY <2>1, <2>3, <1>3, InIs
  <2> QED
    BY <2>3, <2>4, <1>2, <1>3
<1> QED
  BY <1>1, <1>4, <1>5 DEF Runtime!AfterStep
-----------------------------------------------------------------------------
(* The calls of the application preserve the invariant. *)

\* gateway_controller_start
LEMMA StartKeeps ==
    ASSUME ControllerInv, Start
    PROVE  ControllerInv'
<1>a. life \in LifeType /\ "STARTING" \in Runtime!States
  BY DEF ControllerInv, TypeOK, LifeType, Runtime!States
<1>1. TypeOK'
  BY <1>a, InIs DEF ControllerInv, TypeOK, LifeType, Start, configVars, flagVars, Lifecycles
<1>2. ListenerServesCurrent'
  BY DEF ControllerInv, ListenerServesCurrent, Start, configVars
<1>3. ListenerInv'
  BY DEF ControllerInv, ListenerInv, PhaseInv, Start, configVars
<1>4. RuntimeInv'
  BY <1>a, InIs DEF ControllerInv, RuntimeInv, Start
<1>5. ChangeInv'
  BY DEF ControllerInv, Changing, RuntimeInv, ChangeInv, PhaseInv, UartInv, Start, configVars,
     flagVars, Lifecycles
<1>6. PhaseInv'
  BY DEF ControllerInv, Changing, RuntimeInv, ChangeInv, PhaseInv, UartInv, Start, configVars,
     flagVars, Lifecycles
<1>7. UartInv'
  BY <1>a, InIs DEF ControllerInv, UartInv, Start, configVars, flagVars
<1> QED
  BY <1>1, <1>2, <1>3, <1>4, <1>5, <1>6, <1>7 DEF ControllerInv

\* A refused change leaves the port as it was.
LEMMA RefuseKeeps ==
    ASSUME ControllerInv, Refuse
    PROVE  ControllerInv'
<1>1. TypeOK'
  BY DEF ControllerInv, TypeOK, Refuse, ListenerHangs, configVars, flagVars, Errors
<1>2. ListenerServesCurrent'
  BY DEF ControllerInv, ListenerServesCurrent, Refuse, ListenerHangs, configVars
<1>3. ListenerInv'
  BY DEF ControllerInv, ListenerInv, Refuse, ListenerHangs, configVars
<1>4. RuntimeInv'
  BY DEF ControllerInv, RuntimeInv, Refuse
<1>5. ChangeInv'
  BY DEF ControllerInv, ChangeInv, Refuse, ListenerHangs, configVars, flagVars
<1>6. PhaseInv'
  BY DEF ControllerInv, PhaseInv, Refuse, flagVars
<1>7. UartInv'
  BY DEF ControllerInv, UartInv, Refuse, configVars, flagVars
<1> QED
  BY <1>1, <1>2, <1>3, <1>4, <1>5, <1>6, <1>7 DEF ControllerInv

\* A port that stays disabled takes its configuration at once.
LEMMA DisableDisabledKeeps ==
    ASSUME ControllerInv, NEW config \in Wanted, DisableDisabled(config)
    PROVE  ControllerInv'
<1>1. TypeOK'
  BY DEF ControllerInv, TypeOK, DisableDisabled, Wanted, flagVars
<1>2. ListenerServesCurrent'
  BY DEF ControllerInv, ListenerServesCurrent, ListenerInv, DisableDisabled
<1>3. ListenerInv'
  BY DEF ControllerInv, ListenerInv, Changing, DisableDisabled
<1>4. RuntimeInv'
  BY DEF ControllerInv, Changing, RuntimeInv, ChangeInv, PhaseInv, UartInv, DisableDisabled,
     Wanted, Accepts, flagVars
<1>5. ChangeInv'
  BY DEF ControllerInv, Changing, RuntimeInv, ChangeInv, PhaseInv, UartInv, DisableDisabled,
     Wanted, Accepts, flagVars
<1>6. PhaseInv'
  BY DEF ControllerInv, Changing, RuntimeInv, ChangeInv, PhaseInv, UartInv, DisableDisabled,
     Wanted, Accepts, flagVars
<1>7. UartInv'
  BY DEF ControllerInv, Changing, RuntimeInv, ChangeInv, PhaseInv, UartInv, DisableDisabled,
     Wanted, Accepts, flagVars
<1> QED
  BY <1>1, <1>2, <1>3, <1>4, <1>5, <1>6, <1>7 DEF ControllerInv

\* The stop of a port that is to be disabled
LEMMA DisableKeeps ==
    ASSUME ControllerInv, NEW config \in Wanted, Disable(config)
    PROVE  ControllerInv'
<1>a. life \in LifeType /\ "STOPPING" \in Runtime!States
  BY DEF ControllerInv, TypeOK, LifeType, Runtime!States
<1>1. TypeOK'
  BY <1>a, InIs DEF ControllerInv, TypeOK, LifeType, Disable, Wanted, Stage, ListenerStops,
     Errors, Lifecycles
<1>2. ListenerServesCurrent'
  BY DEF ListenerServesCurrent, Disable, ListenerStops
<1>3. ListenerInv'
  BY DEF ListenerInv, Changing, Disable, ListenerStops
<1>4. RuntimeInv'
  BY <1>a, InIs DEF RuntimeInv, Disable
<1>5. ChangeInv'
  BY DEF ChangeInv, PhaseInv, UartInv, Disable, Wanted, Accepts, Stage, ListenerStops, Errors,
     Lifecycles
<1>6. PhaseInv'
  BY DEF ControllerInv, PhaseInv, Disable, Accepts
<1>7. UartInv'
  BY DEF UartInv, Disable, Wanted, Accepts, Stage, ListenerStops, Errors, Lifecycles
<1> QED
  BY <1>1, <1>2, <1>3, <1>4, <1>5, <1>6, <1>7 DEF ControllerInv

\* The start of a port that was disabled
LEMMA EnableKeeps ==
    ASSUME ControllerInv, NEW config \in Wanted, Enable(config)
    PROVE  ControllerInv'
<1>a. config \in Config /\ config.enabled /\ "STARTING" \in Runtime!States
  BY DEF Enable, Wanted, Runtime!States
<1>b. /\ life' \in LifeType /\ life'.state = "STARTING" /\ life'.current = Core(config)
  BY <1>a, CoreIs DEF Enable, Runtime!Fresh, Runtime!In, LifeType
<1>1. TypeOK'
  BY <1>b DEF ControllerInv, TypeOK, LifeType, Enable, Wanted, flagVars, Lifecycles
<1>2. ListenerServesCurrent'
  BY DEF ControllerInv, ListenerServesCurrent, ListenerInv, Enable
<1>3. ListenerInv'
  BY DEF ControllerInv, ListenerInv, Enable
<1>4. RuntimeInv'
  BY <1>b DEF RuntimeInv, Enable
<1>5. ChangeInv'
  BY DEF ControllerInv, ChangeInv, Enable, flagVars
<1>6. PhaseInv'
  BY DEF ControllerInv, PhaseInv, Enable, Accepts, flagVars
<1>7. UartInv'
  BY DEF ControllerInv, UartInv, Enable, Accepts
<1> QED
  BY <1>1, <1>2, <1>3, <1>4, <1>5, <1>6, <1>7 DEF ControllerInv

\* Only the listener is to move.
LEMMA RebindKeeps ==
    ASSUME ControllerInv, NEW config \in Wanted, Rebind(config)
    PROVE  ControllerInv'
<1>a. life \in LifeType
  BY DEF ControllerInv, TypeOK, LifeType
<1>1. TypeOK'
  BY DetachedIs DEF ControllerInv, TypeOK, LifeType, Rebind, Wanted, Stage, ListenerStops,
     Lifecycles
<1>2. ListenerServesCurrent'
  BY DEF ListenerServesCurrent, Rebind, ListenerStops
<1>3. ListenerInv'
  BY DEF ListenerInv, Rebind, OnlyRebinds, ListenerStops
<1>4. RuntimeInv'
  BY <1>a, DetachedIs DEF ControllerInv, RuntimeInv, Rebind
<1>5. ChangeInv'
  BY <1>a, DetachedIs DEF ControllerInv, RuntimeInv, ChangeInv, Rebind, Wanted, Accepts,
     OnlyRebinds, Stage
<1>6. PhaseInv'
  BY DEF PhaseInv, UartInv, Rebind, Wanted, Accepts, OnlyRebinds, Stage, ListenerStops, Lifecycles
<1>7. UartInv'
  BY <1>a, DetachedIs DEF ControllerInv, UartInv, Rebind, Accepts
<1> QED
  BY <1>1, <1>2, <1>3, <1>4, <1>5, <1>6, <1>7 DEF ControllerInv

\* Other settings come with another revision, so that a fallback is told from them.
LEMMA ReconfigureKeeps ==
    ASSUME ControllerInv, NEW config \in Wanted, Reconfigure(config)
    PROVE  ControllerInv'
<1>a. life \in LifeType
  BY DEF ControllerInv, TypeOK, LifeType
<1>1. TypeOK'
  BY ReconfiguredIs, CoreIs DEF ControllerInv, TypeOK, LifeType, Reconfigure, Wanted, Stage,
     ListenerStops, Lifecycles, Errors, flagVars
<1>2. ListenerServesCurrent'
  BY DEF ListenerServesCurrent, Reconfigure, ListenerStops
<1>3. ListenerInv'
  BY DEF ControllerInv, ListenerInv, Reconfigure, Accepts, ListenerStops
<1>4. RuntimeInv'
  BY <1>a, ReconfiguredIs, CoreIs DEF RuntimeInv, Reconfigure, Wanted
<1>5. ChangeInv'
  BY <1>a, ReconfiguredIs, CoreIs DEF ControllerInv, ChangeInv, PhaseInv, Reconfigure, Wanted,
     Accepts, Stage, flagVars
<1>6. PhaseInv'
  BY DEF PhaseInv, Reconfigure, Accepts
<1>7. UartInv'
  BY <1>a, ReconfiguredIs, CoreIs DEF ControllerInv, UartInv, Reconfigure, Wanted, Accepts,
     OnlyRebinds, Stage, flagVars
<1> QED
  BY <1>1, <1>2, <1>3, <1>4, <1>5, <1>6, <1>7 DEF ControllerInv

\* gateway_controller_network_wait
LEMMA NetworkLostKeeps ==
    ASSUME ControllerInv, NetworkLost
    PROVE  ControllerInv'
<1>a. life \in LifeType
  BY DEF ControllerInv, TypeOK, LifeType
<1>1. TypeOK'
  BY DetachedIs DEF ControllerInv, TypeOK, LifeType, NetworkLost, ListenerStops, Lifecycles,
     configVars
<1>2. ListenerServesCurrent'
  BY DEF ControllerInv, ListenerServesCurrent, NetworkLost, ListenerStops, configVars
<1>3. ListenerInv'
  BY DEF ControllerInv, ListenerInv, NetworkLost, ListenerStops, configVars
<1>4. RuntimeInv'
  BY <1>a, DetachedIs DEF ControllerInv, RuntimeInv, NetworkLost
<1>5. ChangeInv'
  BY DEF ControllerInv, ChangeInv, NetworkLost, configVars
<1>6. PhaseInv'
  BY DEF ControllerInv, PhaseInv, NetworkLost
<1>7. UartInv'
  BY <1>a, DetachedIs DEF ControllerInv, UartInv, NetworkLost, configVars
<1> QED
  BY <1>1, <1>2, <1>3, <1>4, <1>5, <1>6, <1>7 DEF ControllerInv

\* The address is back: the flag only.
LEMMA NetworkBackKeeps ==
    ASSUME ControllerInv, NetworkBack
    PROVE  ControllerInv'
<1>1. TypeOK'
  BY DEF ControllerInv, TypeOK, Changing, RuntimeInv, ChangeInv, PhaseInv, UartInv, NetworkBack,
     configVars
<1>2. ListenerServesCurrent'
  BY DEF ControllerInv, ListenerServesCurrent, NetworkBack, configVars
<1>3. ListenerInv'
  BY DEF ControllerInv, ListenerInv, Changing, RuntimeInv, ChangeInv, PhaseInv, UartInv,
     NetworkBack, configVars
<1>4. RuntimeInv'
  BY DEF ControllerInv, Changing, RuntimeInv, ChangeInv, PhaseInv, UartInv, NetworkBack, configVars
<1>5. ChangeInv'
  BY DEF ControllerInv, Changing, RuntimeInv, ChangeInv, PhaseInv, UartInv, NetworkBack, configVars
<1>6. PhaseInv'
  BY DEF ControllerInv, Changing, RuntimeInv, ChangeInv, PhaseInv, UartInv, NetworkBack, configVars
<1>7. UartInv'
  BY DEF ControllerInv, Changing, RuntimeInv, ChangeInv, PhaseInv, UartInv, NetworkBack, configVars
<1> QED
  BY <1>1, <1>2, <1>3, <1>4, <1>5, <1>6, <1>7 DEF ControllerInv

\* gateway_controller_shutdown
LEMMA ShutdownKeeps ==
    ASSUME ControllerInv, Shutdown
    PROVE  ControllerInv'
<1>a. life \in LifeType /\ "STOPPING" \in Runtime!States
  BY DEF ControllerInv, TypeOK, LifeType, Runtime!States
<1>1. TypeOK'
  BY <1>a, InIs DEF ControllerInv, TypeOK, LifeType, Shutdown, ListenerStops, ListenerHangs,
     Lifecycles, Errors, configVars, flagVars
<1>2. ListenerServesCurrent'
  BY DEF ControllerInv, ListenerServesCurrent, Shutdown, ListenerStops, ListenerHangs, configVars
<1>3. ListenerInv'
  BY DEF ControllerInv, ListenerInv, Changing, RuntimeInv, Shutdown, ListenerStops,
     ListenerHangs, configVars, Runtime!Stoppable
<1>4. RuntimeInv'
  BY <1>a, InIs DEF ControllerInv, RuntimeInv, Shutdown
<1>5. ChangeInv'
  BY DEF ControllerInv, ChangeInv, Shutdown, ListenerStops, ListenerHangs, configVars, flagVars
<1>6. PhaseInv'
  BY DEF ControllerInv, TypeOK, RuntimeInv, ChangeInv, PhaseInv, Shutdown, Lifecycles,
     Runtime!Stoppable
<1>7. UartInv'
  BY DEF ControllerInv, UartInv, Shutdown, configVars, flagVars
<1> QED
  BY <1>1, <1>2, <1>3, <1>4, <1>5, <1>6, <1>7 DEF ControllerInv
-----------------------------------------------------------------------------
(* The steps of the controller preserve the invariant. *)

\* A port that starts
LEMMA StepStartingKeeps ==
    ASSUME ControllerInv, NEW q \in Stepped, phase # "boot", Applied(q),
           UNCHANGED <<mishaps, phase>>, StepStarting(q)
    PROVE  ControllerInv'
<1>a. /\ life \in LifeType
      /\ life.state = "RECONFIGURING" => life.staged \in CoreConfig
  BY DEF ControllerInv, TypeOK, LifeType, RuntimeInv
<1>b. "STOPPING" \in Runtime!States
  BY DEF Runtime!States
<1>1. TypeOK'
  BY <1>b, SteppedIs, InIs DEF ControllerInv, TypeOK, LifeType, RuntimeInv, StepStarting,
     StartListenerOrFail, ListenerStarts, ListenerFails, Applied, Follow, configVars, flagVars,
     Lifecycles, Errors
<1>2. ListenerServesCurrent'
  BY DEF ControllerInv, ListenerServesCurrent, ListenerInv, Changing, StepStarting,
     StartListenerOrFail, ListenerStarts, ListenerFails, configVars
<1>3. ListenerInv'
  BY CoreIs DEF ControllerInv, TypeOK, ListenerInv, Changing, StepStarting, StartListenerOrFail,
     ListenerStarts, Follow, configVars
<1>4. RuntimeInv'
  BY <1>a, <1>b, SteppedIs, InIs DEF ControllerInv, RuntimeInv, StepStarting,
     StartListenerOrFail, Follow
<1>5. ChangeInv'
  BY DEF ControllerInv, ChangeInv, StepStarting, StartListenerOrFail, Follow, flagVars
<1>6. PhaseInv'
  BY DEF ControllerInv, PhaseInv, StepStarting, flagVars
<1>7. UartInv'
  BY <1>a, SteppedIs DEF ControllerInv, RuntimeInv, UartInv, StepStarting, StartListenerOrFail,
     Applied, Follow, configVars, flagVars
<1> QED
  BY <1>1, <1>2, <1>3, <1>4, <1>5, <1>6, <1>7 DEF ControllerInv

\* A port in service
LEMMA StepReadyKeeps ==
    ASSUME ControllerInv, NEW q \in Stepped, phase # "boot", Applied(q),
           UNCHANGED <<mishaps, phase>>, StepReady(q)
    PROVE  ControllerInv'
<1>a. /\ life \in LifeType
      /\ life.state = "RECONFIGURING" => life.staged \in CoreConfig
  BY DEF ControllerInv, TypeOK, LifeType, RuntimeInv
<1>b. "STOPPING" \in Runtime!States
  BY DEF Runtime!States
<1>1. TypeOK'
  BY SteppedIs DEF ControllerInv, TypeOK, LifeType, RuntimeInv, StepReady, Applied, Follow,
     configVars, flagVars, Lifecycles
<1>2. ListenerServesCurrent'
  BY DEF ControllerInv, ListenerServesCurrent, StepReady, configVars
<1>3. ListenerInv'
  BY DEF ControllerInv, ListenerInv, Changing, StepReady, Follow, configVars
<1>4. RuntimeInv'
  BY <1>a, SteppedIs DEF ControllerInv, RuntimeInv, StepReady, Follow
<1>5. ChangeInv'
  BY DEF ControllerInv, ChangeInv, StepReady, Follow, flagVars
<1>6. PhaseInv'
  BY DEF ControllerInv, PhaseInv, StepReady, flagVars
<1>7. UartInv'
  BY <1>a, SteppedIs DEF ControllerInv, RuntimeInv, UartInv, StepReady, Applied, Follow,
     configVars, flagVars
<1> QED
  BY <1>1, <1>2, <1>3, <1>4, <1>5, <1>6, <1>7 DEF ControllerInv

\* A listener that moves
LEMMA StepRebindKeeps ==
    ASSUME ControllerInv, NEW q \in Stepped, phase # "boot", Applied(q),
           UNCHANGED <<mishaps, phase>>, StepRebind(q)
    PROVE  ControllerInv'
<1>a. /\ life \in LifeType
      /\ life.state = "RECONFIGURING" => life.staged \in CoreConfig
  BY DEF ControllerInv, TypeOK, LifeType, RuntimeInv
<1>b. "STOPPING" \in Runtime!States
  BY DEF Runtime!States
<1>c. /\ lifecycle = "RECONFIGURING" /\ rebind /\ listener = NoConfig
      /\ staged \in Config /\ staged.enabled /\ staged.serial = current.serial
      /\ life.state \in {"READY", "RECOVERING", "DEGRADED"}
  BY DEF ControllerInv, ChangeInv, ListenerInv, Changing, StepRebind
<1>d. /\ q \in LifeType /\ q.state \in {"READY", "RECOVERING", "DEGRADED"}
      /\ q.current = life.current /\ q.staged = life.staged /\ uart' = uart
  BY <1>a, <1>c, SteppedIs DEF Applied
<1> DEFINE moved == [q EXCEPT !.current.revision = staged.revision,
                              !.knownGood.revision = staged.revision]
<1>e. /\ moved \in LifeType /\ moved.state = q.state /\ moved.staged = q.staged
      /\ moved.current = [serial |-> q.current.serial, revision |-> staged.revision]
  <2>1. q.current \in CoreConfig /\ q.knownGood \in CoreConfig /\ staged.revision \in Revisions
    BY <1>c, <1>d, CoreIs DEF LifeType
  <2>2. /\ [q.current EXCEPT !.revision = staged.revision] \in CoreConfig
        /\ [q.knownGood EXCEPT !.revision = staged.revision] \in CoreConfig
        /\ [q.current EXCEPT !.revision = staged.revision]
           = [serial |-> q.current.serial, revision |-> staged.revision]
    BY <2>1 DEF CoreConfig
  <2>3. moved = [q EXCEPT !.current = [q.current EXCEPT !.revision = staged.revision],
                          !.knownGood = [q.knownGood EXCEPT !.revision = staged.revision]]
    BY <1>d DEF LifeType
  <2> QED
    BY <2>2, <2>3, <1>d DEF LifeType
<1>f. \/ UNCHANGED configVars /\ life' = q
         /\ lifecycle' \in {"NETWORK_WAIT", "READY", "ERROR", "RECONFIGURING"}
         /\ listener' = IF lifecycle' = "READY" THEN current ELSE NoConfig
      \/ current' = staged /\ knownGood' = staged /\ staged' = staged /\ life' = moved
         /\ lifecycle' = "READY" /\ listener' = staged
  BY <1>c, <1>d DEF ListenerStarts, ListenerFails, StepRebind, Follow, TakeOver, configVars
<1> HIDE DEF moved
<1>1. TypeOK'
  BY <1>d, <1>e, <1>f DEF ControllerInv, TypeOK, LifeType, ChangeInv, StepRebind, RebindDone,
     configVars, Lifecycles, Errors
<1>2. ListenerServesCurrent'
  BY DEF ControllerInv, ListenerServesCurrent, ListenerInv, Changing, ChangeInv, StepRebind,
     ListenerStarts, ListenerFails, TakeOver, configVars
<1>3. ListenerInv'
  BY CoreIs DEF ControllerInv, TypeOK, ListenerInv, Changing, ChangeInv, StepRebind,
     ListenerStarts, TakeOver, Follow, configVars
<1>4. RuntimeInv'
  BY <1>d, <1>e, <1>f DEF RuntimeInv, StepRebind, Follow
<1>5. ChangeInv'
  BY <1>d DEF ControllerInv, ChangeInv, StepRebind, RebindDone, Follow, configVars
<1>6. PhaseInv'
  BY DEF ControllerInv, PhaseInv, StepRebind, RebindDone
<1>7. UartInv'
  BY <1>d, <1>e, <1>f DEF ControllerInv, ChangeInv, UartInv, StepRebind, RebindDone, Core,
     Config, configVars
<1> QED
  BY <1>1, <1>2, <1>3, <1>4, <1>5, <1>6, <1>7 DEF ControllerInv

\* New settings: taken over, or the runtime fell back, or the rollback begins
LEMMA StepReconfiguringKeeps ==
    ASSUME ControllerInv, NEW q \in Stepped, phase # "boot", Applied(q),
           UNCHANGED <<mishaps, phase>>, StepReconfiguring(q)
    PROVE  ControllerInv'
<1>a. /\ life \in LifeType
      /\ life.state = "RECONFIGURING" => life.staged \in CoreConfig
  BY DEF ControllerInv, TypeOK, LifeType, RuntimeInv
<1>b. "STOPPING" \in Runtime!States
  BY DEF Runtime!States
<1>1. TypeOK'
  BY <1>b, SteppedIs, InIs, CoreIs, ReconfiguredIs DEF ControllerInv, TypeOK, LifeType,
     ChangeInv, StepReconfiguring, StartListenerOrFail, ListenerStarts, ListenerFails, TakeOver,
     Applied, Follow, configVars, flagVars, Lifecycles, Errors
<1>2. ListenerServesCurrent'
  BY DEF ControllerInv, ListenerServesCurrent, ListenerInv, Changing, ChangeInv,
     StepReconfiguring, StartListenerOrFail, ListenerStarts, ListenerFails, TakeOver, configVars
<1>3. ListenerInv'
  BY CoreIs DEF ControllerInv, TypeOK, ListenerInv, Changing, ChangeInv, StepReconfiguring,
     StartListenerOrFail, ListenerStarts, ListenerFails, TakeOver, Follow, configVars
<1>4. RuntimeInv'
  BY <1>b, SteppedIs, InIs, CoreIs, ReconfiguredIs DEF ControllerInv, TypeOK, LifeType,
     RuntimeInv, StepReconfiguring, StartListenerOrFail, Follow
<1>5. ChangeInv'
  BY <1>a, SteppedIs DEF ControllerInv, ChangeInv, StepReconfiguring, StartListenerOrFail,
     Follow, flagVars
<1>6. PhaseInv'
  BY DEF ControllerInv, PhaseInv, StepReconfiguring, flagVars
<1>7. UartInv'
  BY SteppedIs, CoreIs, ReconfiguredIs DEF ControllerInv, TypeOK, LifeType, ChangeInv, UartInv,
     StepReconfiguring, StartListenerOrFail, TakeOver, TookStaged, Applied, Follow, configVars,
     flagVars
<1> QED
  BY <1>1, <1>2, <1>3, <1>4, <1>5, <1>6, <1>7 DEF ControllerInv

\* A rollback
LEMMA StepRollingBackKeeps ==
    ASSUME ControllerInv, NEW q \in Stepped, phase # "boot", Applied(q),
           UNCHANGED <<mishaps, phase>>, StepRollingBack(q)
    PROVE  ControllerInv'
<1>a. /\ life \in LifeType
      /\ life.state = "RECONFIGURING" => life.staged \in CoreConfig
  BY DEF ControllerInv, TypeOK, LifeType, RuntimeInv
<1>b. "STOPPING" \in Runtime!States
  BY DEF Runtime!States
<1>1. TypeOK'
  BY SteppedIs DEF ControllerInv, TypeOK, LifeType, RuntimeInv, StepRollingBack, ListenerStarts,
     ListenerFails, Applied, Follow, configVars, flagVars, Lifecycles
<1>2. ListenerServesCurrent'
  BY DEF ControllerInv, ListenerServesCurrent, ListenerInv, Changing, StepRollingBack,
     ListenerStarts, ListenerFails, configVars
<1>3. ListenerInv'
  BY CoreIs DEF ControllerInv, TypeOK, ListenerInv, Changing, StepRollingBack, ListenerStarts,
     Follow, configVars
<1>4. RuntimeInv'
  BY <1>a, SteppedIs DEF ControllerInv, RuntimeInv, StepRollingBack, Follow
<1>5. ChangeInv'
  BY DEF ControllerInv, ChangeInv, StepRollingBack, Follow, flagVars
<1>6. PhaseInv'
  BY DEF ControllerInv, PhaseInv, StepRollingBack, flagVars
<1>7. UartInv'
  BY <1>a, SteppedIs, CoreIs DEF ControllerInv, TypeOK, RuntimeInv, UartInv, StepRollingBack,
     Applied, Follow, configVars, flagVars
<1> QED
  BY <1>1, <1>2, <1>3, <1>4, <1>5, <1>6, <1>7 DEF ControllerInv

\* A stop
LEMMA StepStoppingKeeps ==
    ASSUME ControllerInv, NEW q \in Stepped, phase # "boot", Applied(q),
           UNCHANGED <<mishaps, phase>>, StepStopping(q)
    PROVE  ControllerInv'
<1>a. /\ life \in LifeType
      /\ life.state = "RECONFIGURING" => life.staged \in CoreConfig
  BY DEF ControllerInv, TypeOK, LifeType, RuntimeInv
<1>b. "STOPPING" \in Runtime!States
  BY DEF Runtime!States
<1>1. TypeOK'
  BY SteppedIs DEF ControllerInv, TypeOK, LifeType, RuntimeInv, ChangeInv, StepStopping,
     TakeOver, Applied, Follow, configVars, Lifecycles, Errors
<1>2. ListenerServesCurrent'
  BY DEF ControllerInv, ListenerServesCurrent, ChangeInv, StepStopping, configVars
<1>3. ListenerInv'
  BY DEF ControllerInv, ListenerInv, Changing, ChangeInv, StepStopping, Follow
<1>4. RuntimeInv'
  BY <1>a, SteppedIs DEF ControllerInv, RuntimeInv, StepStopping, StopFailed, Follow
<1>5. ChangeInv'
  BY DEF ControllerInv, ChangeInv, StepStopping, Follow, configVars
<1>6. PhaseInv'
  BY DEF ControllerInv, PhaseInv, StepStopping, Follow
<1>7. UartInv'
  BY DEF ControllerInv, UartInv, StepStopping, Follow, configVars
<1> QED
  BY <1>1, <1>2, <1>3, <1>4, <1>5, <1>6, <1>7 DEF ControllerInv

\* Nothing to follow
LEMMA StepIdleKeeps ==
    ASSUME ControllerInv, NEW q \in Stepped, phase # "boot", Applied(q),
           UNCHANGED <<mishaps, phase>>, StepIdle(q)
    PROVE  ControllerInv'
<1>a. /\ life \in LifeType
      /\ life.state = "RECONFIGURING" => life.staged \in CoreConfig
  BY DEF ControllerInv, TypeOK, LifeType, RuntimeInv
<1>b. "STOPPING" \in Runtime!States
  BY DEF Runtime!States
<1>1. TypeOK'
  BY SteppedIs DEF ControllerInv, TypeOK, LifeType, RuntimeInv, StepIdle, Applied, Follow,
     configVars, flagVars
<1>2. ListenerServesCurrent'
  BY DEF ControllerInv, ListenerServesCurrent, StepIdle, configVars
<1>3. ListenerInv'
  BY DEF ControllerInv, ListenerInv, StepIdle, Follow, configVars
<1>4. RuntimeInv'
  BY <1>a, SteppedIs DEF ControllerInv, ListenerInv, RuntimeInv, StepIdle, Follow
<1>5. ChangeInv'
  BY DEF ControllerInv, ChangeInv, StepIdle, Follow, configVars, flagVars
<1>6. PhaseInv'
  BY DEF ControllerInv, PhaseInv, StepIdle, Follow, flagVars
<1>7. UartInv'
  BY <1>a, SteppedIs DEF ControllerInv, RuntimeInv, UartInv, StepIdle, Applied, Follow,
     configVars, flagVars
<1> QED
  BY <1>1, <1>2, <1>3, <1>4, <1>5, <1>6, <1>7 DEF ControllerInv
-----------------------------------------------------------------------------
(* The invariant holds in every state; what the runs check follows from it. *)

\* A port before gateway_controller_start.
LEMMA ControllerInit == Init => ControllerInv
<1> SUFFICES ASSUME Init PROVE ControllerInv
  OBVIOUS
<1>1. /\ current \in Config /\ "DISABLED" \in Runtime!States /\ knownGood = current
      /\ mishaps = {} => current.enabled
  BY DEF Init, Runtime!States
<1>2. /\ life \in LifeType /\ life.state = "DISABLED" /\ life.current = Core(current)
  BY <1>1, CoreIs DEF Init, Runtime!Fresh, LifeType
<1>3. TypeOK
  BY <1>1, <1>2, CoreIs DEF Init, TypeOK, LifeType, Lifecycles, Errors
<1> QED
  BY <1>1, <1>2, <1>3, CoreIs DEF Init, ControllerInv, ListenerServesCurrent, ListenerInv, Changing,
       RuntimeInv, ChangeInv, PhaseInv, UartInv

\* Every call and every step preserves the invariant.
LEMMA ControllerStep == ControllerInv /\ [Next]_vars => ControllerInv'
<1> SUFFICES ASSUME ControllerInv, [Next]_vars PROVE ControllerInv'
  OBVIOUS
<1>1. CASE Start
  BY <1>1, StartKeeps
<1>2. CASE StepPort
  <2>1. PICK q \in Stepped :
          /\ Applied(q)
          /\ \/ StepStarting(q) \/ StepReady(q) \/ StepRebind(q) \/ StepReconfiguring(q)
             \/ StepRollingBack(q) \/ StepStopping(q) \/ StepIdle(q)
    BY <1>2 DEF StepPort
  <2>2. phase # "boot" /\ UNCHANGED <<mishaps, phase>>
    BY <1>2 DEF StepPort
  <2> QED
    BY <2>1, <2>2, StepStartingKeeps, StepReadyKeeps, StepRebindKeeps, StepReconfiguringKeeps,
       StepRollingBackKeeps, StepStoppingKeeps, StepIdleKeeps
<1>3. CASE Refuse
  BY <1>3, RefuseKeeps
<1>4. ASSUME NEW config \in Wanted,
             \/ DisableDisabled(config) \/ Disable(config) \/ Enable(config)
             \/ Rebind(config) \/ Reconfigure(config)
      PROVE  ControllerInv'
  BY <1>4, DisableDisabledKeeps, DisableKeeps, EnableKeeps, RebindKeeps, ReconfigureKeeps
<1>5. CASE NetworkLost \/ NetworkBack
  BY <1>5, NetworkLostKeeps, NetworkBackKeeps
<1>6. CASE Shutdown
  BY <1>6, ShutdownKeeps
<1>7. CASE UNCHANGED vars
  BY <1>7 DEF vars, configVars, flagVars, ControllerInv, TypeOK, ListenerServesCurrent, ListenerInv,
       RuntimeInv, ChangeInv, PhaseInv, UartInv
<1> QED
  BY <1>1, <1>2, <1>3, <1>4, <1>5, <1>6, <1>7 DEF Next

\* The inductive invariant holds whatever fails and however often the port is edited.
THEOREM ControllerInvariance == Spec => []ControllerInv
BY ControllerInit, ControllerStep, PTL DEF Spec

\* A listener that is open serves the configuration the port reports.
THEOREM ListenerServes == Spec => []ListenerServesCurrent
<1>1. ControllerInv => ListenerServesCurrent
  BY DEF ControllerInv
<1> QED
  BY <1>1, ControllerInvariance, PTL

\* Every lifecycle keeps what it promises of runtime, listener and flags.
THEOREM LifecycleKept == Spec => []LifecycleTold
<1>1. ControllerInv => LifecycleTold
  BY DEF ControllerInv, ListenerInv, Changing, RuntimeInv, ChangeInv, PhaseInv, LifecycleTold,
       Runtime!Reconfigurable
<1> QED
  BY <1>1, ControllerInvariance, PTL

\* The UART of a READY port that is never disabled and whose rollbacks apply has the
\* serial settings of the port's configuration.
THEOREM UartKept == Spec => []UartRunsCurrentOtherwise
<1>1. ControllerInv => UartRunsCurrentOtherwise
  BY DEF ControllerInv, UartInv, UartRunsCurrentOtherwise, UartRunsCurrent
<1> QED
  BY <1>1, ControllerInvariance, PTL
-----------------------------------------------------------------------------
(* The refinement of PortSlot: every action of the port is one of the slot's, or none. *)

\* Slot of a lifecycle.
SlotLife(l) == CASE l \in Changing -> "CHANGING"
                 [] l \in {"DEGRADED", "ERROR"} -> "DOWN"
                 [] OTHER -> l

\* A port as PortSlot has it.
SlotOf(l, c, t, o, w) == [life |-> l, current |-> c, target |-> t, owned |-> o, wait |-> w]

\* The "owned" of a port in service; a name, since the provers do not match the
\* truth value TRUE as an argument.
Open == TRUE

\* The ends of a change, field by field.
LEMMA SlotWaiting ==
    ASSUME NEW l, NEW c, NEW t, NEW o, NEW w, NEW d
    PROVE  Slot!Waiting(SlotOf(l, c, t, o, w), d) = SlotOf("NETWORK_WAIT", d, NoConfig, o, w)
<1> DEFINE p == SlotOf(l, c, t, o, w)
<1>1. Slot!Waiting(p, d) = [[[p EXCEPT !.life = "NETWORK_WAIT"] EXCEPT !.current = d]
                            EXCEPT !.target = NoConfig]
  BY DEF Slot!Waiting
<1>2. [p EXCEPT !.life = "NETWORK_WAIT"] = SlotOf("NETWORK_WAIT", c, t, o, w)
  BY DEF SlotOf
<1>3. [SlotOf("NETWORK_WAIT", c, t, o, w) EXCEPT !.current = d] = SlotOf("NETWORK_WAIT", d, t, o, w)
  BY DEF SlotOf
<1>4. [SlotOf("NETWORK_WAIT", d, t, o, w) EXCEPT !.target = NoConfig]
      = SlotOf("NETWORK_WAIT", d, NoConfig, o, w)
  BY DEF SlotOf
<1> HIDE DEF p
<1>5. Slot!Waiting(p, d) = SlotOf("NETWORK_WAIT", d, NoConfig, o, w)
  BY <1>1, <1>2, <1>3, <1>4
<1> QED
  BY <1>5 DEF p

\* The slot of a port that serves its configuration.
LEMMA SlotServing ==
    ASSUME NEW l, NEW c, NEW t, NEW o, NEW w, NEW d
    PROVE  Slot!Serving(SlotOf(l, c, t, o, w), d) = SlotOf("READY", d, NoConfig, Open, w)
<1> DEFINE p == SlotOf(l, c, t, o, w)
<1>1. Slot!Serving(p, d) = [[[[p EXCEPT !.life = "READY"] EXCEPT !.current = d]
                             EXCEPT !.target = NoConfig] EXCEPT !.owned = Open]
  BY DEF Slot!Serving, Open
<1>2. [p EXCEPT !.life = "READY"] = SlotOf("READY", c, t, o, w)
  BY DEF SlotOf
<1>3. [SlotOf("READY", c, t, o, w) EXCEPT !.current = d] = SlotOf("READY", d, t, o, w)
  BY DEF SlotOf
<1>4. [SlotOf("READY", d, t, o, w) EXCEPT !.target = NoConfig] = SlotOf("READY", d, NoConfig, o, w)
  BY DEF SlotOf
<1>5. [SlotOf("READY", d, NoConfig, o, w) EXCEPT !.owned = Open]
      = SlotOf("READY", d, NoConfig, Open, w)
  BY DEF SlotOf
<1> HIDE DEF p
<1>6. Slot!Serving(p, d) = SlotOf("READY", d, NoConfig, Open, w)
  BY <1>1, <1>2, <1>3, <1>4, <1>5
<1> QED
  BY <1>6 DEF p

\* The end of a stop: the port is disabled, and has the configuration of a stop that
\* was to disable it.
LEMMA SlotStopped ==
    ASSUME NEW l, NEW c, NEW t, NEW o, NEW w
    PROVE  SlotOf("DISABLED", IF t = NoConfig THEN c ELSE t, NoConfig, o, w)
           \in Slot!AfterStop(SlotOf(l, c, t, o, w))
<1> DEFINE p == SlotOf(l, c, t, o, w)
           e == IF t = NoConfig THEN c ELSE t
<1>1. p.current = c /\ p.target = t
  BY DEF SlotOf
<1>2. [p EXCEPT !.life = "DISABLED"] = SlotOf("DISABLED", c, t, o, w)
  BY DEF SlotOf
<1>3. [SlotOf("DISABLED", c, t, o, w) EXCEPT !.target = NoConfig]
      = SlotOf("DISABLED", c, NoConfig, o, w)
  BY DEF SlotOf
<1> HIDE DEF p
<1>4. [[[p EXCEPT !.life = "DISABLED"] EXCEPT !.target = NoConfig] EXCEPT !.current = e]
      \in Slot!AfterStop(p)
  <2>1. [p EXCEPT !.life = "DISABLED", !.target = NoConfig,
                  !.current = IF p.target = NoConfig THEN p.current ELSE p.target]
        = [[[p EXCEPT !.life = "DISABLED"] EXCEPT !.target = NoConfig] EXCEPT !.current = e]
    BY <1>1
  <2>2. [p EXCEPT !.life = "DISABLED", !.target = NoConfig,
                  !.current = IF p.target = NoConfig THEN p.current ELSE p.target]
        \in Slot!AfterStop(p)
    BY DEF Slot!AfterStop
  <2> QED
    BY <2>1, <2>2
<1> HIDE DEF e
<1>5. [SlotOf("DISABLED", c, NoConfig, o, w) EXCEPT !.current = e]
      = SlotOf("DISABLED", e, NoConfig, o, w)
  BY DEF SlotOf
<1>6. SlotOf("DISABLED", e, NoConfig, o, w) \in Slot!AfterStop(p)
  BY <1>2, <1>3, <1>4, <1>5
<1> QED
  BY <1>6 DEF p, e

\* What the port shows, by its fields.
LEMMA AsSlotIs ==
    AsSlot = SlotOf(SlotLife(lifecycle), current,
                    IF lifecycle = "RECONFIGURING" \/ pendingDisable THEN staged ELSE NoConfig,
                    listener # NoConfig, networkWait)
BY DEF AsSlot, SlotOf, SlotLife, Changing

\* Where a step may lead, by the fields.
LEMMA SlotSteps ==
    ASSUME NEW c, NEW t, NEW o, NEW w
    PROVE  /\ \A l : SlotOf(l, c, t, o, w) \in Slot!AfterStep(SlotOf(l, c, t, o, w))
           /\ LET after == Slot!AfterStep(SlotOf("CHANGING", c, t, o, w))
              IN  /\ SlotOf("CHANGING", c, NoConfig, o, w) \in after
                  /\ SlotOf("DOWN", c, NoConfig, o, w) \in after
                  /\ SlotOf("STOPPING", c, NoConfig, o, w) \in after
                  /\ \A d \in {c, t} \ {NoConfig} :
                       IF w THEN SlotOf("NETWORK_WAIT", d, NoConfig, o, w) \in after
                            ELSE SlotOf("READY", d, NoConfig, Open, w) \in after
           /\ SlotOf("DOWN", c, t, o, w) \in Slot!AfterStep(SlotOf("READY", c, t, o, w))
           /\ LET after == Slot!AfterStep(SlotOf("STOPPING", c, t, o, w))
              IN  /\ SlotOf("DOWN", c, t, o, w) \in after
                  /\ IF t = NoConfig THEN SlotOf("DISABLED", c, NoConfig, o, w) \in after
                     ELSE SlotOf("DISABLED", t, NoConfig, o, w) \in after
<1>1. \A l : SlotOf(l, c, t, o, w) \in Slot!AfterStep(SlotOf(l, c, t, o, w))
  BY DEF SlotOf, Slot!AfterStep, Slot!AfterChange, Slot!AfterStop
<1>2. ASSUME NEW l
      PROVE  /\ [SlotOf("CHANGING", c, t, o, w) EXCEPT !.target = NoConfig]
                = SlotOf("CHANGING", c, NoConfig, o, w)
             /\ [SlotOf("CHANGING", c, NoConfig, o, w) EXCEPT !.life = l]
                = SlotOf(l, c, NoConfig, o, w)
  BY DEF SlotOf
<1>3. ASSUME NEW d
      PROVE  /\ Slot!Waiting(SlotOf("CHANGING", c, t, o, w), d)
                = SlotOf("NETWORK_WAIT", d, NoConfig, o, w)
             /\ Slot!Serving(SlotOf("CHANGING", c, t, o, w), d)
                = SlotOf("READY", d, NoConfig, Open, w)
  <2>1. Slot!Waiting(SlotOf("CHANGING", c, t, o, w), d) = SlotOf("NETWORK_WAIT", d, NoConfig, o, w)
    BY SlotWaiting
  <2>2. Slot!Serving(SlotOf("CHANGING", c, t, o, w), d) = SlotOf("READY", d, NoConfig, Open, w)
    BY SlotServing
  <2> QED
    BY <2>1, <2>2
<1>4. LET after == Slot!AfterStep(SlotOf("CHANGING", c, t, o, w))
      IN  /\ SlotOf("CHANGING", c, NoConfig, o, w) \in after
          /\ SlotOf("DOWN", c, NoConfig, o, w) \in after
          /\ SlotOf("STOPPING", c, NoConfig, o, w) \in after
          /\ \A d \in {c, t} \ {NoConfig} :
               IF w THEN SlotOf("NETWORK_WAIT", d, NoConfig, o, w) \in after
                    ELSE SlotOf("READY", d, NoConfig, Open, w) \in after
  <2>1. /\ SlotOf("CHANGING", c, t, o, w).life = "CHANGING"
        /\ SlotOf("CHANGING", c, t, o, w).current = c
        /\ SlotOf("CHANGING", c, t, o, w).target = t
        /\ SlotOf("CHANGING", c, t, o, w).wait = w
    BY DEF SlotOf
  <2> QED
    BY ZenonT(60), <2>1, <1>2, <1>3 DEF Slot!AfterStep, Slot!AfterChange
<1>5. SlotOf("DOWN", c, t, o, w) \in Slot!AfterStep(SlotOf("READY", c, t, o, w))
  BY DEF SlotOf, Slot!AfterStep
<1>6. LET after == Slot!AfterStep(SlotOf("STOPPING", c, t, o, w))
      IN  /\ SlotOf("DOWN", c, t, o, w) \in after
          /\ IF t = NoConfig THEN SlotOf("DISABLED", c, NoConfig, o, w) \in after
             ELSE SlotOf("DISABLED", t, NoConfig, o, w) \in after
  <2> DEFINE p == SlotOf("STOPPING", c, t, o, w)
  <2>1. p.life = "STOPPING" /\ p.target = t /\ p.current = c
    BY DEF SlotOf
  <2>2. [p EXCEPT !.life = "DOWN"] = SlotOf("DOWN", c, t, o, w)
    BY DEF SlotOf
  <2>3. SlotOf("DISABLED", IF t = NoConfig THEN c ELSE t, NoConfig, o, w) \in Slot!AfterStop(p)
    BY SlotStopped
  <2>4. Slot!AfterStep(p) = Slot!AfterStop(p)
    BY <2>1 DEF Slot!AfterStep
  <2> HIDE DEF p
  <2>5. SlotOf("DOWN", c, t, o, w) \in Slot!AfterStop(p)
    BY <2>2 DEF Slot!AfterStop
  <2> QED
    BY <2>3, <2>4, <2>5 DEF p
<1> QED
  BY <1>1, <1>4, <1>5, <1>6
\* The target of what the port shows.
Target == IF lifecycle = "RECONFIGURING" \/ pendingDisable THEN staged ELSE NoConfig

\* What a step shows before and after, given that the invariant holds: it leaves the
\* wait alone.
LEMMA StepShows ==
    ASSUME ControllerInv, UNCHANGED networkWait
    PROVE  /\ AsSlot = SlotOf(SlotLife(lifecycle), current, Target, listener # NoConfig, networkWait)
           /\ AsSlot' = SlotOf(SlotLife(lifecycle'), current', Target', (listener # NoConfig)',
                               networkWait)
           /\ lifecycle = "RECONFIGURING" => Target = staged /\ staged # NoConfig
           /\ lifecycle # "RECONFIGURING" /\ ~pendingDisable => Target = NoConfig
           /\ pendingDisable => /\ lifecycle \in {"STOPPING", "ERROR"} /\ Target = staged
                                /\ staged # NoConfig
           /\ current # NoConfig
           /\ SlotLife(lifecycle) = "CHANGING" => lifecycle \in Changing
           /\ lifecycle \in Changing => SlotLife(lifecycle) = "CHANGING" /\ listener = NoConfig
           /\ lifecycle \in {"READY", "STOPPING", "DISABLED", "NETWORK_WAIT"} =>
                SlotLife(lifecycle) = lifecycle
           /\ lifecycle \in {"DEGRADED", "ERROR"} => SlotLife(lifecycle) = "DOWN"
<1>1. AsSlot = SlotOf(SlotLife(lifecycle), current, Target, listener # NoConfig, networkWait)
  BY AsSlotIs DEF Target
<1>2. AsSlot' = SlotOf(SlotLife(lifecycle'), current', Target', (listener # NoConfig)', networkWait)
  BY DEF AsSlot, SlotOf, SlotLife, Changing, Target
<1>3. current # NoConfig /\ (staged \in Config => staged # NoConfig)
  BY CoreIs DEF ControllerInv, TypeOK
<1>4. /\ lifecycle = "RECONFIGURING" => Target = staged /\ staged # NoConfig
      /\ lifecycle # "RECONFIGURING" /\ ~pendingDisable => Target = NoConfig
      /\ pendingDisable => /\ lifecycle \in {"STOPPING", "ERROR"} /\ Target = staged
                           /\ staged # NoConfig
  BY <1>3 DEF Target, ControllerInv, ChangeInv
<1>5. /\ SlotLife(lifecycle) = "CHANGING" => lifecycle \in Changing
      /\ lifecycle \in Changing => SlotLife(lifecycle) = "CHANGING" /\ listener = NoConfig
      /\ lifecycle \in {"READY", "STOPPING", "DISABLED", "NETWORK_WAIT"} =>
           SlotLife(lifecycle) = lifecycle
      /\ lifecycle \in {"DEGRADED", "ERROR"} => SlotLife(lifecycle) = "DOWN"
  BY DEF SlotLife, Changing, ControllerInv, ListenerInv, TypeOK, Lifecycles
<1> QED
  BY <1>1, <1>2, <1>3, <1>4, <1>5
\* A change goes on, ends out of service, or ends with the old or the new configuration.
ChangeGoesOn ==
    \/ /\ lifecycle' \in Changing /\ listener' = NoConfig
       /\ current' = current /\ Target' \in {Target, NoConfig}
    \/ /\ lifecycle' \in {"ERROR", "STOPPING"} /\ listener' = NoConfig
       /\ current' = current /\ Target' = NoConfig
    \/ /\ networkWait /\ lifecycle' = "NETWORK_WAIT" /\ listener' = NoConfig
       /\ current' \in {current, Target} \ {NoConfig} /\ Target' = NoConfig
    \/ /\ ~networkWait /\ lifecycle' = "READY" /\ listener' # NoConfig
       /\ current' \in {current, Target} \ {NoConfig} /\ Target' = NoConfig

\* Such a step of a change is a step of the slot.
LEMMA ChangeShows ==
    ASSUME ControllerInv, UNCHANGED networkWait, lifecycle \in Changing, ChangeGoesOn
    PROVE  AsSlot' \in Slot!AfterStep(AsSlot)
<1> DEFINE c == current
           t == Target
           o == listener # NoConfig
           w == networkWait
<1>1. /\ AsSlot = SlotOf("CHANGING", c, t, o, w) /\ listener = NoConfig
      /\ AsSlot' = SlotOf(SlotLife(lifecycle'), current', Target', (listener # NoConfig)', w)
  BY StepShows
<1>2. CASE /\ lifecycle' \in Changing /\ listener' = NoConfig
           /\ current' = current /\ Target' \in {Target, NoConfig}
  <2>1. SlotLife(lifecycle') = "CHANGING" /\ (listener # NoConfig)' = o
    BY <1>1, <1>2 DEF SlotLife, Changing
  <2>2. AsSlot' = SlotOf("CHANGING", c, Target', o, w)
    BY <1>1, <1>2, <2>1
  <2> QED
    BY <1>1, <1>2, <2>2, SlotSteps
<1>3. CASE /\ lifecycle' \in {"ERROR", "STOPPING"} /\ listener' = NoConfig
           /\ current' = current /\ Target' = NoConfig
  <2>1. SlotLife(lifecycle') \in {"DOWN", "STOPPING"} /\ (listener # NoConfig)' = o
    BY <1>1, <1>3 DEF SlotLife, Changing
  <2>2. AsSlot' = SlotOf(SlotLife(lifecycle'), c, NoConfig, o, w)
    BY <1>1, <1>3, <2>1
  <2> QED
    BY <1>1, <2>1, <2>2, SlotSteps
<1>4. CASE /\ networkWait /\ lifecycle' = "NETWORK_WAIT" /\ listener' = NoConfig
           /\ current' \in {current, Target} \ {NoConfig} /\ Target' = NoConfig
  <2>1. SlotLife(lifecycle') = "NETWORK_WAIT" /\ (listener # NoConfig)' = o
    BY <1>1, <1>4 DEF SlotLife, Changing
  <2>2. AsSlot' = SlotOf("NETWORK_WAIT", current', NoConfig, o, w)
    BY <1>1, <1>4, <2>1
  <2>3. current' \in {c, t} \ {NoConfig} /\ w
    BY <1>4
  <2> HIDE DEF c, t, o, w
  <2>4. SlotOf("NETWORK_WAIT", current', NoConfig, o, w) \in Slot!AfterStep(SlotOf("CHANGING", c, t, o, w))
    BY <2>3, SlotSteps, Zenon
  <2> QED
    BY <1>1, <2>2, <2>4
<1>5. CASE /\ ~networkWait /\ lifecycle' = "READY" /\ listener' # NoConfig
           /\ current' \in {current, Target} \ {NoConfig} /\ Target' = NoConfig
  <2>1. SlotLife(lifecycle') = "READY" /\ (listener # NoConfig)' = Open
    BY <1>5 DEF SlotLife, Changing, Open
  <2>2. AsSlot' = SlotOf("READY", current', NoConfig, Open, w)
    BY <1>1, <1>5, <2>1
  <2> QED
    BY <1>1, <1>5, <2>2, SlotSteps
<1> QED
  BY <1>2, <1>3, <1>4, <1>5 DEF ChangeGoesOn
\* The four steps of a change are such steps.
LEMMA StepStartingShows ==
    ASSUME ControllerInv, ControllerInv', NEW q, StepStarting(q)
    PROVE  AsSlot' \in Slot!AfterStep(AsSlot)
<1>1. lifecycle \in Changing /\ listener = NoConfig /\ ~pendingDisable /\ current # NoConfig
  BY CoreIs DEF ControllerInv, TypeOK, ListenerInv, ChangeInv, StepStarting, Changing
<1>2. ChangeGoesOn
  BY <1>1, CoreIs DEF StepStarting, StartListenerOrFail, Follow, ListenerStarts, ListenerFails,
     configVars,
                      flagVars, ChangeGoesOn, Target, Changing
<1> QED
  BY <1>1, <1>2, ChangeShows DEF StepStarting, flagVars

\* A step that binds the listener again is one of the slot, or none.
LEMMA StepRebindShows ==
    ASSUME ControllerInv, ControllerInv', NEW q, StepRebind(q)
    PROVE  AsSlot' \in Slot!AfterStep(AsSlot)
<1>1. /\ lifecycle \in Changing /\ listener = NoConfig /\ ~pendingDisable
      /\ current # NoConfig /\ staged # NoConfig
  BY CoreIs DEF ControllerInv, TypeOK, ListenerInv, ChangeInv, StepRebind, Changing
<1>2. ChangeGoesOn
  BY <1>1 DEF StepRebind, Follow, ListenerStarts, ListenerFails, TakeOver, configVars,
              ChangeGoesOn, Target, Changing
<1> QED
  BY <1>1, <1>2, ChangeShows DEF StepRebind

\* A step that waits for the runtime is one of the slot, or none.
LEMMA StepReconfiguringShows ==
    ASSUME ControllerInv, ControllerInv', NEW q, StepReconfiguring(q)
    PROVE  AsSlot' \in Slot!AfterStep(AsSlot)
<1>1. /\ lifecycle \in Changing /\ listener = NoConfig /\ ~pendingDisable
      /\ current # NoConfig /\ staged # NoConfig
  BY CoreIs DEF ControllerInv, TypeOK, ListenerInv, ChangeInv, StepReconfiguring, Changing
<1>2. ChangeGoesOn
  BY <1>1 DEF StepReconfiguring, StartListenerOrFail, Follow, ListenerStarts, ListenerFails,
              TakeOver, configVars, flagVars, ChangeGoesOn, Target, Changing
<1> QED
  BY <1>1, <1>2, ChangeShows DEF StepReconfiguring, flagVars

\* A step that goes back to the old configuration is one of the slot, or none.
LEMMA StepRollingBackShows ==
    ASSUME ControllerInv, ControllerInv', NEW q, StepRollingBack(q)
    PROVE  AsSlot' \in Slot!AfterStep(AsSlot)
<1>1. /\ lifecycle \in Changing /\ listener = NoConfig /\ ~pendingDisable /\ current # NoConfig
  BY CoreIs DEF ControllerInv, TypeOK, ListenerInv, ChangeInv, StepRollingBack, Changing
<1>2. ChangeGoesOn
  BY <1>1 DEF StepRollingBack, Follow, ListenerStarts, ListenerFails, configVars, flagVars,
              ChangeGoesOn, Target, Changing
<1> QED
  BY <1>1, <1>2, ChangeShows DEF StepRollingBack, flagVars

\* A port in service may go down.
LEMMA StepReadyShows ==
    ASSUME ControllerInv, NEW q, StepReady(q)
    PROVE  AsSlot' \in Slot!AfterStep(AsSlot)
<1>1. /\ UNCHANGED <<networkWait, current, listener, staged, pendingDisable>>
      /\ lifecycle = "READY" /\ lifecycle' \in {"READY", "DEGRADED"}
  BY DEF StepReady, Follow, configVars, flagVars
<1>2. Target' = Target /\ (listener # NoConfig)' = (listener # NoConfig)
  BY <1>1 DEF Target
<1>3. SlotLife(lifecycle) = "READY" /\ SlotLife(lifecycle') \in {"READY", "DOWN"}
  BY <1>1 DEF SlotLife, Changing
<1>4. AsSlot' = SlotOf(SlotLife(lifecycle'), current, Target, listener # NoConfig, networkWait)
  BY <1>1, <1>2, StepShows
<1>5. AsSlot = SlotOf("READY", current, Target, listener # NoConfig, networkWait)
  BY <1>1, <1>3, StepShows
<1> QED
  BY <1>3, <1>4, <1>5, SlotSteps

\* A stop goes on, fails, or ends; a stop that is to disable the port takes over its
\* configuration.
LEMMA StepStoppingShows ==
    ASSUME ControllerInv, NEW q, StepStopping(q)
    PROVE  AsSlot' \in Slot!AfterStep(AsSlot)
<1> DEFINE c == current
           t == Target
           o == listener # NoConfig
           w == networkWait
<1>1. /\ UNCHANGED <<networkWait, listener, staged>> /\ lifecycle = "STOPPING"
      /\ \/ lifecycle' = "STOPPING" /\ current' = current /\ pendingDisable' = pendingDisable
         \/ lifecycle' = "ERROR" /\ current' = current /\ pendingDisable' = pendingDisable
         \/ lifecycle' = "DISABLED" /\ ~pendingDisable' /\ pendingDisable /\ current' = staged
         \/ lifecycle' = "DISABLED" /\ ~pendingDisable' /\ ~pendingDisable /\ current' = current
  BY DEF StepStopping, StopFailed, Follow, TakeOver, configVars, ControllerInv, TypeOK
<1>2. /\ SlotLife(lifecycle) = "STOPPING"
      /\ lifecycle' = "STOPPING" => SlotLife(lifecycle') = "STOPPING"
      /\ lifecycle' = "ERROR" => SlotLife(lifecycle') = "DOWN"
      /\ lifecycle' = "DISABLED" => SlotLife(lifecycle') = "DISABLED"
  BY <1>1 DEF SlotLife, Changing
<1>3. /\ AsSlot = SlotOf("STOPPING", c, t, o, w)
      /\ AsSlot' = SlotOf(SlotLife(lifecycle'), current', Target', o, w)
  BY <1>1, <1>2, StepShows
<1>4. \/ SlotLife(lifecycle') \in {"STOPPING", "DOWN"} /\ current' = c /\ Target' = t
      \/ SlotLife(lifecycle') = "DISABLED" /\ Target' = NoConfig
         /\ current' = IF t = NoConfig THEN c ELSE t
  BY <1>1, <1>2, StepShows DEF Target
<1> HIDE DEF c, t, o, w
<1> QED
  BY <1>3, <1>4, SlotSteps
\* Nothing to follow: the slot stays as it is.
LEMMA StepIdleShows ==
    ASSUME NEW q, StepIdle(q)
    PROVE  AsSlot' = AsSlot
BY DEF StepIdle, Follow, configVars, flagVars, AsSlot

\* gateway_controller_start starts the slot.
LEMMA StartShows ==
    ASSUME ControllerInv, Start
    PROVE  Slot!Start
<1>1. lifecycle = "DISABLED" /\ current \in Config /\ current.enabled \in BOOLEAN /\ ~pendingDisable
  BY CoreIs DEF ControllerInv, TypeOK, PhaseInv, Start
<1>2. AsSlot = SlotOf("DISABLED", current, NoConfig, listener # NoConfig, networkWait)
  BY <1>1, StepShows DEF Start, flagVars
<1>3. AsSlot' = IF current.enabled
                THEN SlotOf("CHANGING", current, NoConfig, listener # NoConfig, networkWait)
                ELSE AsSlot
  BY <1>1 DEF Start, configVars, flagVars, AsSlot, SlotOf
<1>4. AsSlot.life = "DISABLED" /\ AsSlot.current = current
  BY <1>2 DEF SlotOf
<1>5. [AsSlot EXCEPT !.life = "CHANGING"]
      = SlotOf("CHANGING", current, NoConfig, listener # NoConfig, networkWait)
  BY <1>2 DEF SlotOf
<1> QED
  BY <1>3, <1>4, <1>5 DEF Slot!Start, Slot!Started

\* gateway_controller_reconfigure changes the slot: a port that stays disabled, ...
LEMMA DisableDisabledShows ==
    ASSUME ControllerInv, NEW config \in Config, DisableDisabled(config)
    PROVE  Slot!Change
<1>1. lifecycle = "DISABLED" /\ ~config.enabled
  BY DEF DisableDisabled
<1>2. AsSlot' = [AsSlot EXCEPT !.current = config]
  BY <1>1 DEF DisableDisabled, flagVars, AsSlot
<1>3. AsSlot.life = "DISABLED" /\ [AsSlot EXCEPT !.current = config].current = config
  BY <1>1 DEF AsSlot
<1> QED
  BY <1>1, <1>2, <1>3 DEF Slot!Change, Slot!Accepts, Slot!Changed, Slot!Started

\* ... a port that is started, ...
LEMMA EnableShows ==
    ASSUME ControllerInv, NEW config \in Config, Enable(config)
    PROVE  Slot!Change
<1>1. lifecycle = "DISABLED" /\ config.enabled /\ lifecycle' = "STARTING" /\ current' = config
  BY DEF Enable
<1> DEFINE t == IF pendingDisable THEN staged ELSE NoConfig
           o == listener # NoConfig
           w == networkWait
<1>a. /\ AsSlot = SlotOf("DISABLED", current, t, o, w)
      /\ AsSlot' = SlotOf("CHANGING", config, t, o, w)
  BY <1>1 DEF Enable, flagVars, AsSlot, SlotOf
<1>b. [SlotOf("DISABLED", current, t, o, w) EXCEPT !.current = config]
      = SlotOf("DISABLED", config, t, o, w)
  BY DEF SlotOf
<1>c. [SlotOf("DISABLED", config, t, o, w) EXCEPT !.life = "CHANGING"]
      = SlotOf("CHANGING", config, t, o, w)
  BY DEF SlotOf
<1> HIDE DEF t, o, w
<1>2. AsSlot' = [[AsSlot EXCEPT !.current = config] EXCEPT !.life = "CHANGING"]
  BY <1>a, <1>b, <1>c
<1>3. AsSlot.life = "DISABLED" /\ [AsSlot EXCEPT !.current = config].current = config
  BY <1>1 DEF AsSlot
<1> QED
  BY <1>1, <1>2, <1>3 DEF Slot!Change, Slot!Accepts, Slot!Changed, Slot!Started

\* ... and a port that is stopped, moved or reconfigured, without its listener.
LEMMA ChangeBegins ==
    ASSUME NEW config \in Config,
           lifecycle \in {"READY", "NETWORK_WAIT"},
           lifecycle' = IF config.enabled THEN "RECONFIGURING" ELSE "STOPPING",
           staged' = config, listener' = NoConfig, UNCHANGED <<current, networkWait>>,
           config.enabled \/ pendingDisable'
    PROVE  Slot!Change
<1> DEFINE l == IF config.enabled THEN "CHANGING" ELSE "STOPPING"
           t == IF pendingDisable THEN staged ELSE NoConfig
           o == listener # NoConfig
           w == networkWait
           closed == FALSE
<1>1. /\ AsSlot' = SlotOf(l, current, config, closed, w)
      /\ AsSlot = SlotOf(lifecycle, current, t, o, w)
  BY DEF AsSlot, SlotOf
<1>2. AsSlot.life = lifecycle
  BY DEF AsSlot
<1>3. Slot!Changed(AsSlot, config)
      = [[[AsSlot EXCEPT !.life = l] EXCEPT !.target = config] EXCEPT !.owned = closed]
  BY <1>2 DEF Slot!Changed
<1> HIDE DEF l, t, o, w, closed
<1>4. [SlotOf(lifecycle, current, t, o, w) EXCEPT !.life = l] = SlotOf(l, current, t, o, w)
  BY DEF SlotOf
<1>5. [SlotOf(l, current, t, o, w) EXCEPT !.target = config] = SlotOf(l, current, config, o, w)
  BY DEF SlotOf
<1>6. [SlotOf(l, current, config, o, w) EXCEPT !.owned = closed]
      = SlotOf(l, current, config, closed, w)
  BY DEF SlotOf
<1>7. AsSlot' = Slot!Changed(AsSlot, config)
  BY <1>1, <1>3, <1>4, <1>5, <1>6
<1> QED
  BY <1>2, <1>7 DEF Slot!Change, Slot!Accepts
\* gateway_controller_network_wait: the slot waits, and leaves service if it can.
LEMMA NetworkShows ==
    ASSUME ControllerInv, NetworkLost \/ NetworkBack
    PROVE  Slot!NetworkWait
<1> DEFINE l == SlotLife(lifecycle)
           c == current
           t == Target
           o == listener # NoConfig
           w == networkWait
<1>1. AsSlot = SlotOf(l, c, t, o, w)
  BY AsSlotIs DEF Target
<1>2. UNCHANGED <<current, staged, pendingDisable>>
  BY DEF NetworkLost, NetworkBack, configVars
<1>3. CASE UNCHANGED <<lifecycle, listener>>
  <2> DEFINE ww == networkWait'
  <2>1. AsSlot' = SlotOf(l, c, t, o, ww)
    BY <1>2, <1>3 DEF AsSlot, SlotOf, SlotLife, Changing, Target
  <2>2. ww = TRUE \/ ww = FALSE
    BY DEF NetworkLost, NetworkBack
  <2> HIDE DEF l, c, t, o, w, ww
  <2>3. [SlotOf(l, c, t, o, w) EXCEPT !.wait = ww] = SlotOf(l, c, t, o, ww)
    BY DEF SlotOf
  <2>4. AsSlot' = [AsSlot EXCEPT !.wait = ww]
    BY <1>1, <2>1, <2>3
  <2>5. AsSlot' = [AsSlot EXCEPT !.wait = TRUE] \/ AsSlot' = [AsSlot EXCEPT !.wait = FALSE]
    BY <2>2, <2>4
  <2> QED
    BY <2>5 DEF Slot!NetworkWait, Slot!AfterWait
<1>4. CASE lifecycle = "READY" /\ lifecycle' = "NETWORK_WAIT" /\ listener' = NoConfig /\ networkWait'
  <2> DEFINE yes == TRUE
             no == FALSE
  <2>1. /\ AsSlot' = SlotOf("NETWORK_WAIT", c, t, no, yes) /\ l = "READY"
    BY <1>2, <1>4 DEF AsSlot, SlotOf, SlotLife, Changing, Target
  <2>2. AsSlot.life = "READY"
    BY <1>4 DEF AsSlot
  <2>3. [AsSlot EXCEPT !.wait = TRUE, !.life = "NETWORK_WAIT", !.owned = FALSE]
        = [[[AsSlot EXCEPT !.wait = yes] EXCEPT !.life = "NETWORK_WAIT"] EXCEPT !.owned = no]
    OBVIOUS
  <2>4. [AsSlot EXCEPT !.wait = TRUE, !.life = "NETWORK_WAIT", !.owned = FALSE]
        \in Slot!AfterWait(AsSlot)
    BY <2>2 DEF Slot!AfterWait
  <2> HIDE DEF l, c, t, o, w, yes, no
  <2>5. [SlotOf("READY", c, t, o, w) EXCEPT !.wait = yes] = SlotOf("READY", c, t, o, yes)
    BY DEF SlotOf
  <2>6. [SlotOf("READY", c, t, o, yes) EXCEPT !.life = "NETWORK_WAIT"]
        = SlotOf("NETWORK_WAIT", c, t, o, yes)
    BY DEF SlotOf
  <2>7. [SlotOf("NETWORK_WAIT", c, t, o, yes) EXCEPT !.owned = no]
        = SlotOf("NETWORK_WAIT", c, t, no, yes)
    BY DEF SlotOf
  <2>8. AsSlot' = [[[AsSlot EXCEPT !.wait = yes] EXCEPT !.life = "NETWORK_WAIT"] EXCEPT !.owned = no]
    BY <1>1, <2>1, <2>5, <2>6, <2>7
  <2> QED
    BY <2>3, <2>4, <2>8 DEF Slot!NetworkWait
<1> QED
  BY <1>3, <1>4 DEF NetworkLost, NetworkBack, ListenerStops

\* gateway_controller_shutdown
LEMMA ShutdownShows ==
    ASSUME ControllerInv, Shutdown
    PROVE  Slot!Shutdown
<1> DEFINE l == SlotLife(lifecycle)
           ll == SlotLife(lifecycle')
           c == current
           t == Target
           tt == Target'
           o == listener # NoConfig
           oo == (listener # NoConfig)'
           w == networkWait
           closed == FALSE
<1>1. /\ UNCHANGED <<current, staged, pendingDisable, networkWait>>
      /\ lifecycle' \in {lifecycle, "STOPPING"}
      /\ lifecycle' # lifecycle => lifecycle' = "STOPPING" /\ lifecycle # "DISABLED"
      /\ lifecycle' = lifecycle => lifecycle \in {"DISABLED", "STOPPING", "DEGRADED", "ERROR"}
      /\ listener' = NoConfig \/ listener' = listener
  BY DEF Shutdown, Runtime!Stoppable, ListenerStops, ListenerHangs, configVars, flagVars,
         ControllerInv, TypeOK, Lifecycles, RuntimeInv, ChangeInv
<1>2. /\ AsSlot = SlotOf(l, c, t, o, w)
      /\ AsSlot' = SlotOf(ll, c, tt, oo, w)
  BY <1>1, StepShows
<1>3. tt \in {NoConfig, t}
  BY <1>1 DEF Target
<1>4. oo = closed \/ oo = o
  BY <1>1
<1>5. ll \in IF l \in {"DISABLED", "STOPPING"} THEN {l} ELSE {"STOPPING"} \cup ({l} \cap {"DOWN"})
  BY <1>1 DEF SlotLife, Changing, ControllerInv, TypeOK, Lifecycles
<1> HIDE DEF l, ll, c, t, tt, o, oo, w, closed
<1>6. AsSlot.life = l /\ AsSlot.target = t /\ AsSlot.owned = o
  BY <1>2 DEF SlotOf
<1>7. [SlotOf(l, c, t, o, w) EXCEPT !.life = ll] = SlotOf(ll, c, t, o, w)
  BY DEF SlotOf
<1>8. [SlotOf(ll, c, t, o, w) EXCEPT !.owned = oo] = SlotOf(ll, c, t, oo, w)
  BY DEF SlotOf
<1>9. [SlotOf(ll, c, t, oo, w) EXCEPT !.target = tt] = SlotOf(ll, c, tt, oo, w)
  BY DEF SlotOf
<1> DEFINE stopped == {[AsSlot EXCEPT !.life = x] :
                          x \in IF AsSlot.life \in {"DISABLED", "STOPPING"} THEN {AsSlot.life}
                                ELSE {"STOPPING"} \cup ({AsSlot.life} \cap {"DOWN"})}
           released == stopped \cup {[q EXCEPT !.owned = FALSE] : q \in stopped}
<1>10. SlotOf(ll, c, t, o, w) \in stopped
  BY <1>2, <1>5, <1>6, <1>7
<1>11. SlotOf(ll, c, t, oo, w) \in released
  <2>1. CASE oo = o
    BY <1>10, <2>1
  <2>2. CASE oo = closed
    BY <1>8, <1>10, <2>2 DEF closed
  <2> QED
    BY <1>4, <2>1, <2>2
<1>12. AsSlot' \in released \cup {[q EXCEPT !.target = NoConfig] : q \in released}
  <2>1. CASE tt = t
    BY <1>2, <1>11, <2>1
  <2>2. CASE tt = NoConfig
    BY <1>2, <1>9, <1>11, <2>2
  <2> QED
    BY <1>3, <2>1, <2>2
<1> QED
  BY <1>12 DEF Slot!Shutdown, Slot!AfterShutdown

-----------------------------------------------------------------------------
(* The port implements PortSlot. *)

\* A port before its start is a fresh slot.
LEMMA SlotInit == ASSUME Init PROVE Slot!Init
<1>1. current \in Config
  BY DEF Init
<1>2. AsSlot = SlotOf("DISABLED", current, NoConfig, FALSE, FALSE)
  BY DEF Init, AsSlot, SlotOf
<1>3. SlotOf("DISABLED", current, NoConfig, FALSE, FALSE) = Slot!Fresh(current)
  BY DEF SlotOf, Slot!Fresh
<1> QED
  BY <1>1, <1>2, <1>3 DEF Slot!Init

\* A call or a step is a step of the slot, or leaves it as it is.
LEMMA SlotStep ==
    ASSUME ControllerInv, ControllerInv', [Next]_vars
    PROVE  [Slot!Next]_AsSlot
<1>1. CASE Start
  BY <1>1, StartShows DEF Slot!Next
<1>2. CASE StepPort
  <2>1. PICK q \in Stepped :
          \/ StepStarting(q) \/ StepReady(q) \/ StepRebind(q) \/ StepReconfiguring(q)
          \/ StepRollingBack(q) \/ StepStopping(q) \/ StepIdle(q)
    BY <1>2 DEF StepPort
  <2>2. AsSlot' \in Slot!AfterStep(AsSlot) \/ AsSlot' = AsSlot
    BY <2>1, StepStartingShows, StepReadyShows, StepRebindShows, StepReconfiguringShows,
       StepRollingBackShows, StepStoppingShows, StepIdleShows
  <2> QED
    BY <2>2 DEF Slot!Next, Slot!Step
<1>3. CASE Refuse
  BY <1>3 DEF Refuse, ListenerHangs, configVars, flagVars, AsSlot
<1>4. ASSUME NEW config \in Wanted, DisableDisabled(config) \/ Enable(config)
      PROVE  Slot!Next
  <2>1. config \in Config
    BY DEF Wanted
  <2> QED
    BY <1>4, <2>1, DisableDisabledShows, EnableShows DEF Slot!Next
<1>5. ASSUME NEW config \in Wanted, Disable(config) \/ Rebind(config) \/ Reconfigure(config)
      PROVE  Slot!Next
  <2>1. config \in Config /\ lifecycle \in {"READY", "NETWORK_WAIT"}
    BY <1>5 DEF Wanted, Disable, Rebind, Reconfigure, Accepts
  <2>2. /\ lifecycle' = IF config.enabled THEN "RECONFIGURING" ELSE "STOPPING"
        /\ staged' = config /\ listener' = NoConfig /\ UNCHANGED <<current, networkWait>>
        /\ config.enabled \/ pendingDisable'
    BY <1>5 DEF Disable, Rebind, Reconfigure, Stage, ListenerStops, flagVars
  <2> QED
    BY <2>1, <2>2, ChangeBegins DEF Slot!Next
<1>6. CASE NetworkLost \/ NetworkBack
  BY <1>6, NetworkShows DEF Slot!Next
<1>7. CASE Shutdown
  BY <1>7, ShutdownShows DEF Slot!Next
<1>8. CASE UNCHANGED vars
  BY <1>8 DEF vars, configVars, flagVars, AsSlot
<1> QED
  BY <1>1, <1>2, <1>3, <1>4, <1>5, <1>6, <1>7, <1>8 DEF Next

\* The port is a PortSlot: what the application and the coordinator are built on is
\* what the controller does.
THEOREM ImplementsSlot == Spec => FollowsSlot
<1>1. Init => Slot!Init
  BY SlotInit
<1>2. ControllerInv /\ ControllerInv' /\ [Next]_vars => [Slot!Next]_AsSlot
  BY SlotStep
<1> QED
  BY <1>1, <1>2, ControllerInvariance, PTL DEF Spec, FollowsSlot, Slot!Spec
=============================================================================
