------------------------------ MODULE PortLife -------------------------------
(***************************************************************************)
(* The life cycle of a port runtime as its controller sees it: the state   *)
(* and the three configurations, without requests, generations and time.   *)
(* PortRuntime implements this module; PortController is built on it.      *)
(*                                                                         *)
(* The operators take and return a whole port p, so that a controller can  *)
(* step the runtime and call it again within one action.                   *)
(***************************************************************************)
CONSTANTS Configs, NoConfig

VARIABLE life    \* [state, current, staged, knownGood]

\* port_state_t
States == {"DISABLED", "STARTING", "READY", "ACTIVE", "WAITING", "RECOVERING",
           "DEGRADED", "RECONFIGURING", "STOPPING", "ERROR"}

Fresh(config) == [state |-> "DISABLED", current |-> config,
                  staged |-> NoConfig, knownGood |-> config]

In(p, next) == [p EXCEPT !.state = next]

\* A request is with the backend.
Busy(p) == p.state \in {"ACTIVE", "WAITING"}

Startable(p) == p.state \in {"DISABLED", "ERROR"}

Reconfigurable(p) == p.state \in {"READY", "ACTIVE", "WAITING", "RECOVERING", "DEGRADED"}

Stoppable(p) == p.state \notin {"DISABLED", "STOPPING"}

Reconfigured(p, config) ==
    [state |-> "RECONFIGURING", current |-> p.current,
     staged |-> config, knownGood |-> p.current]

Detached(p) == IF Busy(p) THEN In(p, "RECOVERING") ELSE p

\* Where one port_runtime_step may lead.
StepsTo(state) ==
    CASE state = "STARTING"      -> {"STARTING", "READY", "RECOVERING"}
      [] state = "READY"         -> {"READY", "ACTIVE"}
      [] state = "ACTIVE"        -> {"WAITING", "RECOVERING"}
      [] state = "WAITING"       -> {"WAITING", "READY", "RECOVERING"}
      [] state = "RECOVERING"    -> {"RECOVERING", "READY", "DEGRADED"}
      [] state = "RECONFIGURING" -> {"READY", "ERROR"}
      [] state = "STOPPING"      -> {"STOPPING", "DISABLED", "ERROR"}
      [] OTHER                   -> {state}

\* The staged configuration was applied.
TookOver(p) ==
    [state |-> "READY", current |-> p.staged, staged |-> p.staged, knownGood |-> p.staged]

AfterStep(p) ==
    {In(p, next) : next \in StepsTo(p.state)}
    \cup (IF p.state = "RECONFIGURING" THEN {TookOver(p)} ELSE {})

Init == \E config \in Configs : life = Fresh(config)

Start         == Startable(life) /\ life' = In(life, "STARTING")
Step          == life' \in AfterStep(life)
Detach        == life' = Detached(life)
IoFailure     == life.state = "READY" /\ life' = In(life, "RECOVERING")
Reconfigure   == Reconfigurable(life) /\ \E config \in Configs : life' = Reconfigured(life, config)
Stop          == Stoppable(life) /\ life' = In(life, "STOPPING")

Next == Start \/ Step \/ Detach \/ IoFailure \/ Reconfigure \/ Stop

Spec == Init /\ [][Next]_life
=============================================================================
