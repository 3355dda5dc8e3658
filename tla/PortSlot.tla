------------------------------- MODULE PortSlot -------------------------------
(***************************************************************************)
(* A port as the application and the coordinator see it: a lifecycle and   *)
(* the configuration it runs.  STARTING, RECONFIGURING and ROLLING_BACK    *)
(* are one, CHANGING; DEGRADED and ERROR are one, DOWN.  PortController    *)
(* implements this module; Application is built on it.                     *)
(*                                                                         *)
(* The operators take and return a whole port p.                           *)
(***************************************************************************)
CONSTANTS Configs,  \* records with a field "enabled"
          NoConfig

VARIABLE slot   \* [life, current, target, owned: it has a listener, wait: network_wait]

Fresh(config) == [life |-> "DISABLED", current |-> config, target |-> NoConfig,
                  owned |-> FALSE, wait |-> FALSE]

Terminal(p) == p.life \in {"READY", "NETWORK_WAIT", "DISABLED", "DOWN"}

Started(p) == IF p.current.enabled THEN [p EXCEPT !.life = "CHANGING"] ELSE p

Serving(p, config) == [p EXCEPT !.life = "READY", !.current = config, !.target = NoConfig,
                                !.owned = TRUE]

Waiting(p, config) == [p EXCEPT !.life = "NETWORK_WAIT", !.current = config,
                                !.target = NoConfig]

\* A change ends with the new configuration or with the old one, in service or
\* not; a listener that does not open stops the port.
AfterChange(p) ==
    LET left == [p EXCEPT !.target = NoConfig]
    IN  {p, left, [left EXCEPT !.life = "DOWN"], [left EXCEPT !.life = "STOPPING"]}
        \cup {IF p.wait THEN Waiting(p, c) ELSE Serving(p, c) :
                c \in {p.current, p.target} \ {NoConfig}}

\* A stop that disables the port takes its configuration over.
AfterStop(p) ==
    {p, [p EXCEPT !.life = "DOWN"],
     [p EXCEPT !.life = "DISABLED", !.target = NoConfig,
               !.current = IF p.target = NoConfig THEN @ ELSE p.target]}
    \cup (IF p.target = NoConfig THEN {} ELSE {[p EXCEPT !.life = "DOWN", !.target = NoConfig]})

\* Where one step of the controller may lead.
AfterStep(p) ==
    CASE p.life = "CHANGING" -> AfterChange(p)
      [] p.life = "READY"    -> {p, [p EXCEPT !.life = "DOWN"]}
      [] p.life = "STOPPING" -> AfterStop(p)
      [] OTHER               -> {p}

\* gateway_controller_reconfigure takes a change.
Accepts(p) == p.life \in {"READY", "DISABLED", "NETWORK_WAIT"}

Changed(p, config) ==
    CASE p.life = "DISABLED" -> Started([p EXCEPT !.current = config])
      [] p.life # "DISABLED" ->
            [p EXCEPT !.life = IF config.enabled THEN "CHANGING" ELSE "STOPPING",
                      !.target = config, !.owned = FALSE]

\* gateway_controller_shutdown: the listener may hang, and a port that was down
\* may have nothing left to stop.
AfterShutdown(p) ==
    LET stopped  == {[p EXCEPT !.life = life] :
                        life \in IF p.life \in {"DISABLED", "STOPPING"} THEN {p.life}
                                 ELSE {"STOPPING"} \cup ({p.life} \cap {"DOWN"})}
        released == stopped \cup {[q EXCEPT !.owned = FALSE] : q \in stopped}
    IN  released \cup {[q EXCEPT !.target = NoConfig] : q \in released}

AfterWait(p) ==
    {[p EXCEPT !.wait = TRUE], [p EXCEPT !.wait = FALSE]}
    \cup (IF p.life = "READY"
          THEN {[p EXCEPT !.wait = TRUE, !.life = "NETWORK_WAIT", !.owned = FALSE]} ELSE {})

Init == \E config \in Configs : slot = Fresh(config)

Start       == slot.life = "DISABLED" /\ slot' = Started(slot)
Step        == slot' \in AfterStep(slot)
Change      == Accepts(slot) /\ \E config \in Configs : slot' = Changed(slot, config)
NetworkWait == slot' \in AfterWait(slot)
Shutdown    == slot' \in AfterShutdown(slot)

Next == Start \/ Step \/ Change \/ NetworkWait \/ Shutdown

Spec == Init /\ [][Next]_slot
=============================================================================
