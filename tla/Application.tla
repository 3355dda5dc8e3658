----------------------------- MODULE Application ------------------------------
(***************************************************************************)
(* The application's start, its configuration transactions and its stop    *)
(* (src/app/gateway_application.c, src/gateway/gateway_coordinator.c) over *)
(* the configuration files and the ports; a port is PortSlot, which        *)
(* PortController implements.                                              *)
(*                                                                         *)
(* A loop of the gateway steps the coordinator, with the ports, and then   *)
(* the transaction ("turn").  Requests and the stop come between two loops, *)
(* and the power may be cut at any time, also within a promotion ("call"). *)
(*                                                                         *)
(* Without a network manager: gateway_application_network_map is the       *)
(* identity and no port waits for its network.                             *)
(***************************************************************************)
EXTENDS ConfigFiles, Integers

CONSTANTS
    PortCount,      \* GATEWAY_PORT_COUNT
    NoConfig,
    FirstDirs,      \* the files of a first start
    MaxEvents,      \* model bound: requests and restarts together
    Faults          \* what may fail: "read", "rename", "sync", "init", "port"

Ports == 1..PortCount

ASSUME ApplicationAssumption ==
    /\ FirstDirs \subseteq Dirs
    /\ PortCount \in Nat \ {0}
    /\ Defaults \in Configs /\ SafeMode \in Configs
    /\ \A c \in Configs : \A p, q \in Ports :
          p # q /\ c.port[p].enabled /\ c.port[q].enabled => c.port[p].endpoint # c.port[q].endpoint
    /\ \A p \in Ports : ~SafeMode.port[p].enabled
    /\ MaxEvents \in Nat

VARIABLES
    coord,          \* coordinator.state; READY, DEGRADED and SAFE_MODE are SERVING
    initialized,    \* coordinator.controller_initialized
    stopRequested,  \* run_control.stop_requested
    turn,           \* "coordinator" or "transaction" is next in the loop
    selected,       \* coordinator.selected
    slots,          \* the ports
    tx,             \* configuration_transaction
    call,           \* where promote_configuration is
    told,           \* history: the configurations the results leave for the next boot
    strayed,        \* history: a failed rollback was told, and no change applied since
    events          \* requests and restarts so far

app == <<coord, initialized, stopRequested, turn, selected, slots, tx, call>>
history == <<told, strayed>>
vars == <<files, app, history, events>>

Port == INSTANCE PortSlot WITH Configs <- {Defaults}, slot <- slots

Counted == events < MaxEvents /\ events' = events + 1

May(fault) == fault \in Faults

InProgress == {"ACTIVATING", "PROMOTING", "ROLLING_BACK"}

TxStates == InProgress \cup {"IDLE", "UNCHANGED", "SUCCEEDED", "DURABILITY_UNCERTAIN", "FAILED"}

NoTx == [state |-> "IDLE", index |-> 1, waiting |-> FALSE, rollbackFailed |-> FALSE,
         candidate |-> SafeMode, previous |-> SafeMode]

\* Only the result is of interest when a transaction is over.
Result(state) == [NoTx EXCEPT !.state = state]

AllDone == \A p \in Ports : Port!Terminal(slots[p])

Booted ==
    /\ coord' = "LOADING" /\ initialized' = FALSE /\ stopRequested' = FALSE
    /\ turn' = "coordinator" /\ selected' = SafeMode
    /\ slots' = [p \in Ports |-> Port!Fresh(SafeMode.port[p])]
    /\ tx' = NoTx /\ call' = "none"

Init ==
    /\ dir \in FirstDirs /\ images = {dir} /\ staged = Absent
    /\ coord = "LOADING" /\ initialized = FALSE /\ stopRequested = FALSE
    /\ turn = "coordinator" /\ selected = SafeMode
    /\ slots = [p \in Ports |-> Port!Fresh(SafeMode.port[p])]
    /\ tx = NoTx /\ call = "none"
    /\ told = Saved /\ strayed = FALSE
    /\ events = 0

-----------------------------------------------------------------------------
(* gateway_coordinator_step *)

CoordinatorTurn ==
    /\ turn = "coordinator" /\ turn' = "transaction"
    /\ UNCHANGED <<files, stopRequested, tx, call, history, events>>

\* BOOTSTRAP to VALIDATING_CONFIGURATION.  What was decoded is valid.
LoadConfiguration ==
    /\ coord = "LOADING" /\ ~stopRequested
    /\ selected' \in {Select(dir)} \cup {c \in Unread(dir) : May("read")}
    /\ coord' = "INITIALIZING"
    /\ UNCHANGED <<initialized, slots>>
    /\ CoordinatorTurn

InitializeController ==
    /\ coord = "INITIALIZING" /\ ~stopRequested
    /\ slots' = [p \in Ports |-> Port!Started(Port!Fresh(selected.port[p]))]
    /\ initialized' = TRUE
    /\ coord' = "STARTING_PORTS"
    /\ UNCHANGED selected
    /\ CoordinatorTurn

\* No bindings or no controller; or a binding that does not attach.
InitializeFails ==
    /\ coord = "INITIALIZING" /\ ~stopRequested /\ May("init")
    /\ coord' = "FATAL_ERROR"
    /\ initialized' \in BOOLEAN
    /\ slots' = [p \in Ports |-> Port!Fresh(selected.port[p])]
    /\ UNCHANGED selected
    /\ CoordinatorTurn

\* The controller steps every port.  A port that works takes its changes over.
PortSteps(p) ==
    {q \in Port!AfterStep(slots[p]) :
        \/ May("port") \/ q = slots[p]
        \/ q.life \in {"READY", "DISABLED"} /\ slots[p].target \in {NoConfig, q.current}}

StepPorts == slots' \in {s \in [Ports -> UNION {PortSteps(p) : p \in Ports}] :
                           \A p \in Ports : s[p] \in PortSteps(p)}

StartPorts ==
    /\ coord = "STARTING_PORTS" /\ ~stopRequested
    /\ StepPorts
    /\ coord' = IF AllDone' THEN "SERVING" ELSE coord
    /\ UNCHANGED <<initialized, selected>>
    /\ CoordinatorTurn

Serve ==
    /\ coord = "SERVING" /\ ~stopRequested
    /\ StepPorts
    /\ UNCHANGED <<coord, initialized, selected>>
    /\ CoordinatorTurn

\* begin_shutdown: of the stop request, then the step goes on in the new state;
\* of the application after a fatal error, at the end of its loop.
BeginShutdown ==
    /\ IF initialized
       THEN /\ coord' = "SHUTTING_DOWN"
            /\ slots' \in {s \in [Ports -> UNION {Port!AfterShutdown(slots[p]) : p \in Ports}] :
                             \A p \in Ports : s[p] \in Port!AfterShutdown(slots[p])}
       ELSE coord' = "STOPPED" /\ UNCHANGED slots
    /\ UNCHANGED <<files, initialized, stopRequested, turn, selected, tx, call, history, events>>

StopBegins ==
    /\ turn = "coordinator" /\ stopRequested /\ coord \notin {"SHUTTING_DOWN", "STOPPED"}
    /\ BeginShutdown

FatalBegins ==
    /\ turn = "coordinator" /\ ~stopRequested /\ coord = "FATAL_ERROR"
    /\ BeginShutdown

Unfinished == \E p \in Ports : slots[p].life = "STOPPING" \/ slots[p].owned

ShutDown ==
    /\ coord = "SHUTTING_DOWN"
    /\ StepPorts
    /\ coord' = IF Unfinished' THEN coord ELSE "STOPPED"
    /\ UNCHANGED <<initialized, selected>>
    /\ CoordinatorTurn

ShutdownOverdue ==
    /\ coord = "SHUTTING_DOWN"
    /\ StepPorts /\ Unfinished'
    /\ coord' = "STOPPED"
    /\ UNCHANGED <<initialized, selected>>
    /\ CoordinatorTurn

-----------------------------------------------------------------------------
(* gateway_application_request_configuration *)

Requested ==
    /\ turn = "coordinator" /\ coord = "SERVING" /\ tx.state \notin InProgress
    /\ Counted
    /\ UNCHANGED <<coord, initialized, stopRequested, turn, selected, slots, call, history>>

RequestUnchanged ==
    /\ Requested
    /\ tx' = Result("UNCHANGED")
    /\ UNCHANGED files

\* Not valid, or the staged file cannot be written and is removed.
RequestFails ==
    /\ Requested
    /\ tx' = Result("FAILED")
    /\ UNCHANGED files \/ Discard

RequestStaged(config) ==
    /\ Requested
    /\ config # selected
    /\ tx' = [NoTx EXCEPT !.state = IF config.port = selected.port THEN "PROMOTING" ELSE "ACTIVATING",
                          !.candidate = config, !.previous = selected]
    /\ staged' = config /\ UNCHANGED <<dir, images>>

-----------------------------------------------------------------------------
(* config_transaction_step *)

TransactionTurn ==
    /\ turn = "transaction" /\ turn' = "coordinator"
    /\ UNCHANGED <<coord, initialized, stopRequested, events>>

Closing == coord \in {"SHUTTING_DOWN", "STOPPED", "FATAL_ERROR"}

NoTransaction ==
    /\ tx.state \notin InProgress
    /\ UNCHANGED <<files, selected, slots, tx, call, history>>
    /\ TransactionTurn

\* The stop ends the transaction where it is.
Abandon ==
    /\ tx.state \in InProgress /\ Closing /\ call = "none"
    /\ tx' = Result("FAILED")
    /\ Discard
    /\ UNCHANGED <<selected, slots, call, history>>
    /\ TransactionTurn

Desired == IF tx.state = "ACTIVATING" THEN tx.candidate.port ELSE tx.previous.port

\* config_equal and config_terminal
Runs(p) ==
    /\ slots[p].current = Desired[p]
    /\ slots[p].life = IF Desired[p].enabled THEN "READY" ELSE "DISABLED"

\* Fault: counts the ports from zero.
RollBackFromZero ==
    /\ tx' = [tx EXCEPT !.state = "ROLLING_BACK", !.waiting = FALSE,
                        !.index = IF tx.candidate.port = tx.previous.port THEN PortCount ELSE 0]
    /\ Discard

\* config_rollback_begin
RollBack ==
    /\ tx' = [tx EXCEPT !.state = "ROLLING_BACK", !.waiting = FALSE,
                        !.index = IF tx.candidate.port = tx.previous.port
                                  THEN PortCount + 1 ELSE 1]
    /\ Discard

\* Fault: the failed port is not counted.
PortForgotten ==
    IF tx.state = "ACTIVATING" THEN RollBack
    ELSE /\ tx' = [tx EXCEPT !.waiting = FALSE, !.index = @ + 1]
         /\ UNCHANGED files

\* Fault: a rollback tries the port again.
PortRetried ==
    IF tx.state = "ACTIVATING" THEN RollBack
    ELSE /\ tx' = [tx EXCEPT !.rollbackFailed = TRUE, !.waiting = FALSE]
         /\ UNCHANGED files

\* The port does not do what it should: activating ends, rolling back goes on.
PortFailed ==
    IF tx.state = "ACTIVATING" THEN RollBack
    ELSE /\ tx' = [tx EXCEPT !.rollbackFailed = TRUE, !.waiting = FALSE, !.index = @ + 1]
         /\ UNCHANGED files

OnPorts ==
    /\ tx.state \in {"ACTIVATING", "ROLLING_BACK"} /\ ~Closing
    /\ UNCHANGED <<call, history>>
    /\ TransactionTurn

PortDone ==
    /\ OnPorts /\ tx.index \in Ports
    /\ Runs(tx.index)
    /\ tx' = [tx EXCEPT !.index = @ + 1, !.waiting = FALSE]
    /\ UNCHANGED <<files, selected, slots>>

\* validate_replacement: the endpoint is taken by what another port runs now.
Conflicts(p, config) ==
    \E o \in Ports \ {p} :
        config.enabled /\ slots[o].current.enabled /\ slots[o].current.endpoint = config.endpoint

ChangePort ==
    /\ OnPorts /\ tx.index \in Ports /\ ~tx.waiting /\ ~Runs(tx.index)
    /\ Port!Accepts(slots[tx.index]) /\ ~Conflicts(tx.index, Desired[tx.index])
    /\ slots' = [slots EXCEPT ![tx.index] = Port!Changed(@, Desired[tx.index])]
    /\ tx' = [tx EXCEPT !.waiting = TRUE]
    /\ UNCHANGED <<files, selected>>

\* gateway_controller_reconfigure refuses; a listener that hangs is a fault.
PortRefuses ==
    /\ OnPorts /\ tx.index \in Ports /\ ~tx.waiting /\ ~Runs(tx.index)
    /\ \/ ~Port!Accepts(slots[tx.index])
       \/ Conflicts(tx.index, Desired[tx.index])
       \/ May("port") /\ slots[tx.index].owned
    /\ PortFailed
    /\ UNCHANGED <<selected, slots>>

AwaitPort ==
    /\ OnPorts /\ tx.index \in Ports /\ tx.waiting
    /\ slots[tx.index].life \in {"CHANGING", "STOPPING"}
    /\ UNCHANGED <<files, selected, slots, tx>>

PortEndsElsewhere ==
    /\ OnPorts /\ tx.index \in Ports /\ tx.waiting
    /\ slots[tx.index].life \notin {"CHANGING", "STOPPING"} /\ ~Runs(tx.index)
    /\ PortFailed
    /\ UNCHANGED <<selected, slots>>

AllActivated ==
    /\ OnPorts /\ tx.index \notin Ports /\ tx.state = "ACTIVATING"
    /\ tx' = [tx EXCEPT !.state = "PROMOTING"]
    /\ UNCHANGED <<files, selected, slots>>

RolledBack ==
    /\ tx.state = "ROLLING_BACK" /\ ~Closing /\ tx.index \notin Ports
    /\ selected' = tx.previous
    /\ tx' = Result("FAILED")
    /\ strayed' = (strayed \/ tx.rollbackFailed)
    /\ UNCHANGED <<files, slots, call, told>>
    /\ TransactionTurn

-----------------------------------------------------------------------------
(* promote_configuration, one rename or sync at a time. *)

Promoting(from) ==
    /\ turn = "transaction" /\ tx.state = "PROMOTING" /\ call = from

Step(to) ==
    /\ call' = to
    /\ UNCHANGED <<coord, initialized, stopRequested, turn, selected, slots, tx, history, events>>

Applied(state, saved) ==
    /\ tx' = Result(state)
    /\ selected' = tx.candidate
    /\ told' = saved
    /\ strayed' = (strayed /\ tx.candidate.port = tx.previous.port)
    /\ call' = "none" /\ UNCHANGED slots
    /\ TransactionTurn

NotPromoted(saved) ==
    /\ RollBack
    /\ told' = saved
    /\ call' = "none" /\ UNCHANGED <<selected, slots, strayed>>
    /\ TransactionTurn

\* The active file can be read and is not the candidate: it becomes the backup.
PromoteBackup ==
    /\ Promoting("none") /\ ~Closing
    /\ dir.active \in Configs \ {staged}
    /\ Backup /\ UNCHANGED staged
    /\ Step("backed up")

\* It cannot be read, or there is none.
PromoteUnbacked ==
    /\ Promoting("none") /\ ~Closing
    /\ dir.active \notin Configs \/ May("read")
    /\ UNCHANGED files
    /\ Step("backed up")

PromoteUnchanged ==
    /\ Promoting("none") /\ ~Closing
    /\ dir.active = staged
    /\ Discard
    /\ Applied("SUCCEEDED", told \cup {tx.candidate})

PromoteActive ==
    /\ Promoting("backed up")
    /\ Activate /\ staged' = Absent
    /\ Step("renamed")

\* The staged file cannot be read, or a rename fails.
PromoteFails ==
    /\ \/ Promoting("none") /\ ~Closing /\ (May("read") \/ May("rename"))
       \/ Promoting("backed up") /\ May("rename")
    /\ NotPromoted(told)

PromoteSynced ==
    /\ Promoting("renamed")
    /\ Synced /\ UNCHANGED staged
    /\ Applied("SUCCEEDED", {tx.candidate})

\* Without the sync the outcome is what the files read.
PromoteUncertain ==
    /\ Promoting("renamed") /\ May("sync")
    /\ UNCHANGED files
    /\ Applied("DURABILITY_UNCERTAIN", told \cup {tx.candidate})

PromoteUnreadable ==
    /\ Promoting("renamed") /\ May("sync") /\ May("read")
    /\ NotPromoted(told \cup {tx.candidate})

-----------------------------------------------------------------------------
(* The environment. *)

\* gateway_run_control_request_stop; only the coordinator looks at the flag.
RequestStop ==
    /\ turn = "coordinator" /\ ~stopRequested /\ stopRequested' = TRUE
    /\ UNCHANGED <<files, coord, initialized, turn, selected, slots, tx, call, history, events>>

\* The process ends and is started again.
Restart ==
    /\ coord = "STOPPED" /\ turn = "coordinator"
    /\ Counted
    /\ Booted /\ strayed' = FALSE
    /\ UNCHANGED <<files, told>>

PowerCut ==
    /\ Counted
    /\ Booted /\ strayed' = FALSE
    /\ Cut /\ told' = {Select(dir')}

Ended == coord = "STOPPED" /\ events = MaxEvents /\ UNCHANGED vars

Coordinator ==
    \/ LoadConfiguration \/ InitializeController \/ InitializeFails
    \/ StartPorts \/ Serve
    \/ StopBegins \/ FatalBegins \/ ShutDown \/ ShutdownOverdue

Transaction ==
    \/ NoTransaction \/ Abandon
    \/ PortDone \/ ChangePort \/ PortRefuses \/ AwaitPort \/ PortEndsElsewhere
    \/ AllActivated \/ RolledBack
    \/ PromoteBackup \/ PromoteUnbacked \/ PromoteUnchanged \/ PromoteActive \/ PromoteFails
    \/ PromoteSynced \/ PromoteUncertain \/ PromoteUnreadable

Next ==
    \/ Coordinator \/ Transaction
    \/ RequestUnchanged \/ RequestFails \/ \E config \in Configs : RequestStaged(config)
    \/ RequestStop \/ Restart \/ PowerCut \/ Ended

Spec == Init /\ [][Next]_vars

Unsettled == coord \in {"STARTING_PORTS", "SERVING", "SHUTTING_DOWN"} /\ ~AllDone

PortsMove ==
    /\ turn = "coordinator" /\ turn' = "transaction"
    /\ \A p \in Ports : ~Port!Terminal(slots[p]) => slots'[p] # slots[p]

\* The loop runs, and a promotion does not stop half way; a port's change and a
\* stop end (PortController!ChangesEnd); the time of a shutdown passes.
FairSpec ==
    /\ Spec
    /\ []<>(turn = "coordinator") /\ []<>(turn = "transaction" \/ coord = "STOPPED")
    /\ []<>Unsettled => []<><<PortsMove>>_vars
    /\ []<>(coord # "SHUTTING_DOWN")

-----------------------------------------------------------------------------
(* Properties *)

TypeOK ==
    /\ dir \in Dirs /\ images \subseteq Dirs /\ staged \in Configs \cup {Absent}
    /\ coord \in {"LOADING", "INITIALIZING", "STARTING_PORTS", "SERVING", "SHUTTING_DOWN",
                  "STOPPED", "FATAL_ERROR"}
    /\ initialized \in BOOLEAN /\ stopRequested \in BOOLEAN
    /\ turn \in {"coordinator", "transaction"} /\ call \in {"none", "backed up", "renamed"}
    /\ selected \in Configs /\ DOMAIN slots = Ports
    /\ tx.state \in TxStates /\ tx.index \in 1..(PortCount + 1)
    /\ {tx.candidate, tx.previous} \subseteq Configs

\* A power cut leaves what the user was told: the configuration last reported as
\* applied, with any before it that an uncertain result left possible; never one
\* that was rolled back, and the candidate only once its promotion has begun.
BootsTold ==
    TypeOK /\ Saved \subseteq told \cup (IF call = "none" THEN {} ELSE {tx.candidate})

\* Between changes the ports run what the application takes for the current
\* configuration, although each of them may refuse, fail or fall back half way:
\* unless a rollback was reported as failed.
PortsRunSelected ==
    coord = "SERVING" /\ tx.state \notin InProgress /\ ~strayed =>
        \A p \in Ports : slots[p].current = selected.port[p]

\* NO CHANGES: there was nothing to change.
NothingToChange ==
    coord = "SERVING" /\ tx.state = "UNCHANGED" =>
        \A p \in Ports : slots[p].current = selected.port[p]

\* A transaction and a start end, whatever the ports and the files do.
Ends ==
    /\ tx.state \in InProgress ~> tx.state \notin InProgress
    /\ coord \in {"LOADING", "INITIALIZING", "STARTING_PORTS"} ~> coord \in {"SERVING", "STOPPED"}
=============================================================================
