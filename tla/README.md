# 4VRS Gateway: verification project

TLA+ models of the 4VRS Gateway (a serial-to-Ethernet gateway for the Moxa
UC-7420: eight serial ports, Modbus TCP, Modbus UDP and raw TCP on the network
side, a panel, a web interface and a network manager), the TLC runs that check
them on small instances, and TLAPS proofs for every value of the constants: every
safety property, action property and refinement that a passing run checks is also
a theorem; liveness is model-checked. Paths below are relative to `src/src/` unless
they start with `src/`.

## 1. Inventory

Two kinds of concurrency matter. The gateway process is a single-threaded event
loop: every call is atomic, and what interleaves is the loop's `*_step`
functions with the calls of listeners, users and the shutdown, with time, and
with what the devices do. Around it run processes of its own - the network's
supervisor, commit, owner and guardian, the NTP helper, the web service, its broker
and its workers, the installer - which end, hang or are killed at any point, share
files, and are subject to failing system calls and power cuts.

| Component | State | Operations | Interacts with | Hard behaviours | What makes it correct |
|---|---|---|---|---|---|
| Port runtime `core/port_runtime.c` | state of ten values, request queue, active transaction, generation, deadline, attempts, three configurations | init, start, submit, cancel, detach, report_io_failure, reconfigure, stop, step | listeners (submit, completion callback), backend (ops table), controller | late backend events, deadlines racing answers, failing device, flush of the queue | each accepted request answered once and only by its own event; oldest first; no transient state lasts; falls back to what it ran |
| UART backend `uart/` | fd, applied `config`, tx and rx progress | open, apply_config, start, poll, cancel, recover, reconfigure, stop | runtime (ops), tty | bytes of an earlier answer, half-applied termios | runs the settings it was last given |
| Port controller `gateway/gateway_controller.c` | lifecycle, current/staged/known-good configuration, flags, listener ownership | start, reconfigure, rebind, network wait, shutdown, step | runtime, listener, application | a change or its rollback fails half-way; address lost during a change | listener, UART and reported configuration agree; every change ends |
| Coordinator `gateway/gateway_coordinator.c` | start-up stage, ports complete, shutdown deadline | init, step, request_shutdown | controller, configuration files | a port that never starts or stops | start-up and shutdown end; nothing owned after a clean stop |
| Configuration transaction `app/gateway_application.c:223-259` | transaction state, port index, waiting | request, step | controller of all ports, configuration files, network runtime | a port fails after others took over; promotion uncertain | all ports on one configuration, the one saved |
| Configuration files `config/gateway_persistence.c` | active, backup, staged file | stage, promote, discard, startup_select | application, coordinator | power cut between renames | a boot finds the old or the new configuration |
| Modbus dispatcher and listeners `modbus/`, `network/modbus_*_listener.c`, `network/raw_serial_listener.c` | clients, slots, queues, output buffers | accept, read, dispatch, completion, write, close | runtime (submit, completion) | client leaves before its answer; full queues | an answer goes to the client that asked; no client starves |
| Network store `network/gateway_network_store.c` | records confirmed, good, candidate, commit.guard | write, boot, confirm, discard, abort_commit, adopt | worker, commit child, boot | power cut, failing sync, process killed between two renames | a boot finds one whole policy the user kept |
| Network manager, supervisor, worker `network/gateway_network_{manager,supervisor,runtime}.c` | state of a change, flags, deadline, commit child | apply, confirm, revert, step; stage, apply, poll, commit, restore, discard | application (commands and status), store, interfaces | deadline, Revert or lost client racing the commit | what is told is what is saved and running; every change ends |
| Network owner, observer, recovery `network/gateway_network_{owner,service,boot}.c`, `runtime.c:575-714` | leases, observations, recovery job | poll_observer, recover, boot restore | DHCP client, application | worker dies with its commit child alive | a recovered network is a confirmed one |
| DHCP client `network/gateway_dhcp_*` | lease state, timers | discover, renew, release | owner | lost and late packets, ids that come back, wrapping clock | no address without a lease |
| NTP worker, clock `app/gateway_application.c:274-418` | pending, deadline, interval | start, poll, cancel | child process | child that hangs, result after cancel | one worker, its own result |
| Random number service `web/rng_*` | seed file, generation | draw, reseed, write seed | web process | power cut during the seed's update | no seed is used twice |
| Web gateway and IPC `web/web_*` | sessions, pending request | request, result | application | result of an older request | a result is matched to its request |
| Installer `installer/` | transaction journal | install, rollback, recover | boot | power cut | old or new installation |
| Panel `panel/gateway_panel.c` | view, draft, token, prompt | keys, draw | application, browser | the browser changes what a draft was loaded from; keys pressed before the display changed | a token stands for what was seen; a result is that of one's own request |
| UI, diagnostics, status, launcher | view state, counters | draw | application | little | layout, wording |

`PROJECT.json` lists every component with its status, and the hazards of the
code at the line where they bite with the properties that cover them.

## 2. Modules

| Module | Models | Kind |
|---|---|---|
| `RequestService` | what a port promises its listeners: accepted once, one final status, oldest first | abstract |
| `PortLife` | what a port's life cycle looks like to its controller | abstract |
| `PortRuntime` | `core/port_runtime.c`, `core/transaction.h`; implements both | detailed |
| `PortRuntimeProofs` | theorems about `PortRuntime` | proofs |
| `PortController` | `gateway/gateway_controller.c` for one port, composed with `PortLife` as its runtime and the UART's applied settings | detailed |
| `PortControllerProofs` | theorems about `PortController` | proofs |
| `PortSlot` | what a port looks like to the application; `PortController` implements it | abstract |
| `AtomicChange` | what a change of the network promises, across power cuts | abstract |
| `NetworkStore` | `network/gateway_network_store.c`: records on a disk that can lose unsynced renames | operations |
| `NetworkChange` | manager, supervisor, worker and commit child over `NetworkStore`; implements `AtomicChange` | detailed |
| `NetworkChangeProofs` | theorems about `NetworkChange` | proofs |
| `ConfigFiles` | `config/gateway_persistence.c`: active, backup and staged file on a disk that can lose unsynced renames | operations |
| `Application` | the loop, the coordinator and the configuration transaction over `PortSlot`s and `ConfigFiles` | detailed |
| `ApplicationProofs` | theorems about `Application` | proofs |
| `ModbusTcp` | `network/modbus_tcp_listener.c` and `modbus/modbus_dispatcher.c` over a port that answers late or not at all | detailed |
| `ModbusUdp` | `network/modbus_udp_listener.c` over `RequestService` and a network that repeats and delays | detailed |
| `RawSerial` | `network/raw_serial_listener.c` over the driver's queues | detailed |
| `Transports` | `gateway/gateway_real_adapter.c`: the one of the three listeners that a port has | composition |
| `TransportsProofs` | theorems about the three listeners | proofs |
| `UartBackend` | `uart/uart_backend.c` with the line below it and the part of the runtime that calls it | detailed |
| `RngSeed` | `web/rng_nv.c`, `web/rng_main.c`, `host/cf_rng_writer.c`: the seed on the flash | detailed |
| `TimeSync` | the NTP client of `app/gateway_application.c` and its helper process | detailed |
| `Panel` | `panel/gateway_panel.c` and the browser's writes over the application's revision | detailed |
| `Dhcp` | `network/gateway_dhcp_client.c` over servers and a network that loses and repeats | detailed |
| `NetworkOwner` | `network/gateway_network_owner.c`, `network/gateway_network_service.c`: owner, guardian, jobs | detailed |
| `NetworkBindings` | `app/gateway_application_network.c` and the application's half of `network/gateway_network_runtime.c` | detailed |
| `WebGateway` | `web/web_gateway.c`, `web/web_security.c` with service, broker and workers | detailed |
| `Services` | the eight parts from `UartBackend` to `WebGateway`, side by side | composition |
| `NetworkProofs` | theorems about lease, owner and bindings (`Dhcp`, `NetworkOwner`, `NetworkBindings`) | proofs |
| `ServicesProofs` | theorems about the other five parts of `Services` | proofs |
| `Installer` | `installer/`: transaction, journal slots, recovery, boot entries | detailed |
| `InstallerProofs` | theorems about `Installer` | proofs |
| `MC*` | small instances for TLC | instances |

Two chains hold the levels together: `Application` is built on `PortSlot`, which
`PortController` implements (`FollowsSlot`, proved); `PortController` is built on
`PortLife`, which `PortRuntime` implements (`FollowsLife`, proved). `ModbusUdp`
is built on `RequestService`, which `PortRuntime` implements (`ServesRequests`,
proved).

The parts of `Services` and the listeners of `Transports` share no variable: the first
meet the rest of the gateway through what their modules leave open (a port may
recover at any time, a policy may be kept at any time), and of the second a port
has one at a time. A behaviour is therefore one of a single part while
the others stay as they began; what is checked of a part is checked of every
behaviour it has. The source packs whole functions into a line, which is why a
module here may have more lines than it maps.

### PortRuntime

One action per call (`Start`, `Submit`, `Cancel`, `DetachSession`,
`ReportIoFailure`, `Reconfigure`, `Stop`), one per case of `port_runtime_step`,
`Tick` for time and `EventLost` for a generation the line never answers.
A deadline is the number of ticks left. The backend is the environment: every
call may fail, and a started generation yields at most one TRANSMITTED and one
final event, also after it was cancelled - more than the UART backend does
(it forgets a cancelled generation) and what the mock backend of the tests does.
`inflight` is what the backend was handed and may still end with a final event: the
generation, which is all that an event names, and, as history, the request it was
for. The port compares generations only; `answers` records the request, so that
`AnsweredByOwnEvent` is about what the backend did and not about the comparison.
`accepted` and `answers` are history: the ids `submit` accepted and the calls of
the completion callback.
The transition table is the code's; a refused transition is kept (`refused`), as
every caller ignores the result of `port_runtime_transition`.
Telemetry, the statistics and the payload bytes are left out; a payload is its
length, which the byte budget of the queue depends on.

### PortController

The runtime is a value of `PortLife`, stepped and called within the
controller's own actions, as `step_port` does. `uart` is `uart->config`, which
only `apply_config` and the start-up assign. A configuration is its enabled
flag, everything the UART and the endpoint are set to (`serial`), the bind
address and the revision; the ports share nothing but the comparison of their
endpoints in validation, so one port stands for all. The environment is the
application's: it edits (revision + 1), rolls back to the configuration it had,
rebinds, reports a lost address, and shuts down, each when the code may call it.
`mishaps` fixes for a behaviour which of two things may happen at all: a disabled
port is enabled with new serial settings, and a rollback fails.

### NetworkStore and NetworkChange

A record is a whole profile. The code writes and syncs `write.tmp` before the
rename, so a rename is the only change of a record, and an operation is a list
of changes, each followed by a directory sync. `dir` is what a reader sees,
`maybe` what a power cut may leave of each record: an unsynced rename or unlink
may be lost or kept independently of the others, and a successful sync makes
all of them durable. A failed sync leaves it open.

`NetworkChange` runs the worker's store operation (`call`) and the commit
(`child`) one change or sync at a time; the child can be killed between any two.
The manager's states are the code's, plus STAGING for the inside of
`gateway_network_manager_apply`. Deadlines may pass whenever the code looks at
them (`GiveUp`, `RollbackOverdue`). `net` and `writing` are the interfaces;
writing a policy leaves them in part of several until it ends. The application
sends Keep, Revert and Bindings-ready, and may go away. `authorised` is history:
the policies the user asked to keep, which a boot may find. `cancels` fixes for a
behaviour whether anything may cancel a commit under way.

### ConfigFiles and Application

`dir` is the directory as a reader sees it and `images` what a power cut may
leave of it: a rename adds an image with and without it, a successful sync leaves
one. The staged file is written and synced whole before it is renamed, and no
boot reads it. `Select` is `gateway_config_startup_select`.

A loop of the gateway is two steps, the coordinator's with the ports and the
transaction's; requests and the stop come between loops. A promotion is split
at its renames and its sync (`call`), as the power may be cut there; everything
else of the loop is atomic. A port steps to any outcome of `PortSlot` if ports may
fail, and otherwise to the one it was asked for. `told` is history: the
configurations that the results given to the user leave possible at the next
boot. `strayed` is history: a rollback was reported as failed and no change
of the ports applied since. READY, DEGRADED and SAFE_MODE differ in what they
report only and are one state, SERVING.

### ModbusTcp

A connection is a record whose `at` says how far `step_io` got with it in this
loop; requests are numbered per peer, so that an answer can be matched with what
the peer sent. The port is `RequestService` with its results reduced to answered
or failed, and it may answer after the client, or the listener, is gone. The
receive buffer, the parser, the dispatcher's slot and the output buffer are the
four queues a request passes. Deadlines (idle, half a frame, output not taken)
may pass at any step (`Breaks`). `PortDrops` is what the controller does to the
runtime's queue when it detaches, reconfigures or stops the port.

### ModbusUdp, RawSerial, Transports

`ModbusUdp`: any datagram of any source may come at any time, any number of times,
which is what the network may do at worst. A request is executed when the port
takes it; `account` is history: per source, its present request and how often
that was executed. A source is expected to repeat a request until it goes on
to the next one; the listener remembers one answer per source, so a
delayed copy of an older request is executed again after another one, and the
property does not claim otherwise. In RTU mode a datagram has no number of its
own and none is remembered. Malformed datagrams change nothing and are left out.

`RawSerial`: `at` walks through one step of the listener, with the driver's queues
changing in between. Bytes are told apart by the owner they belong to. What
arrives between the drain and the admission within one step is taken for the new
owner's, in the code as in the model; `SessionsApart` speaks of what was there when
the step that found no owner began.

### UartBackend

A byte on the line is known by the request it answers and by how many recoveries
preceded it. A device may answer late, in pieces, or with garbage. The phases of the
caller are the states of `PortRuntime` that decide which operation comes next.
Applying settings is three system calls, each of which may fail and leave
the device part new. `AnswerIsFresh` is as strong as the code: a recovery flushes the
line, a reconfiguration does not, so a byte of a request given up before a
reconfiguration may reach the next; enabling a port on other settings is
finding 1 and outside `LineFits`.

### RngSeed

Each file is as the processes see it (`disk`) and as a power loss may leave it
(`durable`). Every write, rename and sync is a step, may fail, and may be the last
step of a killed process. A seed is a lineage, so that one that was answered
from twice is seen. It is assumed, as `src/docs/rng-autonomous-v1.md:63` demands, that
nobody uses the seed while the card is serviced.

### TimeSync

The loop's step, settings, a setting by hand, the test and the stop, beside a helper
that may set the clock until it is reaped, also after it was told to die. The
trust MANUAL may be told although a helper killed late still set the clock; the
property allows that and nothing else.

### Panel

One revision, the tokens of panel and browser, the draft, the transaction's result
and the browser's prompt; views that change nothing shared are one. A
key is decided when it is read. `meant` is history: what the panel's token was
taken for. Pressed keys remember only whether the prompt was on the display.

### Dhcp, NetworkOwner, NetworkBindings

`Dhcp`: `net` holds every datagram ever sent, which covers loss, delay and
repetition; retransmissions may come at any time, the lease's timers are ticks.
A transaction id has two sources, as in the code: a start takes `++next_xid` of the
owner (`nextXid`, which the start of the other LAN's client takes from too), and from
there the client counts by itself with each stop, expiry, back-off, renewal and
rebinding. The two are not reconciled, so an id comes back after a stop and a start.
History: `session` (the id at the start) of the client and of each datagram, and
`own`, whether the lease was acknowledged in answer to a request of this session.
`LeaseIsGranted` speaks of the end of such leases only; what happens to others is told
at the end of section 5. A client that is off is not stopped again: that would move
only its id, which the next start sets.

`NetworkOwner`: the owner and the guardian are two processes with a socket each way;
jobs write the interfaces and may be killed half way, which leaves `Half`. A guardian
that is killed is not modelled.

`NetworkBindings`: the tick of the application is one action; the worker, the
observer process and the LAN move in between. A message of the worker and an
observation that was read before it may be taken in one tick. The commit ends with
the worker (one that survives it is not modelled, see the hazards), disabled ports
and the stop are left out.

### WebGateway

One step of the gateway is split at each look at a child process, as a child
may end between two looks. A killed worker has renamed the password's file or has
not. Deadlines may pass at any time. Two behaviours of the code that no text
calls wrong are in the model and under no property: a service that ends in order
between the two looks of one step makes the gateway blame and roll back the
protocol switch that waited for it, and a `No` at the recovery prompt cancels a
password commit under way and leaves the account locked until a recovery at the panel.

### Services

One set of variables for each of the eight parts, and `part`, the one that moves.
The properties are conjunctions of the parts' own, each with the part's type
invariant; what they say in detail stands above the named formulas in the parts'
modules.

### Installer

One process holds the installer's lock. `at` is the place in the transaction; every
publication of a file is atomic but may fail on either side of it, power may go at
any step, the process may be killed, and a boot runs the entries with the
flash mounted early, late or not at all. `before` and `after` of a plan are images
of the whole set. A settings file may be edited at any moment; the properties
leave an edited member to its editor.

Known and modelled as the code has it: an edit between the second check and the
cutover marker is lost; an edit of a member the plan does not change, after the
cutover, makes a rollback end in RECOVERY_REQUIRED; an inactive slot with
an unfinished journal and an edited member can never be retired (`SlotsUsable`
leaves edited members out); a crash between the last restored gate and the
rolled-back marker leaves an unfinished journal without gates, which is no mixed set.

## 3. Runs

| Run | Question | Instance |
|---|---|---|
| `port_safety` | Can a request be forgotten, answered twice, answered by what the backend did for another, or served out of order; does every failure cost the whole recovery delay; can state and data disagree; does the port implement `RequestService` and `PortLife`; and without help of the device, is every request answered and does every transient state end? | 3 requests of lengths 1 and 2, queue of 2 requests and 3 bytes, timeouts of 1-2 ticks, 2 attempts, 2 configurations |
| `controller_changes` | Do listener, lifecycle and UART agree over every mixture of failed binds, changes and rollbacks, does every change end, and is the port `PortSlot` to the application? | 2 settings, 2 addresses, 3 revisions, everything may fail, with both mishaps and with none |
| `controller_enable` | Does a READY port run the settings it reports if it is also disabled and enabled? (violated, finding 1) | no failures |
| `controller_rollback` | ... if a rollback may fail? (violated, finding 2) | no enabling |
| `network_change` | Is a change atomic to power cuts, failed renames and syncs, kills and lost clients; is what is told what is saved; does every change end? | 3 policies, every fault, with and without cancelled commits |
| `network_race` | Does REVERTED mean the old policy if a rollback may be asked for during the commit? (violated, finding 3) | no fault at all |
| `application` | Does a boot find what the user was told, do the ports run what the application takes for current, and does a transaction and a start end? | 2 ports, 4 configurations (one moves an endpoint between ports, one changes settings only), 2 requests or restarts, every fault |
| `application_unchanged` | Does NO CHANGES mean there was nothing to change? (violated, finding 4) | only a rename fails |
| `transports` | Does every answer reach who asked, in order and once; does a half-closed peer get all its answers; is a repeated datagram executed once; does nothing of one owner of the line reach the next? | TCP: 2 slots for 3 peers of 2 requests each, queues of 1 and 2; UDP: 2 peers for 3 sources, a source with 2 numbers and 2 requests under one; raw: 3 owners, queues of 2 bytes |
| `services` | Is an answer read on a line fit for it; is no seed served twice; is what is told of clock, draft, lease, network, bindings and session true; is nothing uncertain taken for certain? | the eight parts of section 2, see below |
| `panel_result` | Does APPLIED mean the panel's own draft? (violated, finding 5) | the panel alone, 3 edits |
| `installer` | Does the application ever run half an installation; is half an installation guarded and healed; can the next installation begin; do edits survive? | 2 versions, 3 installations, 5 members of which 2 gates, 1 on the flash and 1 of settings, 2 troubles, 1 edit |

Bounds. Three requests are enough for one active, one queued and one arriving:
a queue of two requests that cannot hold both long ones meets both limits, and
a request that overtakes needs two waiting ones. Timeouts of one or two ticks
let each deadline expire before, with and after each other. Two attempts are
the least with a retry before DEGRADED. Two settings and two addresses tell old
from new; three revisions allow a change after a failed change. Three policies
allow a change after a change, so that `good`, `confirmed`, `candidate` and the
guard can all differ. Two ports are the
least on which a transaction can stop half-way and on which an endpoint can move;
two requests allow a change after a failed change, and a restart at any point
of a change; what a power cut would leave is checked in every state through
`images`, also where the bound allows no restart any more. Two troubles of the
installer are one that stops an installation and one that stops its recovery, and
a third installation is the first to use a slot again.

In `services`: two requests of two bytes (the one given up and the one misled), one
recovery and two reconfigurations (the change and its fallback); seeds of five
generations, three faults and two processes; two servers and three attempts of a
test, clock settings without a bound; two edits and two waiting keys; two DHCP
servers that offer one address, a lease of four ticks within five (renewal,
rebinding and expiry all fall due) and three ids (a start, a back-off and the start
that uses the id again); one static and one
leased policy with one command and one failure; two ports on a LAN that changes its
address twice, one change of the network and one setback; one change of the web's
configuration and two troubles. Each is the least at which the mutants of its
properties are found.

Every property of a passing run has a mutant in `PROJECT.json`: a plausible bug in
one mapped definition (marked `Fault:` in the modules) under which TLC finds
the property violated.

### Fairness

`port_safety` assumes that the loop steps the port, that time passes, and nothing
of the device: where a step has an outcome "nothing came" or "the call failed",
fairness is on those outcomes, so no property rests on a device that answers.
`controller_changes` assumes that the loop steps the port
and that a transient state of the runtime does not last for ever, which
`TransientStatesEnd` shows of `PortRuntime`. `network_change` assumes
that the processes run, that the manager is stepped, that a store operation and a
write to the interfaces return, and that deadlines pass; nothing of the application
or the user. `application` assumes that the loop runs, that a port's change ends
(the `ChangesEnd` of the level below) and that the ten seconds of a shutdown pass;
its fairness is written out as formulas over the state, which TLC evaluates much
faster than `ENABLED` of a step of all ports. `installer` assumes that a running
installer and a boot go on and the flash is mounted in the end; strong fairness of
`RecoverOnly` is an operator who asks for the recovery again while
the device says that it is not recovered. `transports` and `services` assume nothing.

## 4. Proofs

Eight modules hold the theorems; `PROJECT.json` lists those a reader should know
of. The properties are seldom inductive: each module states an inductive
invariant first, proves that it holds at the start and is kept by every action, one
lemma per action, and derives from it the properties of the runs as they stand
there. Only the named assumptions on the constants are used, and TLC evaluates
those in every run. The induction theorems of the library cannot be used, so where an
argument would be an induction over a queue or a set the proofs take a least (or
greatest) element instead, or keep a quantified statement about all entries.

| Module | Theorems about the runs' properties | Assumptions |
|---|---|---|
| `PortRuntimeProofs` | `AnsweredExactlyOnce`, `AnsweredByOwnEvent`, `QueueIsKept`, `FailuresAreSound`, `BarrierAfterFailure`, `ServesRequests`, `FollowsLife` | `RuntimeAssumption` |
| `PortControllerProofs` | `ListenerServesCurrent`, `LifecycleTold`, `UartRunsCurrentOtherwise`, `FollowsSlot` | `ControllerAssumption`, `NoConfigAssumption` |
| `ApplicationProofs` | `BootsTold`, `PortsRunSelected` | `FilesAssumption`, `ApplicationAssumption` |
| `NetworkChangeProofs` | `StoreIsKept`, `ToldIsSaved`, `StagingIsSilent`, `IsAtomic` | `StoreAssumption` |
| `TransportsProofs` | `TcpAnswersHold`, `SlotsAgree`, `HalfClosedServed`, `UdpAnswersHold`, `SessionsApart` | `TransportsAssumption` |
| `InstallerProofs` | `RunsWholeSet`, `MixedIsGuarded`, `SlotsUsable`, `EditsSurviveRefusal` | `InstallerAssumption` |
| `NetworkProofs` | `NetworkIsInstalled`, `BindingsFollow` | `ServicesAssumption` |
| `ServicesProofs` | `LineIsClean`, `SeedHolds`, `ClockIsTold`, `PanelIsTrue`, `SessionsAreSound`, `NothingIsForgotten` | `ServicesAssumption` |

### The port: PortRuntimeProofs

`LifeInv` strengthens the types and `LifecycleConsistent` by what each state needs:
that the staged configuration is real while RECONFIGURING (the port takes it over
without looking), that the attempts fit RECOVERING and DEGRADED, that an active
transaction has the newest generation. `ServiceInv` relates the history to the
state: requests are pending in order and below `nextId`, the queue is empty where
nothing serves it, and `answers` is empty exactly for those not accepted or still
pending. A request can only be answered while it is pending, and every answer takes
it out of the queue or out of the active slot in the same step: that is the argument
for `AnsweredOnce` and `NothingForgotten`, and it needs the order of ids, because a
queue that held an id twice would answer it twice.

`WorkInv` says what the backend may still end: nothing that it was handed has a newer
generation than `generation`, and what has the active generation was for the active
request. As a new request gets a
generation newer than all of them, an event that passes the port's comparison is of
its own work (`AnsweredByOwnEvent`); without a fresh generation it is not, which is one
of the mutants. `BarrierAfterFailure` is shown action by action: each one
that leaves ACTIVE or WAITING without a completed request arms the recovery delay,
reconfigures or stops, and only `Tick` takes from the delay.

`QueueIsKept` also says that `bytes` is the sum of the lengths, a recursive function
over the queue. That the sums exist is shown for the least prefix that would have
none; two such sums agree, so a push, a pop or the loss of a prefix changes the
total by what it adds or takes.

`ImplementsService` and `ImplementsLife` are refinements: the port implements
`RequestService`, on which `ModbusUdp` is built, and is the `PortLife` on which
`PortController` is modelled.

### The controller: PortControllerProofs

`ControllerInv` ties the lifecycle to what the runtime does in it (`RuntimeInv`), to
the listener (`ListenerInv`) and to what a change is about (`ChangeInv`: a rebinding
leaves the settings alone, otherwise the runtime is changing to `staged`). The
settings on the UART agree only without the mishaps of findings 1 and 2
(`UartInv`), and there it takes that the configuration known to be good is the
current one. `ImplementsSlot` maps a port to the `PortSlot` of the application, action
by action.

### The application: ApplicationProofs

`FilesInv`: whatever a boot may select was told, except that between the rename and
its sync it may also be the candidate. `SlotsInv`: outside a transaction no port has
anything to come but those that are down; inside, only the port waited for.
`ChangeInv` says how far the ports are: those before `index` have the candidate's
configuration (or the previous one, in a rollback). `strayed` is needed since
after a failed rollback nothing of this holds until a change applies again.

### The network change: NetworkChangeProofs

`NetInv` is a table: what each record on the disk may be after a power cut at each
step of each script (`Aborting`, `Saving`, `Discarding`, `Committing`,
`Reguarding`), which script may run in which state of the manager, and what each
state counts on. The guard is what makes it true: as long as a guard may be found, it
is a policy that was kept; once none may be, the confirmed one is. `ChangeIsAtomic`
maps every step to one of `AtomicChange` or to none.

### The listeners: TransportsProofs

TCP: `FlowInv` numbers what a connection sent: what was dispatched, then the queue
in order; what is to be written answers earlier ones in order. `PortInv` places what
is in the port after all of that, and `EpochInv` keeps epochs from being used again
while a request of theirs is pending: without it an answer could reach the next
connection in the slot. `TakenInv` (what left the queue is in the port or was resolved)
gives `HalfClosedServed`. A step of the listener works through one client at a time
on a pair of connection and queue; the lemmas are about that pair.

UDP: `TableOK` relates a peer's record to the account of its source: how often its
present request was executed, and whether its answer is remembered; no two peers are
of one source, and every reply under way answers the request it is sent for. Raw:
`OwnedInv` and `UnownedInv` say whose bytes may be in each queue, and `QuietInv`
that the step in progress began after the flush.

### The installer: InstallerProofs

`SlotOK` and `ActiveInv` tie the set of files to the journal of the active slot and its
markers: before the cutover it is the old set, after it a mixture behind all gates, and
whole again at the end. `RecoveringInv`, `PreparingInv` and `ApplyingInv` add
how far the process is, so that a kill at any step leaves what `ActiveInv` allows. The
old set can be told from the journal because no member but an edited settings
file changes outside the transaction (`EditsInv`, `OthersInv`).

### The network's services: NetworkProofs

Lease: the owner's counter is not behind any session, so that a start is a session in
which nothing was sent. Within a session ids only grow, and an acknowledgement of the
client's transaction of now was given after that transaction's first request was sent
(`InTurn`: `asked + Lifetime` is no later than the grant's end). The client counts
its lease from `asked`, so the grant outlasts what it takes the lease for, also when
an old datagram of this session comes back: it is of another transaction. Of a datagram
of an earlier session, whose id may be that of the present transaction, only the
address is known; a lease taken from one is not `own`, and nothing is claimed of its
end (section 5).

Owner: a write is with the owner, in the channel to the guardian, with the job, or
its end is in the channel back (`Idle`, `Asks`, `Waits`), with a cancel that came
too late in front of it at worst. The owner knows what the kernel has unless it is
to look or to write again (`OwnerSound`); it calls settled only what it looked at
with no job out, and the guardian starts no other owner and no recovery while a job
of the last is alive.

Bindings: `Trail` says that what the worker has told leads, in an order that the
worker's states allow, from what the application has read to where the worker is,
and that WAIT_CONFIRM is told only after the application has read WAIT_BINDINGS.
`StoredSound`: as long as there is a worker, the stored policy is the candidate when
it is at COMMITTING or KEPT, and otherwise the confirmed one. `SeenSound`: a
recovery binds no port before it has seen what is stored. `LanSound`: what is seen
while the ports are bound to the new policy was so under that policy, since the
observer of the old one is stale. `PortsSound`: the ports before the index are
bound, and all are when the worker is told so. A tick of the application is proved
stage by stage on the record that it works on (`Sound`).

### The other services: ServicesProofs

Line: `LineInv` and `Operation` give every byte that is received or waits the number of
recoveries so far; `UartType` keeps the configuration of the backend the current one
whatever failed, and `WellSet` has an open device that serves fit it, and the
settings found by the open saved, with the special rate if there was one. `StopSets`
follows from that.

Seed: every record that is the state, on the disk or on what a power loss may leave, and
the one that the holder of the lock has made, is `Ahead` of every record answered from:
by its counter and, in lexicographic order, by its lineage. No staged file of an
earlier transaction can be renamed, since at that step the pending file is the
holder's own record; `Transacted` says how far a production broker's transaction has
come on the files. Only a service changes whether the files are of production, and
it runs alone, so what a program found at its start is still true. A recovery goes on
from the highest counter of several files; that this exists and is no less than the
state's is shown by adding one record at a time.

Clock: `Truthful` says what each trust stands for, now and if the attempt under way
ends; `Minded` that a helper belongs to the attempt under way or is being reaped.

Panel: a token is never ahead of the revision, and one that equals it stands for what is
selected. A receipt of the revision of now is of the change made last; while the
page's own change is under way, or failed with nothing changed since, its token may be
renewed (`OwnSound`). A prompt that may be answered is on the display, and was when any
key that waits was pressed.

Web: `Trusted` says that a session, or a login under way, is of an administrator whose
password is known to be the stored one, and under the protocol of the gate; only a commit
that has renamed the file makes another password the stored one, and then the account
waits for that commit. `Asked`: an answer is under way only while the connection that
asked is there. A broker that failed is remembered at the latest when it is reaped
(`Remembered`), which is why no step starts it again.

### What the proofs found in the model

Three `CASE`s with overlapping arms (`TransactionEnds` of `Panel`, `Follows` and
`Dynamic` of `NetworkBindings`) took the first arm in TLC and are unspecified in
TLA+; the arms now exclude each other, as the `if ... else if` of the code does. The
assumptions on the constants of `Services` were missing what the values stand for:
the special values ("none", "nobody", "nowhere", "cancel") are no members of the
sets they are told from, and the ports are numbered from one.

### What is not proved

Liveness (`AnsweredUnlessDegraded`, `TransientStatesEnd`, the two `ChangesEnd`,
`Ends`, `MixedIsHealed`) is out of TLAPS's reach here and is checked by TLC under the
fairness of section 3. The five properties that the code violates (section 5) are
shown by their runs; in their place the proofs state what does hold:
`UartRunsCurrentOtherwise`, `ToldIsSaved`, `PortsRunSelected`, `PanelIsTrue`.

## 5. Findings

1. **Enabling a port with new serial settings does not apply them**
   (`controller_enable`, `gateway/gateway_controller.c:231`). The runtime is
   initialised with the new settings and started, but the UART opens with the
   ones it last applied. The port is READY and the change reported as applied.
2. **A rollback that fails is reported as complete** (`controller_rollback`,
   `gateway/gateway_controller.c:198`). The runtime falls back to the very
   configuration that was to be rolled back; the controller looks at READY only
   and not, as for a change, at the revision.
3. **REVERTED with the new policy saved** (`network_race`,
   `network/gateway_network_runtime.c:357`). A commit killed after it removed its
   guard and before it exits has kept the change; the abort finds no guard, the
   restore reads and writes the new policy, and the change ends REVERTED. The
   application keeps the old policy in memory and the next Apply exits early.
   `RevertedIsSaved` (what is saved is what runs) still holds, and so does
   atomicity.

4. **NO CHANGES although a port runs another configuration**
   (`application_unchanged`, `app/gateway_application.c:247`). Port 1 moves to a
   new endpoint and port 2 to the one port 1 had; the promotion fails. The
   rollback goes through the ports in ascending order and asks each to be valid
   next to what the others run now, so port 1 is refused its old endpoint,
   which port 2 still has. The rollback is reported as failed, but a request for
   the old configuration is compared with `selected` and answered UNCHANGED; the
   port stays on the new configuration until the next start or another edit.
   The same order makes it impossible to swap the endpoints of two ports in
   one request: it fails at the first port and is rolled back.

5. **APPLIED for a draft that was refused** (`panel_result`,
   `panel/gateway_panel.c:287`). F3 at the confirmation ignores the result of
   the request and shows the state of the transaction the application holds. A
   draft loaded while a browser's transaction is under way has a current token, is
   refused because of that transaction, and is then told APPLYING and APPLIED with
   it. A related loss has no text against it: entering the network menu renews the
   token of a draft loaded earlier, so that what the browser saved in between is
   overwritten (listed as a hazard).

A sixth disagreement has no run of its own; the condition `own` of `LeaseIsGranted`
stands for it, and without that condition TLC finds the following behaviour on the
instance of `services`. **A delayed reply may extend a lease**
(`network/gateway_network_owner.c:95`). A start takes the next value of a counter
that counts starts only; the client's own id has moved on since, by one with each
back-off, renewal, rebinding, expiry and stop. So the id of a transaction of the last
session may come back: start with 101, back-off, request with 102, its
acknowledgement delayed; a receive error stops the client, and it starts again with
102. The old acknowledgement has the id of now and counts from the new request, or
from its arrival if none was sent yet: the lease ends later than the server's,
against the comment at `network/gateway_dhcp_client.c:83`, "delayed replies do not
extend the server lease by their transit delay".

## 6. Assumptions

Of the constants the models assume only what the `ASSUME` of each module says:
bounds are natural numbers, and positive where the code's are; special values are
outside the sets they are told from; sets that are parts of others are; two enabled
ports of a configuration have different endpoints
(`gateway_configuration_validate`), and in the safe mode no port is enabled; the
members of an installation are different files and a gate is neither on the flash
nor a settings file. Of the world they assume:

- The clock's wrap is not modelled: intervals stay below half its range. (The code
  caps a lease at 20 days; an NTP attempt deferred by more than 24.8 days is compared
  the wrong way round, `core/deadline.c:22`.)
- A directory sync that returns success makes every earlier rename durable;
  a profile's contents are durable before its rename (the code syncs them).
- A kill takes effect between two steps of the commit: one that arrives during
  a system call is taken after it.
- One gateway process and one supervisor at a time; the store's lock is taken.
- Two edits of a port have different revisions, except the application's
  rollback, which hands out the old configuration again.
- `Application` has no network manager: addresses are not mapped, no port waits for
  its network, and a port is not rebound outside a transaction.
- A device answers each request it received at most once, however late.
- A port's generations, the requests' ids and the DHCP client's ids do not wrap, and
  an owner that is started again has a seed far from the ids of the last one.
- The epoch of a connection does not wrap while a request of its slot is pending.

## 7. Not modelled, and why

Parsing and formatting of documents, frames and configuration files, the CRC,
HTTP, TLS and session crypto, display layout and wording, menus: data without control
of their own. ioctls and netlink: external, modelled by how the worker and the
owner use them. Of the installer the bootstrap executable, the files of the web server
and the checks of a package; of the random numbers the generator's arithmetic, the
sources of entropy, `rng_bootstrap.c` and `tools/nvseed/probe.c`. The mock backend and the
acceptance program are test doubles. `ui/ui_prototype.c` is a prototype of the
display. The statistics, counters, events and the telemetry are never read by the
control.

## 8. Plan

Done: the port (`PortRuntime`, `PortController`), the network change, the application
with its files, the three listeners, the UART, the services around them and the installer,
with the proofs of section 4. Left, in this order:

1. A commit that survives its worker, and the worker the application then starts:
   `NetworkChange` and `NetworkBindings` over one store (the hazard at
   `gateway_network_runtime.c:442`).
2. `UartBackend` as the backend of `PortRuntime` in one module, in place of the
   environment each has of the other.
3. `CoreDeadline`: the wrapping comparison over a small word against unbounded time.
4. The theorems of the new parts; of the present ones only liveness is left to TLC.
