------------------------------- MODULE Services -------------------------------
(***************************************************************************)
(* The parts of the gateway around the ports, the configuration and the    *)
(* change of the network: the line of a port, the seed of the random       *)
(* numbers, the time, the panel, the lease of a LAN, the owner of the      *)
(* network, the bindings of the ports, and the web service.  They meet the *)
(* rest of the gateway through what their modules leave to chance, so that *)
(* each is a system of its own: a behaviour is one of a single part, and   *)
(* the others stay at rest.                                                *)
(***************************************************************************)
EXTENDS Integers, FiniteSets, Sequences

CONSTANTS
    Parts,                                                         \* those that are looked at
    LineSettings, SpecialSettings, FrameLength, LineMax, DrainLimit,   \* UartBackend
    MaxStarts, MaxRecoveries, MaxReconfigurations,
    Processes, GenerationLimit, MaxFresh, MaxServed, MaxFaults,    \* RngSeed
    NtpServers, Intervals, TestAttempts,                           \* TimeSync
    MaxEdits, MaxRevision, KeysMax,                                \* Panel
    DhcpServers, Addresses, Lifetime, MaxTime, MaxXid,             \* Dhcp
    OwnerPolicies, Leased, Leases, MaxFailures, MaxCommands,            \* NetworkOwner
    Networks, LeasedNetworks, LanLeases, Ports, Bound,             \* NetworkBindings
    MaxApplies, MaxSetbacks, MaxLeases,
    MaxChanges, MaxTroubles                                        \* WebGateway

ASSUME ServicesAssumption ==
    /\ Parts \subseteq {"uart", "seed", "time", "panel", "dhcp", "owner", "bindings", "web"}
    /\ SpecialSettings \subseteq LineSettings /\ Leased \subseteq OwnerPolicies
    /\ LeasedNetworks \subseteq Networks /\ Bound \subseteq Ports
    /\ Ports \subseteq Nat \ {0} /\ \A i \in Ports : 1 .. i \subseteq Ports
    /\ "none" \notin LineSettings \cup Addresses /\ "cancel" \notin OwnerPolicies
    /\ "nobody" \notin Processes /\ "nowhere" \notin Networks
    /\ \A bound \in {FrameLength, LineMax, DrainLimit, MaxStarts, MaxRecoveries, GenerationLimit,
                     TestAttempts, Lifetime, MaxTime, MaxXid, MaxEdits,
                     MaxRevision, KeysMax} : bound \in Nat \ {0}

VARIABLES
    part,
    phase, uart, hardware, line, owed, starts, recoveries, current, changes,
    disk, durable, lock, proc, served, fresh, troubles,
    coordinator, process, stopRequested, ntp, clock,
    app, panel, keys, shown, meant, blind,
    client, nextXid, net, grant, now,
    installed, store, request, owner, guardian, job, toGuardian, toOwner, count,
    world, worker, runtime, seen, observer, port, used,
    config, gate, broker, account, stored, spent

Uart == INSTANCE UartBackend WITH Settings <- LineSettings, MaxChanges <- MaxReconfigurations
Seed == INSTANCE RngSeed WITH MaxTroubles <- MaxFaults
Time == INSTANCE TimeSync WITH Servers <- NtpServers
Lcd == INSTANCE Panel
Lease == INSTANCE Dhcp WITH Servers <- DhcpServers
Owner == INSTANCE NetworkOwner WITH Policies <- OwnerPolicies, disk <- store
Bindings == INSTANCE NetworkBindings
    WITH Policies <- Networks, Leased <- LeasedNetworks, Leases <- LanLeases,
         MaxTroubles <- MaxSetbacks, app <- runtime, count <- used
Web == INSTANCE WebGateway WITH count <- spent

uartVars == <<phase, uart, hardware, line, owed, starts, recoveries, current, changes>>
seedVars == <<disk, durable, lock, proc, served, fresh, troubles>>
timeVars == <<coordinator, process, stopRequested, ntp, clock>>
panelVars == <<app, panel, keys, shown, meant, blind>>
dhcpVars == <<client, nextXid, net, grant, now>>
ownerVars == <<installed, store, request, owner, guardian, job, toGuardian, toOwner, count>>
bindingVars == <<world, worker, runtime, seen, observer, port, used>>
webVars == <<config, gate, broker, account, stored, spent>>
vars == <<part, uartVars, seedVars, timeVars, panelVars, dhcpVars, ownerVars, bindingVars, webVars>>

\* Of the parts at rest, one initial state is enough.
One(set) == CHOOSE x \in set : TRUE
AtRest ==
    /\ part # "uart" => hardware.termios = One(LineSettings) /\ uart.config = One(LineSettings)
    /\ part # "seed" => disk = Seed!NoFiles
    /\ part # "panel" => ~app.code
    /\ part # "owner" => store.confirmed = One(OwnerPolicies) /\ installed = Owner!Half
    /\ part # "bindings" => world.policy = One(Networks) /\ world.lease \in {One(LanLeases), "nowhere"}
    /\ part # "web" => config.protocol = One(Web!Protocols) /\ ~account.administrator

Init ==
    /\ part \in Parts
    /\ Uart!Init /\ Seed!Init /\ Time!Init /\ Lcd!Init
    /\ Lease!Init /\ Owner!Init /\ Bindings!Init /\ Web!Init
    /\ AtRest

\* gateway_uart_backend, of one port
ServesUart ==
    /\ part = "uart" /\ Uart!Next
    /\ UNCHANGED <<part, seedVars, timeVars, panelVars, dhcpVars, ownerVars, bindingVars, webVars>>

\* The random number broker's seed on the flash.
ServesSeed ==
    /\ part = "seed" /\ Seed!Next
    /\ UNCHANGED <<part, uartVars, timeVars, panelVars, dhcpVars, ownerVars, bindingVars, webVars>>

\* The application's NTP client and its helper.
ServesTime ==
    /\ part = "time" /\ Time!Next
    /\ UNCHANGED <<part, uartVars, seedVars, panelVars, dhcpVars, ownerVars, bindingVars, webVars>>

\* The panel, with the application and the browser it shares the configuration with.
ServesPanel ==
    /\ part = "panel" /\ Lcd!Next
    /\ UNCHANGED <<part, uartVars, seedVars, timeVars, dhcpVars, ownerVars, bindingVars, webVars>>

\* The DHCP client of one LAN.
ServesLease ==
    /\ part = "dhcp" /\ Lease!Next
    /\ UNCHANGED <<part, uartVars, seedVars, timeVars, panelVars, ownerVars, bindingVars, webVars>>

\* The guardian, the owner of the network and their jobs.
ServesOwner ==
    /\ part = "owner" /\ Owner!Next
    /\ UNCHANGED <<part, uartVars, seedVars, timeVars, panelVars, dhcpVars, bindingVars, webVars>>

\* The application during a change of the network.
ServesBindings ==
    /\ part = "bindings" /\ Bindings!Next
    /\ UNCHANGED <<part, uartVars, seedVars, timeVars, panelVars, dhcpVars, ownerVars, webVars>>

\* The web gateway, its service, its broker and its workers.
ServesWeb ==
    /\ part = "web" /\ Web!Next
    /\ UNCHANGED <<part, uartVars, seedVars, timeVars, panelVars, dhcpVars, ownerVars, bindingVars>>

Next ==
    \/ ServesUart \/ ServesSeed \/ ServesTime \/ ServesPanel
    \/ ServesLease \/ ServesOwner \/ ServesBindings \/ ServesWeb

Spec == Init /\ [][Next]_vars

-----------------------------------------------------------------------------
(* Properties: those of the parts, one formula for each, with its type invariant; a part *)
(* at rest keeps a state from which it is also looked at.                             *)

\* No byte that waited on the line at a recovery is in the answer to a later request, and
\* a port that serves has its line set as it is configured (UartBackend).
LineIsClean ==
    part = "uart" => Uart!TypeOK /\ Uart!AnswerIsFresh /\ Uart!LineFits

\* No seed is served twice, also after a loss of power, and a loss of power alone asks
\* for no service (RngSeed).
SeedHolds ==
    part = "seed" => Seed!TypeOK /\ Seed!SeedServedOnce /\ Seed!PowerLossNeedsNoService

\* What the application tells of the clock is what was done to it; no helper is left
\* behind, and a test ends (TimeSync).
ClockIsTold ==
    part = "time" => Time!TypeOK /\ Time!TrustIsTrue /\ Time!HelperIsMinded /\ Time!TestIsBounded

\* The panel's token stands for the configuration that its draft is of, and a recovery
\* is confirmed on the display that asks for it (Panel).
PanelIsTrue ==
    part = "panel" => Lcd!TypeOK /\ Lcd!TokenIsCurrent /\ Lcd!RecoveryIsSeen

\* The address in use, if it was acknowledged in answer to a request of this session of
\* the client, is leased from a server; and what the owner calls settled is in the kernel
\* (Dhcp, NetworkOwner).
NetworkIsInstalled ==
    /\ part = "dhcp" => Lease!TypeOK /\ Lease!LeaseIsGranted
    /\ part = "owner" => Owner!TypeOK /\ Owner!SettledIsInstalled

\* The ports are where the LAN is when the user is asked, and when the change is over;
\* and it is over as the store says (NetworkBindings).
BindingsFollow ==
    part = "bindings" =>
        Bindings!TypeOK /\ Bindings!AskedWhenBound /\ Bindings!EndsBound /\ Bindings!RecoveredIsStored

\* A session stands on the password that is stored, and an answer goes to the
\* connection that asked (WebGateway).
SessionsAreSound ==
    part = "web" => Web!TypeOK /\ Web!SessionIsSound /\ Web!AnswerReachesAsker

\* A port that is stopped has its line set as it was found; an uncertain write of the
\* seed is never taken for a certain one; and a broker that failed is not started again
\* (UartBackend, RngSeed, WebGateway).
NothingIsForgotten == Uart!StopRestores /\ Seed!UncertainIsKept /\ Web!FailureIsFinal

\* The result that the panel shows is that of its own draft (Panel).
AppliedMeansApplied == Lcd!AppliedMeansApplied
=============================================================================
