-------------------------------- MODULE Dhcp --------------------------------
(* The DHCP client of one LAN (network/gateway_dhcp_client.c), stepped by    *)
(* the network owner, and the servers of that LAN.  Every datagram may be    *)
(* lost, delayed and delivered again: what was sent stays in `net`.          *)
(*                                                                           *)
(* Retransmission and back-off delays are not counted: what they allow may   *)
(* happen at any time.  The timers of the lease are counted in ticks.        *)
(*                                                                           *)
(* A transaction id comes from two counters: the owner's, which counts the   *)
(* starts of its two clients, and the client's own, which goes on from there *)
(* until the next start.  So an id can be that of a transaction of an        *)
(* earlier session, from one start to the next, whose answers still arrive.  *)
EXTENDS Integers

CONSTANTS Servers, Addresses, Lifetime, MaxTime, MaxXid

VARIABLES
    client,  \* gateway_dhcp_client_t; history: session, and own, whether the lease was
             \* acknowledged in answer to a request of this session
    nextXid, \* the owner's next_xid
    net,     \* datagrams sent so far, of the client and of the servers; history: session
    grant,   \* the servers: until when an address is the client's
    now      \* the monotonic clock

dhcpVars == <<client, nextXid, net, grant, now>>

Nothing == "none"
Asking == {"selecting", "requesting", "renewing", "rebinding"}
RenewAfter == Lifetime \div 2
RebindAfter == (7 * Lifetime) \div 8

Due(at) == now >= at

\* invalidate
Invalid(d) == [d EXCEPT !.valid = FALSE, !.asked = 0 - 1, !.address = Nothing]
Backs(d) == [d EXCEPT !.state = "backoff", !.send = Nothing]
Restarts(d) == [Invalid(d) EXCEPT !.state = "selecting", !.xid = @ + 1, !.send = "discover"]

Becomes(d) == client' = d /\ UNCHANGED <<nextXid, net, grant, now>>

\* Model bound: ids up to MaxXid are used.
Room == client.xid < MaxXid

-----------------------------------------------------------------------------
(* The owner: start, stop, the cable, a conflict seen by ARP.                *)

\* What the memset of gateway_dhcp_start leaves, with what it sets then.
Cleared(state, xid) ==
    [state |-> state, xid |-> xid, session |-> xid, server |-> Nothing, address |-> Nothing,
     valid |-> FALSE, own |-> FALSE, asked |-> 0 - 1, renew |-> 0, rebind |-> 0, expires |-> 0,
     send |-> Nothing, probes |-> 0]

Counts == nextXid < MaxXid /\ nextXid' = nextXid + 1

Start ==
    /\ client.state = "off" /\ Counts
    /\ client' = Cleared("selecting", nextXid')
    /\ UNCHANGED <<net, grant, now>>

\* The client of the other LAN is started.
OtherStarts == Counts /\ UNCHANGED <<client, net, grant, now>>

\* Of a client that is off a stop would only move the id, which the next start sets.
Stop ==
    /\ client.state # "off"
    /\ Becomes([Invalid(client) EXCEPT !.state = "off", !.send = Nothing, !.xid = @ + 1])

LinkLost == client.state \notin {"off", "backoff"} /\ Becomes(Backs(Invalid(client)))

\* gateway_dhcp_conflict: the lease is kept until the back-off ends, to decline it.
Conflict ==
    /\ client.address # Nothing /\ client.state \in {"probing", "bound"} \cup Asking
    /\ Becomes([client EXCEPT !.valid = FALSE, !.send = "decline", !.state = "backoff"])

-----------------------------------------------------------------------------
(* gateway_dhcp_step.                                                        *)

Expires == (client.valid \/ client.state = "probing") /\ Due(client.expires)

Expire == Expires /\ Room /\ Becomes(Restarts(client))

Resume == ~Expires /\ client.state = "backoff" /\ Room /\ Becomes(Restarts(client))

\* With neither an answer nor a lease for 30 s.
GiveUp ==
    /\ ~Expires /\ ~client.valid /\ client.state \in {"selecting", "requesting"}
    /\ Becomes(Backs(client))

Queued(d) == [d EXCEPT !.send = IF d.state = "selecting" THEN "discover" ELSE "request"]
NewRequest(d) == [d EXCEPT !.xid = @ + 1, !.asked = 0 - 1]

Renew ==
    /\ ~Expires /\ client.state = "bound" /\ Room
    /\ Due(client.renew) /\ ~Due(client.rebind)
    /\ Becomes(Queued([NewRequest(client) EXCEPT !.state = "renewing"]))

\* A renewal under way keeps its transaction and the time of its first request.
Rebind ==
    /\ ~Expires /\ client.valid /\ client.state # "rebinding" /\ Due(client.rebind)
    /\ \/ /\ client.state = "bound" /\ Room
          /\ Becomes(Queued([NewRequest(client) EXCEPT !.state = "rebinding"]))
       \/ client.state = "renewing" /\ Becomes(Queued([client EXCEPT !.state = "rebinding"]))

Retransmit == ~Expires /\ client.state \in Asking /\ Becomes(Queued(client))

-----------------------------------------------------------------------------
(* gateway_dhcp_packet: the first request of a transaction is remembered.    *)

Sent ==
    [type |-> client.send, xid |-> client.xid, session |-> client.session,
     address |-> client.address,
     server |-> IF client.state \in {"requesting", "renewing"} THEN client.server ELSE Nothing]

Send ==
    /\ client.send # Nothing
    /\ net' = IF client.send = "decline" THEN net ELSE net \cup {Sent}
    /\ client' = [client EXCEPT !.send = Nothing,
                     !.asked = IF client.send = "request" /\ @ < 0 THEN now ELSE @]
    /\ UNCHANGED <<nextXid, grant, now>>

-----------------------------------------------------------------------------
(* The servers, which share what they granted.  An offer binds nobody and a  *)
(* refusal needs no memory: they are sent when they are received.            *)

\* A request is acknowledged as often as it arrives, and each time for a whole
\* lifetime from then on.
Serve ==
    \E m \in net, s \in Servers :
       /\ m.type = "request" /\ m.server \in {Nothing, s}
       /\ net' = net \cup {[m EXCEPT !.type = "ack", !.server = s]}
       /\ grant' = [grant EXCEPT ![m.address] = now + Lifetime]
       /\ UNCHANGED <<client, nextXid, now>>

-----------------------------------------------------------------------------
(* gateway_dhcp_receive.                                                     *)

Accepts(m) ==
    m.xid = client.xid /\ client.state \in Asking /\ ~(client.valid /\ Due(client.expires))
FromOwnServer(s) == client.state \in {"requesting", "renewing"} => s = client.server

\* Fault: a lease counts from its acknowledgement.
BaseOfArrival == now

\* The server may have granted the lease as early as the first request was sent.
Base == IF client.asked >= 0 THEN client.asked ELSE now

ReceiveOffer(m, s, a) ==
    /\ m.type = "discover" /\ Accepts(m) /\ client.state = "selecting"
    /\ Becomes([client EXCEPT !.state = "requesting", !.address = a, !.server = s,
                              !.asked = 0 - 1, !.send = "request"])

ReceiveNak(m, s) ==
    /\ m.type = "request" /\ m.server \in {Nothing, s} /\ Accepts(m) /\ FromOwnServer(s)
    /\ client.state # "selecting"
    /\ Becomes(Backs(Invalid(client)))

ReceiveAck(m) ==
    LET same == client.valid /\ client.address = m.address
    IN  /\ m.type = "ack" /\ Accepts(m) /\ client.state # "selecting" /\ FromOwnServer(m.server)
        /\ now - Base < Lifetime
        /\ client.state = "requesting" => m.address = client.address
        /\ Becomes([client EXCEPT !.state = IF same THEN "bound" ELSE "probing", !.valid = same,
                       !.own = (m.session = client.session), !.probes = IF same THEN @ ELSE 0,
                       !.address = m.address, !.server = m.server, !.send = Nothing,
                       !.renew = Base + RenewAfter, !.rebind = Base + RebindAfter,
                       !.expires = Base + Lifetime])

Receive ==
    \E m \in net, s \in Servers :
       ReceiveNak(m, s) \/ ReceiveAck(m) \/ \E a \in Addresses : ReceiveOffer(m, s, a)

\* The owner probes the address three times; a probe that cannot be sent is a
\* conflict.
Probe ==
    /\ client.state = "probing" /\ client.probes < 3 /\ ~Expires
    /\ Becomes([client EXCEPT !.probes = @ + 1])

\* gateway_dhcp_probed
Probed ==
    /\ client.state = "probing" /\ client.probes = 3 /\ ~Due(client.expires)
    /\ Becomes([client EXCEPT !.state = "bound", !.valid = TRUE])

Tick == now < MaxTime /\ now' = now + 1 /\ UNCHANGED <<client, nextXid, net, grant>>

Init ==
    /\ client = Cleared("off", 0) /\ nextXid = 1
    /\ net = {} /\ now = 0
    /\ grant = [a \in Addresses |-> 0]

Next ==
    \/ Start \/ OtherStarts \/ Stop \/ LinkLost \/ Conflict \/ Expire \/ Resume \/ GiveUp
    \/ Renew \/ Rebind \/ Retransmit \/ Send \/ Serve \/ Receive \/ Probe \/ Probed \/ Tick

-----------------------------------------------------------------------------
(* Properties.                                                               *)

TypeOK ==
    /\ client.state \in {"off", "probing", "bound", "backoff"} \cup Asking
    /\ client.send \in {Nothing, "discover", "request", "decline"}
    /\ client.xid \in 0 .. MaxXid + 1 /\ nextXid \in 1 .. MaxXid
    /\ client.probes \in 0 .. 3 /\ now \in 0 .. MaxTime

\* Hazard: acknowledgements arrive late, twice, after the next request or in the next
\* session, and each server counts a lease from its own acknowledgement.  The address
\* that the client holds for valid is granted to it for at least as long as the client
\* thinks, if the acknowledgement it took was one to a request of this session.
\* Without this condition it does not hold, as an id may be used again: against the
\* comment in gateway_dhcp_receive a delayed reply then does extend the lease.
LeaseIsGranted ==
    client.valid =>
        /\ client.address # Nothing
        /\ client.own => client.expires <= grant[client.address]

=============================================================================
