------------------------------ MODULE Transports ------------------------------
(***************************************************************************)
(* The listener of one port (src/gateway/gateway_real_adapter.c): which of *)
(* the three drivers serves it follows from the transport it is configured *)
(* for, and only that one is initialised, opened, stepped and closed.      *)
(***************************************************************************)
EXTENDS Integers

CONSTANTS
    Slots, ClientQueueMax, TxMax, RxMax, MaxPeers, MaxRequests, MaxId,  \* ModbusTcp
    PeerSlots, Datagrams, MaxUdpId, MaxEpochs,                          \* ModbusUdp
    BufferSize, DriverMax, MaxSessions                                  \* RawSerial

ASSUME TransportsAssumption ==
    \A bound \in {Slots, ClientQueueMax, TxMax, RxMax, MaxPeers, MaxRequests, MaxId, PeerSlots,
                  MaxUdpId, MaxEpochs, BufferSize, DriverMax, MaxSessions} : bound \in Nat \ {0}

VARIABLES
    transport,  \* listener_driver
    stage, listening, nextEpoch, client, slot, nextSlot, fate, owned, peers,
    phase, opened, rtuMode, udpEpoch, turn, peer, submitted, ownedBy, replies, account,
    at, bound, datagrams, owner, eof, guard, flushPending, tx, rx, input, output, port, sessions

Tcp == INSTANCE ModbusTcp WITH at <- stage
Udp == INSTANCE ModbusUdp WITH nextEpoch <- udpEpoch, MaxId <- MaxUdpId
Raw == INSTANCE RawSerial

tcpVars == <<stage, listening, nextEpoch, client, slot, nextSlot, fate, owned, peers>>
udpVars == <<phase, opened, rtuMode, udpEpoch, turn, peer, submitted, ownedBy, replies, account>>
rawVars == <<at, bound, datagrams, owner, eof, guard, flushPending, tx, rx, input, output,
             port, sessions>>
vars == <<transport, tcpVars, udpVars, rawVars>>

\* modbus_tcp, modbus_udp or rtu_udp, raw_tcp or raw_udp
Init ==
    /\ transport \in {"tcp", "udp", "raw"}
    /\ Tcp!Init /\ Udp!Init /\ Raw!Init
    /\ transport # "udp" => ~rtuMode

\* transport_start, transport_step and transport_stop, and what the others do meanwhile.
ServesTcp == transport = "tcp" /\ Tcp!Next /\ UNCHANGED <<transport, udpVars, rawVars>>
ServesUdp == transport = "udp" /\ Udp!Next /\ UNCHANGED <<transport, tcpVars, rawVars>>
ServesRaw == transport = "raw" /\ Raw!Next /\ UNCHANGED <<transport, tcpVars, udpVars>>

Next == ServesTcp \/ ServesUdp \/ ServesRaw

Spec == Init /\ [][Next]_vars

-----------------------------------------------------------------------------
(* Properties: those of the three listeners, with their type invariants. *)

\* A TCP answer goes to the connection that asked, which gets its answers in order and
\* each once (ModbusTcp).
TcpAnswersHold == Tcp!TypeOK /\ Tcp!AnswersTheAsker /\ Tcp!AnswersInOrder

\* The dispatcher has a slot for exactly the open TCP connections (ModbusTcp).
SlotsAgree == Tcp!SlotsAgree

\* A half-closed TCP peer is dropped when all it asked is resolved (ModbusTcp).
HalfClosedServed == Tcp!HalfClosedServed

\* A datagram sent answers the one it is sent for, and a repeated one is executed once
\* (ModbusUdp).
UdpAnswersHold == Udp!TypeOK /\ Udp!AnswersTheRequest /\ Udp!ExecutedOnce

\* Nothing of a raw session reaches another one (RawSerial).
SessionsApart == Raw!TypeOK /\ Raw!SessionsApart
=============================================================================
