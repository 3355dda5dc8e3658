------------------------------ MODULE ModbusTcp ------------------------------
(***************************************************************************)
(* The Modbus TCP listener of one port with its dispatcher and its MBAP    *)
(* parser (src/network/modbus_tcp_listener.c, src/modbus/).  Requests are  *)
(* submitted to the port and answered by its completion callback; the port *)
(* is RequestService, which PortRuntime implements.                        *)
(*                                                                         *)
(* A loop of the gateway calls step_io, which accepts one client, steps    *)
(* every client and dispatches one request; "at" is its progress.  Only    *)
(* the sockets change meanwhile.  Then the port steps, and the controller  *)
(* may close or open the listener.                                         *)
(*                                                                         *)
(* Requests are numbered by peer: peer p's n-th is [peer |-> p, n |-> n].  *)
(* The code knows a connection by its client slot and its epoch only.      *)
(***************************************************************************)
EXTENDS Integers, Sequences, FiniteSetsExt

CONSTANTS
    Slots,          \* MODBUS_CLIENT_MAX
    ClientQueueMax, \* MODBUS_CLIENT_QUEUE_MAX
    TxMax,          \* MODBUS_TX_QUEUE_MAX
    RxMax,          \* complete requests the receive buffer holds
    MaxPeers,       \* model bound: connections over all lives of the listener
    MaxRequests,    \* model bound: requests of a peer
    MaxId           \* model bound: requests submitted to the port

Clients == 1..Slots

\* The results of the port as far as the listener tells them apart: the client is
\* answered, or the result is counted.
FinalStatus == {"COMPLETED", "CANCELLED"}

VARIABLES
    at,         \* 0: step_io is not running; c: client c is next; Slots + 1: the dispatcher
    listening,  \* listen_fd >= 0
    nextEpoch,
    client,     \* listener->clients
    slot,       \* dispatcher.clients
    nextSlot,   \* dispatcher.next_client
    fate,       \* the port, as RequestService
    owned,      \* of each request of the port: owner_id, epoch and the request
    peers       \* connections so far

vars == <<at, listening, nextEpoch, client, slot, nextSlot, fate, owned, peers>>

Port == INSTANCE RequestService

Requests == [peer: 1..MaxPeers, n: 1..MaxRequests]

Nobody == [peer |-> 0, epoch |-> 0, eof |-> FALSE, read |-> 0, rx |-> 0, rest |-> "none",
           tx |-> << >>, last |-> 0]

Free == [id |-> 0, epoch |-> 0, queue |-> << >>]

Unowned == [id |-> 0, epoch |-> 0, request |-> [peer |-> 0, n |-> 0]]

Connected(c) == client[c].peer # 0

Init ==
    /\ at = 0 /\ listening = TRUE /\ nextEpoch = 1 /\ nextSlot = 1
    /\ client = [c \in Clients |-> Nobody] /\ slot = [s \in Clients |-> Free]
    /\ Port!Init /\ owned = [i \in 1..MaxId |-> Unowned]
    /\ peers = 0

-----------------------------------------------------------------------------
(* Connections. *)

SlotsOf(id) == {s \in Clients : slot[s].id = id}

\* Fault: the dispatcher keeps the slot of a connection that is gone.
CloseKeepingSlot(c) == client' = [client EXCEPT ![c] = Nobody] /\ UNCHANGED slot

\* close_client
Close(c) ==
    /\ client' = [client EXCEPT ![c] = Nobody]
    /\ slot' = [s \in Clients |-> IF slot[s].id = c /\ slot[s].epoch = client[c].epoch
                                  THEN Free ELSE slot[s]]

\* accept_one, with modbus_dispatcher_connect
AcceptOne ==
    /\ at = 0 /\ listening /\ peers < MaxPeers
    /\ \E c \in Clients : ~Connected(c)
    /\ LET c == Min({d \in Clients : ~Connected(d)})
           s == Min({t \in Clients : slot[t].id = 0})
       IN  /\ IF SlotsOf(c) = {} /\ \E t \in Clients : slot[t].id = 0
              THEN /\ client' = [client EXCEPT ![c] = [Nobody EXCEPT !.peer = peers + 1,
                                                                     !.epoch = nextEpoch]]
                   /\ slot' = [slot EXCEPT ![s] = [Free EXCEPT !.id = c, !.epoch = nextEpoch]]
              ELSE UNCHANGED <<client, slot>>
    /\ nextEpoch' = nextEpoch + 1 /\ peers' = peers + 1 /\ at' = 1
    /\ UNCHANGED <<listening, nextSlot, fate, owned>>

\* Nobody connects, or no client is free.
AcceptNone ==
    /\ at = 0 /\ listening /\ at' = 1
    /\ UNCHANGED <<listening, nextEpoch, client, slot, nextSlot, fate, owned, peers>>

-----------------------------------------------------------------------------
(* One client within step_io.  x is its record together with its queue.    *)

Pair(c, s) == [of |-> client[c], queue |-> slot[s].queue]

\* Fault: what went to the dispatcher is also left in the receive buffer.
ParsedTwice(x) ==
    LET taken == Min({x.of.rx, ClientQueueMax - Len(x.queue)})
        first == x.of.read - x.of.rx
    IN  [of |-> x.of,
         queue |-> x.queue \o [j \in 1..taken |-> [peer |-> x.of.peer, n |-> first + j]]]

\* parse_available: complete requests go to the dispatcher as long as it takes
\* them; what it does not take stays in the receive buffer.
Parsed(x) ==
    LET taken == Min({x.of.rx, ClientQueueMax - Len(x.queue)})
        first == x.of.read - x.of.rx
    IN  [of    |-> [x.of EXCEPT !.rx = @ - taken],
         queue |-> x.queue \o [j \in 1..taken |-> [peer |-> x.of.peer, n |-> first + j]]]

\* The parser reached something that is not MBAP: the connection is closed.
Malformed(x) == x.of.rx = 0 /\ x.of.rest = "bad"

\* read_client: nothing, the end of the stream, or up to two more requests and
\* what follows them.
Read(x) ==
    IF x.of.eof THEN {x}
    ELSE {x, [x EXCEPT !.of.eof = TRUE]}
         \cup UNION {{Parsed([x EXCEPT !.of.read = @ + more, !.of.rx = @ + more,
                                       !.of.rest = IF @ = "bad" THEN @ ELSE rest]) :
                        rest \in {"none", "part", "bad"}} :
                     more \in 0..Min({2, RxMax - x.of.rx, MaxRequests - x.of.read})}

\* write_client: an answer is taken off when its last byte is sent.
Written(x) ==
    {x} \cup (IF x.of.tx = << >> THEN {}
              ELSE {[x EXCEPT !.of.last = Head(x.of.tx).n, !.of.tx = Tail(@)]})

\* Fault: a request counts as work once it reached the port.
WorkInPort(c, x) ==
    \E i \in Port!Pending : owned[i].id = c /\ owned[i].epoch = x.of.epoch

\* client_has_core_work
HasCoreWork(c, x) ==
    \/ x.queue # << >>
    \/ \E i \in Port!Pending : owned[i].id = c /\ owned[i].epoch = x.of.epoch

\* The peer has sent everything and has every answer.
Served(c, x) == x.of.eof /\ x.of.tx = << >> /\ ~HasCoreWork(c, x)

Handled(x) == {w \in UNION {Written(r) : r \in {r \in Read(Parsed(x)) : ~Malformed(r)}} :
                 ~Malformed(Parsed(x))}

StepsOver == UNCHANGED <<listening, nextEpoch, nextSlot, fate, owned, peers>>

StepClient(c) ==
    /\ at = c /\ Connected(c) /\ at' = c + 1
    /\ \E s \in SlotsOf(c) : \E w \in Handled(Pair(c, s)) :
         /\ ~Served(c, w)
         /\ client' = [client EXCEPT ![c] = w.of]
         /\ slot' = [slot EXCEPT ![s].queue = w.queue]
    /\ StepsOver

\* Half-closed, and done.
Leaves(c) ==
    /\ at = c /\ Connected(c) /\ at' = c + 1
    /\ \E s \in SlotsOf(c) : \E w \in Handled(Pair(c, s)) : Served(c, w)
    /\ Close(c)
    /\ StepsOver

\* A socket error, something that is not MBAP, a full receive buffer, a request
\* or an answer that takes more than five seconds, or thirty idle ones.
Breaks(c) ==
    /\ at = c /\ Connected(c) /\ at' = c + 1
    /\ Close(c)
    /\ StepsOver

SkipClient(c) ==
    /\ at = c /\ ~Connected(c) /\ at' = c + 1
    /\ UNCHANGED <<client, slot>> /\ StepsOver

-----------------------------------------------------------------------------
(* modbus_dispatcher_step: one request of the next client that has one. *)

After(s) == (s % Slots) + 1

\* The waiting slots, by their distance from nextSlot.
Distance(s) == (s - nextSlot + Slots) % Slots

Waiting == {s \in Clients : slot[s].id # 0 /\ slot[s].queue # << >>}

Turn == CHOOSE s \in Waiting : \A t \in Waiting : Distance(s) <= Distance(t)

DispatchAccepted ==
    /\ at = Slots + 1 /\ Waiting # {} /\ at' = 0
    /\ LET s == Turn
       IN  \E i \in 1..MaxId :
             /\ \A j \in 1..MaxId : fate[j] = "unused" <=> j >= i
             /\ Port!Accept(i)
             /\ owned' = [owned EXCEPT ![i] = [id |-> slot[s].id, epoch |-> slot[s].epoch,
                                               request |-> Head(slot[s].queue)]]
             /\ slot' = [slot EXCEPT ![s].queue = Tail(@)]
             /\ nextSlot' = After(s)
    /\ UNCHANGED <<listening, nextEpoch, client, peers>>

\* The port is not ready or its queue is full: the turn passes all the same.
DispatchRefused ==
    /\ at = Slots + 1 /\ Waiting # {} /\ at' = 0
    /\ nextSlot' = After(Turn)
    /\ UNCHANGED <<listening, nextEpoch, client, slot, fate, owned, peers>>

DispatchNone ==
    /\ at = Slots + 1 /\ Waiting = {} /\ at' = 0
    /\ UNCHANGED <<listening, nextEpoch, client, slot, nextSlot, fate, owned, peers>>

-----------------------------------------------------------------------------
(* The port steps and calls completion. *)

\* Fault: the client slot is taken for the connection.
SameSlot(id, epoch) == {c \in Clients : Connected(c) /\ c = id}

\* current_client
CurrentClient(id, epoch) == {c \in Clients : Connected(c) /\ c = id /\ client[c].epoch = epoch}

\* Fault: one answer more than there is room for.
QueueOneMore(c, request) ==
    IF Len(client[c].tx) <= TxMax
    THEN client' = [client EXCEPT ![c].tx = Append(@, request)] /\ UNCHANGED slot
    ELSE Close(c)

\* modbus_tcp_listener_queue_response: a client with no room is closed.
QueueResponse(c, request) ==
    IF Len(client[c].tx) < TxMax
    THEN client' = [client EXCEPT ![c].tx = Append(@, request)] /\ UNCHANGED slot
    ELSE Close(c)

\* A response, or the exception that the target did not respond.
Answers(i) ==
    /\ at = 0 /\ i \in Port!Pending
    /\ Port!Resolve({i}, "COMPLETED")
    /\ LET to == CurrentClient(owned[i].id, owned[i].epoch)
       IN  IF to = {} THEN UNCHANGED <<client, slot>>
           ELSE \E c \in to : QueueResponse(c, owned[i].request)
    /\ UNCHANGED <<at, listening, nextEpoch, nextSlot, owned, peers>>

\* Every other result, and a response that does not fit the request, is only counted.
Fails(S) ==
    /\ at = 0
    /\ Port!Resolve(S, "CANCELLED")
    /\ UNCHANGED <<at, listening, nextEpoch, client, slot, nextSlot, owned, peers>>

-----------------------------------------------------------------------------
(* The controller. *)

\* Fault: the port keeps the requests of a listener that is gone.
PortKeeps == UNCHANGED fate

\* Detaching, reconfiguring or stopping the runtime drops its requests.
PortDrops ==
    IF Port!Pending = {} THEN UNCHANGED fate ELSE Port!Resolve(Port!Pending, "CANCELLED")

\* modbus_tcp_listener_close, and what the controller does to the runtime then.
CloseListener ==
    /\ at = 0 /\ listening /\ listening' = FALSE
    /\ client' = [c \in Clients |-> Nobody] /\ slot' = [s \in Clients |-> Free]
    /\ PortDrops
    /\ UNCHANGED <<at, nextEpoch, nextSlot, owned, peers>>

\* modbus_tcp_listener_init and modbus_tcp_listener_open
OpenListener ==
    /\ at = 0 /\ ~listening /\ listening' = TRUE
    /\ nextEpoch' = 1 /\ nextSlot' = 1
    /\ client' = [c \in Clients |-> Nobody] /\ slot' = [s \in Clients |-> Free]
    /\ UNCHANGED <<at, fate, owned, peers>>

Next ==
    \/ AcceptOne \/ AcceptNone
    \/ \E c \in Clients : StepClient(c) \/ Leaves(c) \/ Breaks(c) \/ SkipClient(c)
    \/ DispatchAccepted \/ DispatchRefused \/ DispatchNone
    \/ \E i \in 1..MaxId : Answers(i)
    \/ \E S \in SUBSET Port!Pending : Fails(S)
    \/ CloseListener \/ OpenListener

Spec == Init /\ [][Next]_vars

-----------------------------------------------------------------------------
(* Properties *)

TypeOK ==
    /\ at \in 0..(Slots + 1) /\ listening \in BOOLEAN
    /\ nextEpoch \in 1..(MaxPeers + 1) /\ nextSlot \in Clients /\ peers \in 0..MaxPeers
    /\ client \in [Clients -> [peer: 0..MaxPeers, epoch: 0..MaxPeers, eof: BOOLEAN,
                               read: 0..MaxRequests, rx: 0..RxMax,
                               rest: {"none", "part", "bad"}, tx: Seq(Requests),
                               last: 0..MaxRequests]]
    /\ \A c \in Clients : Len(client[c].tx) <= TxMax
    /\ slot \in [Clients -> [id: 0..Slots, epoch: 0..MaxPeers, queue: Seq(Requests)]]
    /\ \A s \in Clients : Len(slot[s].queue) <= ClientQueueMax
    /\ fate \in [1..MaxId -> {"unused", "pending"} \cup FinalStatus]

\* An answer goes to the connection that asked and to no later one in the same
\* client slot, although connections come and go while a request is on the line,
\* and a listener that opens again counts its epochs from 1.
AnswersTheAsker ==
    \A c \in Clients : \A j \in DOMAIN client[c].tx : client[c].tx[j].peer = client[c].peer

\* A connection gets its answers in the order of its requests, each once,
\* through the parser, the dispatcher's queue, the port and the output queue.
AnswersInOrder ==
    \A c \in Clients :
        LET tx == client[c].tx IN
        /\ \A j \in DOMAIN tx : client[c].last < tx[j].n /\ tx[j].n <= client[c].read
        /\ \A j, k \in DOMAIN tx : j < k => tx[j].n < tx[k].n

\* The dispatcher has a slot for exactly the open connections, in the listener's
\* numbering, so that connect never fails for a client the listener has room
\* for, and a request is never queued for a connection that is gone.
SlotsAgree ==
    \A c \in Clients :
        IF Connected(c)
        THEN \E s \in Clients : SlotsOf(c) = {s} /\ slot[s].epoch = client[c].epoch
        ELSE SlotsOf(c) = {}

\* A peer that closed its sending side is dropped as served only when each of its
\* requests was resolved by the port: none is left in the receive buffer, which
\* the condition in step_io does not look at, in the dispatcher or in the port.
HalfClosedServed ==
    [][ \A c \in Clients :
          Leaves(c) =>
            \A n \in 1..client[c].read : \E i \in 1..MaxId :
              owned[i].request = [peer |-> client[c].peer, n |-> n] /\ i \notin Port!Pending ]_vars
=============================================================================
