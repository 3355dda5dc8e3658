------------------------------ MODULE ModbusUdp ------------------------------
(***************************************************************************)
(* The UDP listener of one port (src/network/modbus_udp_listener.c), for   *)
(* Modbus in MBAP frames and for RTU frames in datagrams.  The port is     *)
(* RequestService, which PortRuntime implements.                           *)
(*                                                                         *)
(* The network loses, repeats, delays and reorders: any datagram of any    *)
(* source may arrive at any time, any number of times.  A datagram is its  *)
(* source, its transaction number and what it asks for.                    *)
(*                                                                         *)
(* A loop of the gateway receives some datagrams, dispatches one request   *)
(* and drops idle peers (phase "io"); between loops the port steps, and    *)
(* the controller may close or open the listener.  How long something      *)
(* took is a choice: a deadline may have passed whenever the code asks.    *)
(***************************************************************************)
EXTENDS Integers, FiniteSetsExt

CONSTANTS
    PeerSlots,  \* MODBUS_UDP_PEERS
    Datagrams,  \* what sources may send: [source, tid, body]
    MaxId,      \* model bound: requests submitted to the port
    MaxEpochs   \* model bound: peers the listener meets

Sources == {d.source : d \in Datagrams}

PeerIndex == 1..PeerSlots

FinalStatus == {"COMPLETED", "CANCELLED"}

VARIABLES
    phase,      \* "io" within modbus_udp_listener_step_io
    opened,     \* fd >= 0
    rtuMode,    \* rtu_mode
    nextEpoch,
    turn,       \* next_peer
    peer,       \* listener->peers
    submitted,  \* the port, as RequestService
    ownedBy,    \* of each request of the port: owner_id and epoch
    replies,    \* what the last step sent: to whom, to what, and what it answers
    account     \* of each source, for ExecutedOnce: its request and how often it was executed

udpVars == <<phase, opened, rtuMode, nextEpoch, turn, peer, submitted, ownedBy, replies, account>>

Port == INSTANCE RequestService WITH fate <- submitted

Nothing == [source |-> "none", tid |-> 0, body |-> 0]

Unused == [used |-> FALSE, epoch |-> 0, asked |-> Nothing, pending |-> FALSE,
           submitted |-> FALSE, id |-> 0, cached |-> FALSE, answer |-> Nothing]

Settled == [request |-> Nothing, times |-> 0, done |-> TRUE]

Init ==
    /\ phase = "between" /\ opened = TRUE /\ rtuMode \in BOOLEAN
    /\ nextEpoch = 1 /\ turn = 1 /\ peer = [p \in PeerIndex |-> Unused]
    /\ Port!Init /\ ownedBy = [i \in 1..MaxId |-> [slot |-> 0, epoch |-> 0]]
    /\ replies = {} /\ account = [s \in Sources |-> Settled]

-----------------------------------------------------------------------------
(* Peers. *)

\* Fault: a peer is idle although its request is still served.
IdleAtAll(known) == {p \in PeerIndex : known[p].used}

\* The peers the thirty seconds of MODBUS_UDP_IDLE_TIMEOUT may have passed for.
MayBeIdle(known) == {p \in PeerIndex : known[p].used /\ ~known[p].pending}

Without(known, idle) == [p \in PeerIndex |-> IF p \in idle THEN Unused ELSE known[p]]

\* A source that was silent for so long is owed nothing for what is done.
Forgetting(known, idle, owed) ==
    [s \in Sources |-> IF owed[s].done /\ \E p \in idle : known[p].asked.source = s
                       THEN Settled ELSE owed[s]]

\* send_response to a datagram, of the answer in the record of peer p
Response(known, p, d) ==
    IF known[p].answer = Nothing THEN {}
    ELSE {[to |-> known[p].asked.source, asked |-> d, answers |-> known[p].answer]}

\* finish: only MBAP answers are remembered.
Finished(known, S, answered) ==
    [p \in PeerIndex |->
        IF p \in S THEN [known[p] EXCEPT !.pending = FALSE, !.submitted = FALSE,
                                         !.cached = ~rtuMode,
                                         !.answer = IF answered THEN known[p].asked ELSE Nothing]
        ELSE known[p]]

ResponsesOf(known, S) == UNION {Response(known, p, known[p].asked) : p \in S}

Done(S) == [s \in Sources |-> IF \E p \in S : peer[p].asked.source = s
                              THEN [account[s] EXCEPT !.done = TRUE] ELSE account[s]]

-----------------------------------------------------------------------------
(* modbus_udp_listener_receive *)

PeersOf(known, s) == {p \in PeerIndex : known[p].used /\ known[p].asked.source = s}

FreePeers(known) == {p \in PeerIndex : ~known[p].used}

\* Fault: a request is known again by its transaction number.
SameTid(d, asked) == d.tid = asked.tid

\* The datagram repeats the request of the peer's record.
SameRequest(d, asked) == d = asked

\* What keeps a new request out: one that is served, or the answer to one with its number
\* that is no older than MODBUS_UDP_CACHE_TIMEOUT ("fresh").
Blocks(known, p, d, fresh) ==
    known[p].pending \/ (~rtuMode /\ known[p].cached /\ known[p].asked.tid = d.tid /\ fresh)

\* A datagram that is well formed, with the peers not forgotten when it arrives.
Receive(d, idle) ==
    /\ opened /\ idle \subseteq MayBeIdle(peer)
    /\ phase' = "io" /\ UNCHANGED <<opened, rtuMode, turn, submitted, ownedBy>>

\* No peer is free.
Drops(d, idle) ==
    /\ Receive(d, idle)
    /\ LET known == Without(peer, idle) IN
       /\ PeersOf(known, d.source) = {} /\ FreePeers(known) = {}
       /\ peer' = known
    /\ account' = Forgetting(peer, idle, account) /\ replies' = {} /\ UNCHANGED nextEpoch

\* A repetition: answered from the record when it is complete, else the answer will come.
Repeats(d, idle) ==
    /\ Receive(d, idle)
    /\ LET known == Without(peer, idle) IN
       \E p \in PeersOf(known, d.source) :
         /\ Blocks(known, p, d, TRUE) /\ SameRequest(d, known[p].asked)
         /\ peer' = known
         /\ replies' = IF known[p].pending THEN {} ELSE Response(known, p, d)
    /\ account' = Forgetting(peer, idle, account) /\ UNCHANGED nextEpoch

\* Busy, or another request under the number of the one that is remembered.
Refuses(d, idle) ==
    /\ Receive(d, idle)
    /\ LET known == Without(peer, idle) IN
       \E p \in PeersOf(known, d.source) :
         /\ Blocks(known, p, d, TRUE) /\ ~SameRequest(d, known[p].asked)
         /\ peer' = known
    /\ account' = Forgetting(peer, idle, account) /\ replies' = {} /\ UNCHANGED nextEpoch

\* The source is still owed what its account says: d is served, or its answer is to be
\* remembered.
Owed(owed, d, fresh) == owed.request = d /\ (~owed.done \/ (fresh /\ ~rtuMode))

\* The datagram becomes the request of the source's peer, or of the first free one.
Admits(d, idle, fresh) ==
    /\ Receive(d, idle)
    /\ LET known  == Without(peer, idle)
           mine   == PeersOf(known, d.source)
           p      == Min(IF mine # {} THEN mine ELSE FreePeers(known))
           epoch  == IF mine # {} THEN known[p].epoch ELSE nextEpoch
       IN  /\ mine # {} \/ (FreePeers(known) # {} /\ nextEpoch < MaxEpochs)
           /\ ~Blocks(known, p, d, fresh)
           /\ peer' = [known EXCEPT ![p] = [Unused EXCEPT !.used = TRUE, !.asked = d,
                                                          !.pending = TRUE, !.epoch = epoch]]
           /\ nextEpoch' = IF mine # {} THEN nextEpoch ELSE nextEpoch + 1
    /\ LET owed == Forgetting(peer, idle, account) IN
       account' = IF Owed(owed[d.source], d, fresh) THEN [owed EXCEPT ![d.source].done = FALSE]
                  ELSE [owed EXCEPT ![d.source] = [request |-> d, times |-> 0, done |-> FALSE]]
    /\ replies' = {}

-----------------------------------------------------------------------------
(* dispatch_one, and the idle peers are dropped *)

Waiting == {p \in PeerIndex : peer[p].pending /\ ~peer[p].submitted}

Distance(p) == (p - turn + PeerSlots) % PeerSlots

Before(p) == {w \in Waiting : Distance(w) < Distance(p)}

\* The requests of S waited too long: the exception says so, in MBAP only.
Overdue(S) == Finished(peer, S, ~rtuMode)

Ends(known, owed) ==
    /\ phase' = "between" /\ UNCHANGED <<opened, rtuMode, nextEpoch>>
    /\ \E idle \in SUBSET MayBeIdle(known) :
         peer' = Without(known, idle) /\ account' = Forgetting(known, idle, owed)

\* The first request in turn that is not overdue goes to the port.
DispatchAccepted(p) ==
    /\ opened /\ p \in Waiting
    /\ \E i \in 1..MaxId :
         /\ \A j \in 1..MaxId : submitted[j] = "unused" <=> j >= i
         /\ Port!Accept(i)
         /\ ownedBy' = [ownedBy EXCEPT ![i] = [slot |-> p, epoch |-> peer[p].epoch]]
         /\ Ends([Overdue(Before(p)) EXCEPT ![p].submitted = TRUE, ![p].id = i],
                 [Done(Before(p)) EXCEPT ![peer[p].asked.source].times = @ + 1])
    /\ replies' = ResponsesOf(Overdue(Before(p)), Before(p))
    /\ turn' = (p % PeerSlots) + 1

\* The port is not ready or its queue is full; the request waits for its next turn.
DispatchRefused(p) ==
    /\ opened /\ p \in Waiting
    /\ Ends(Overdue(Before(p)), Done(Before(p)))
    /\ replies' = ResponsesOf(Overdue(Before(p)), Before(p))
    /\ turn' = (p % PeerSlots) + 1
    /\ UNCHANGED <<submitted, ownedBy>>

\* Nothing waits, or all of it is overdue.
DispatchNone ==
    /\ opened
    /\ Ends(Overdue(Waiting), Done(Waiting))
    /\ replies' = ResponsesOf(Overdue(Waiting), Waiting)
    /\ UNCHANGED <<turn, submitted, ownedBy>>

-----------------------------------------------------------------------------
(* The port steps and calls completion. *)

\* The peer that waits for the port's request i.
PeerFor(i) ==
    {p \in PeerIndex : /\ opened /\ peer[p].used /\ peer[p].submitted
                       /\ p = ownedBy[i].slot /\ peer[p].epoch = ownedBy[i].epoch
                       /\ peer[p].id = i}

\* A response or, in MBAP, an exception; nothing when the response does not fit the request
\* or the request was cancelled.  That the peer got nothing is remembered as well.
Complete(i, status, answered) ==
    /\ phase = "between" /\ i \in Port!Pending
    /\ status = "CANCELLED" => ~answered
    /\ Port!Resolve({i}, status)
    /\ peer' = Finished(peer, PeerFor(i), answered)
    /\ replies' = ResponsesOf(Finished(peer, PeerFor(i), answered), PeerFor(i))
    /\ account' = Done(PeerFor(i))
    /\ UNCHANGED <<phase, opened, rtuMode, nextEpoch, turn, ownedBy>>

-----------------------------------------------------------------------------
(* The controller. *)

\* modbus_udp_listener_close; the controller then has the runtime drop its requests, whose
\* completions find the listener closed.
CloseListener ==
    /\ phase = "between" /\ opened /\ opened' = FALSE
    /\ peer' = [p \in PeerIndex |-> Unused]
    /\ account' = [s \in Sources |-> Settled]
    /\ IF Port!Pending = {} THEN UNCHANGED submitted ELSE Port!Resolve(Port!Pending, "CANCELLED")
    /\ replies' = {}
    /\ UNCHANGED <<phase, rtuMode, nextEpoch, turn, ownedBy>>

\* modbus_udp_listener_init and modbus_udp_listener_open, for either framing
OpenListener ==
    /\ phase = "between" /\ ~opened /\ opened' = TRUE
    /\ rtuMode' \in BOOLEAN /\ nextEpoch' = 1 /\ turn' = 1
    /\ replies' = {}
    /\ UNCHANGED <<phase, peer, submitted, ownedBy, account>>

Next ==
    \/ \E d \in Datagrams, idle \in SUBSET PeerIndex :
         \/ Drops(d, idle) \/ Repeats(d, idle) \/ Refuses(d, idle)
         \/ \E fresh \in BOOLEAN : Admits(d, idle, fresh)
    \/ \E p \in PeerIndex : DispatchAccepted(p) \/ DispatchRefused(p)
    \/ DispatchNone
    \/ \E i \in 1..MaxId, status \in FinalStatus, answered \in BOOLEAN :
         Complete(i, status, answered)
    \/ CloseListener \/ OpenListener

Spec == Init /\ [][Next]_udpVars

-----------------------------------------------------------------------------
(* Properties *)

TypeOK ==
    /\ phase \in {"between", "io"} /\ opened \in BOOLEAN /\ rtuMode \in BOOLEAN
    /\ nextEpoch \in 1..MaxEpochs /\ turn \in PeerIndex
    /\ \A p \in PeerIndex :
         /\ peer[p].asked \in Datagrams \cup {Nothing} /\ peer[p].answer \in {Nothing, peer[p].asked}
         /\ peer[p].submitted => peer[p].pending /\ peer[p].used
    /\ \A i \in 1..MaxId : submitted[i] \in {"unused", "pending"} \cup FinalStatus

\* What the listener sends answers the request it is sent for and goes to its source:
\* peers share slots, numbers are used again for other requests, and a record is answered
\* from while the port still works on other peers' requests.
AnswersTheRequest ==
    \A r \in replies : r.answers = r.asked /\ r.to = r.answers.source

\* The request of a source goes to the line once, however often the network repeats it,
\* while it is served and, in MBAP, until its answer is no longer remembered or the
\* source asked for something else.
ExecutedOnce == \A s \in Sources : account[s].times <= 1
=============================================================================
