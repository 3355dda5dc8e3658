-------------------------- MODULE TransportsProofs --------------------------
(***************************************************************************)
(* Theorems about the listeners of Transports: the Modbus TCP listener,    *)
(* for every number of clients, requests and places in the queues, and the *)
(* UDP and the raw serial listeners, for every number of peers and every   *)
(* size of the buffers.  They rest on TransportsAssumption only.           *)
(***************************************************************************)
EXTENDS Transports, SequenceTheorems, WellFoundedInduction, TLAPS

-----------------------------------------------------------------------------
(* The TCP listener: the inductive invariant, part by part. *)

Clients == 1..Slots

ClientType == [peer: 0..MaxPeers, epoch: 0..MaxPeers, eof: BOOLEAN, read: 0..MaxRequests,
               rx: 0..RxMax, rest: {"none", "part", "bad"}, tx: Seq(Tcp!Requests),
               last: 0..MaxRequests]

SlotType == [id: 0..Slots, epoch: 0..MaxPeers, queue: Seq(Tcp!Requests)]

OwnedType == [id: 0..Slots, epoch: 0..MaxPeers,
              request: [peer: 0..MaxPeers, n: 0..MaxRequests]]

TypeInv == Tcp!TypeOK /\ owned \in [1..MaxId -> OwnedType]

Pending == Tcp!Port!Pending

\* A connection has one slot, with its epoch, and a slot has a connection.
SlotsInv ==
    /\ \A s, t \in Clients : slot[s].id # 0 /\ slot[s].id = slot[t].id => s = t
    /\ \A s \in Clients : slot[s].id # 0 => /\ client[slot[s].id].peer # 0
                                            /\ slot[s].epoch = client[slot[s].id].epoch
    /\ \A c \in Clients : client[c].peer # 0 => \E s \in Clients : slot[s].id = c

\* Epochs are not used again while a request of theirs is in the port.
EpochInv ==
    /\ nextEpoch <= peers + 1
    /\ \A c \in Clients : client[c].peer # 0 => client[c].epoch < nextEpoch
    /\ \A i \in Pending : owned[i].epoch < nextEpoch
    /\ ~listening =>
          stage = 0 /\ Pending = {} /\ \A c \in Clients : client[c].peer = 0

\* How many requests of a client left its queue for the port.
Dispatched(of, queue) == of.read - of.rx - Len(queue)

\* The queue holds the requests that follow those, in their order; what is to be sent
\* answers earlier ones, in their order, and none that was answered before.
FlowOK(of, queue) ==
    /\ Dispatched(of, queue) \in Nat /\ of.last <= Dispatched(of, queue)
    /\ \A j \in 1..Len(queue) :
          queue[j] = [peer |-> of.peer, n |-> Dispatched(of, queue) + j]
    /\ \A j \in 1..Len(of.tx) : /\ of.tx[j].peer = of.peer
                                /\ of.last < of.tx[j].n
                                /\ of.tx[j].n <= Dispatched(of, queue)
    /\ \A j, k \in 1..Len(of.tx) : j < k => of.tx[j].n < of.tx[k].n

FlowInv ==
    \A s \in Clients : slot[s].id # 0 => FlowOK(client[slot[s].id], slot[s].queue)

\* Request i of the port is one of the connection in slot s.
Asks(i, s) == i \in Pending /\ owned[i].id = slot[s].id /\ owned[i].epoch = slot[s].epoch

\* What is in the port for a connection comes after all its answers, in order.
PortInv ==
    \A s \in Clients : \A i \in Pending : slot[s].id # 0 /\ Asks(i, s) =>
        LET of == client[slot[s].id]
        IN  /\ owned[i].request.peer = of.peer
            /\ of.last < owned[i].request.n
            /\ owned[i].request.n <= Dispatched(of, slot[s].queue)
            /\ \A j \in 1..Len(of.tx) : of.tx[j].n < owned[i].request.n
            /\ \A k \in Pending : Asks(k, s) /\ i < k => owned[i].request.n < owned[k].request.n

\* What left the queue was taken by the port: it is there, or was resolved.
TakenInv ==
    \A s \in Clients : slot[s].id # 0 =>
        \A n \in 1..Dispatched(client[slot[s].id], slot[s].queue) :
            \E i \in 1..MaxId :
                /\ owned[i].request = [peer |-> client[slot[s].id].peer, n |-> n]
                /\ fate[i] # "unused"
                /\ i \in Pending => Asks(i, s)

\* Nothing is to be sent where there is no connection.
IdleInv == \A c \in Clients : client[c].peer = 0 => client[c].tx = << >>

TcpInv == TypeInv /\ SlotsInv /\ EpochInv /\ FlowInv /\ PortInv /\ TakenInv /\ IdleInv

-----------------------------------------------------------------------------
(* Lemmas about least elements, and about the next client's turn. *)

\* Every set of numbers has a least one.
LEMMA LeastOf ==
    ASSUME NEW S, S \subseteq Nat, S # {}
    PROVE  \E m \in S : \A n \in S : m <= n
<1> DEFINE Less == {ss \in Nat \X Nat : ss[1] < ss[2]}
<1>1. IsWellFoundedOn(Less, Nat)
  BY NatLessThanWellFounded, Zenon DEF OpToRel
<1>2. PICK m \in S : \A n \in S : <<n, m>> \notin Less
  <2> HIDE DEF Less
  <2> QED
    BY <1>1, WFMin
<1>3. \A n \in S : ~(n < m)
  BY <1>2
<1> QED
  BY <1>3

\* The bounds, one by one.
LEMMA BoundsAre ==
    /\ Slots \in Nat \ {0} /\ ClientQueueMax \in Nat \ {0} /\ TxMax \in Nat \ {0}
    /\ RxMax \in Nat \ {0} /\ MaxPeers \in Nat \ {0} /\ MaxRequests \in Nat \ {0}
    /\ MaxId \in Nat \ {0}
BY TransportsAssumption

\* Min is the least element.
LEMMA MinIs ==
    ASSUME NEW S, S \subseteq Nat, S # {}
    PROVE  Tcp!Min(S) \in S /\ \A n \in S : Tcp!Min(S) <= n
BY LeastOf DEF Tcp!Min

\* What a slot's distance from the next one is.
LEMMA DistanceIs ==
    ASSUME NEW s \in Clients, nextSlot \in Clients
    PROVE  Tcp!Distance(s) \in Nat
BY BoundsAre DEF Tcp!Distance, Clients

\* The dispatcher turns to a client that waits.
LEMMA TurnIs ==
    ASSUME nextSlot \in Clients, Tcp!Waiting # {}
    PROVE  Tcp!Turn \in Tcp!Waiting
<1> DEFINE distances == {Tcp!Distance(s) : s \in Tcp!Waiting}
<1>1. \A s \in Tcp!Waiting : s \in Clients
  BY DEF Tcp!Waiting, Tcp!Clients, Clients
<1>2. distances \subseteq Nat /\ distances # {}
  BY <1>1, DistanceIs
<1>3. PICK m \in distances : \A n \in distances : m <= n
  <2> HIDE DEF distances
  <2> QED
    BY <1>2, LeastOf
<1>4. \E s \in Tcp!Waiting : \A t \in Tcp!Waiting : Tcp!Distance(s) <= Tcp!Distance(t)
  BY <1>3
<1> QED
  BY <1>4 DEF Tcp!Turn

-----------------------------------------------------------------------------
(* One client within step_io. *)

PairType == [of: ClientType, queue: Seq(Tcp!Requests)]

PairOK(x) ==
    /\ x \in PairType /\ x.of.peer # 0 /\ FlowOK(x.of, x.queue)
    /\ Len(x.queue) <= ClientQueueMax /\ Len(x.of.tx) <= TxMax

\* All answers of the client are before its n-th request.
AllBefore(of, n) == of.last < n /\ \A j \in 1..Len(of.tx) : of.tx[j].n < n

\* The same connection later on: it has read more and answered more, and the port has
\* got nothing.
Later(x, w) ==
    /\ PairOK(w) /\ w.of.peer = x.of.peer /\ w.of.epoch = x.of.epoch /\ w.of.read >= x.of.read
    /\ Dispatched(w.of, w.queue) = Dispatched(x.of, x.queue)
    /\ \A n \in Nat : AllBefore(x.of, n) => AllBefore(w.of, n)

\* Nothing is left in the receive buffer as long as there is room in the queue.
Drained(x) == x.queue = << >> => x.of.rx = 0

\* A sequence followed by a shorter or longer one.
LEMMA Joined ==
    ASSUME NEW S, NEW q \in Seq(S), NEW k \in Nat, NEW more \in [1..k -> S]
    PROVE  /\ q \o more \in Seq(S) /\ Len(q \o more) = Len(q) + k
           /\ \A j \in 1..Len(q) : (q \o more)[j] = q[j]
           /\ \A j \in 1..k : (q \o more)[Len(q) + j] = more[j]
<1>1. more \in Seq(S) /\ Len(more) = k /\ Len(q) \in Nat
  OBVIOUS
<1>2. /\ q \o more \in Seq(S) /\ Len(q \o more) = Len(q) + k
      /\ \A j \in 1..(Len(q) + k) : (q \o more)[j] = IF j <= Len(q) THEN q[j] ELSE more[j - Len(q)]
  BY <1>1, ConcatProperties
<1>3. \A j \in 1..k : Len(q) + j \in 1..(Len(q) + k) /\ ~(Len(q) + j <= Len(q))
                      /\ (Len(q) + j) - Len(q) = j
  BY <1>1
<1>4. \A j \in 1..Len(q) : j \in 1..(Len(q) + k) /\ j <= Len(q)
  BY <1>1
<1> QED
  BY <1>2, <1>3, <1>4

\* The numbers of a client and its queue.
LEMMA PairIs ==
    ASSUME NEW x, PairOK(x)
    PROVE  /\ x.of \in ClientType /\ x.queue \in Seq(Tcp!Requests) /\ x.of.peer # 0
           /\ Len(x.queue) \in Nat /\ Len(x.queue) <= ClientQueueMax
           /\ x.of.rx \in Nat /\ x.of.rx <= RxMax /\ x.of.last \in Nat
           /\ x.of.read \in Nat /\ x.of.read <= MaxRequests /\ x.of.peer \in 1..MaxPeers
           /\ x.of.read - x.of.rx - Len(x.queue) \in Nat
           /\ x.of.tx \in Seq(Tcp!Requests) /\ Len(x.of.tx) <= TxMax
<1>1. x.of \in ClientType /\ x.queue \in Seq(Tcp!Requests)
  BY DEF PairOK, PairType
<1>2. Len(x.queue) \in Nat
  BY <1>1
<1> QED
  BY <1>1, <1>2, BoundsAre DEF PairOK, ClientType, FlowOK, Dispatched

\* So many requests went from the receive buffer to the queue.
Took(x, of, queue, taken) ==
    /\ of.rx = x.of.rx - taken /\ of.peer = x.of.peer /\ of.epoch = x.of.epoch
    /\ of.read = x.of.read /\ of.tx = x.of.tx /\ of.last = x.of.last
    /\ Len(queue) = Len(x.queue) + taken
    /\ \A j \in 1..Len(x.queue) : queue[j] = x.queue[j]
    /\ \A j \in 1..taken : queue[Len(x.queue) + j] =
                             [peer |-> x.of.peer, n |-> (x.of.read - x.of.rx) + j]

\* The queue goes on where it ended.
LEMMA TakenFlow ==
    ASSUME NEW x, PairOK(x), NEW of \in ClientType, NEW queue \in Seq(Tcp!Requests),
           NEW taken \in Nat, taken <= ClientQueueMax - Len(x.queue),
           Took(x, of, queue, taken)
    PROVE  Later(x, [of |-> of, queue |-> queue])
<1>1. /\ Len(x.queue) \in Nat /\ x.of.read - x.of.rx - Len(x.queue) \in Nat
      /\ x.of.read \in Nat /\ x.of.rx \in Nat /\ ClientQueueMax \in Nat
  BY PairIs, BoundsAre
<1>2. /\ Dispatched(of, queue) = Dispatched(x.of, x.queue)
      /\ Len(queue) = Len(x.queue) + taken
  <2>1. of.read = x.of.read /\ of.rx = x.of.rx - taken /\ Len(queue) = Len(x.queue) + taken
    BY DEF Took
  <2>2. x.of.read \in Int /\ x.of.rx \in Int /\ Len(x.queue) \in Int
    BY <1>1
  <2>3. \A r, b, l, t \in Int : r - (b - t) - (l + t) = r - b - l
    OBVIOUS
  <2>4. x.of.read - (x.of.rx - taken) - (Len(x.queue) + taken)
           = x.of.read - x.of.rx - Len(x.queue)
    BY <2>2, <2>3
  <2>5. /\ Dispatched(of, queue) = of.read - of.rx - Len(queue)
        /\ Dispatched(x.of, x.queue) = x.of.read - x.of.rx - Len(x.queue)
    BY Zenon DEF Dispatched
  <2> QED
    BY <2>1, <2>4, <2>5, Zenon
<1>3. \A j \in 1..Len(queue) : queue[j] = [peer |-> of.peer, n |-> Dispatched(of, queue) + j]
  <2> TAKE j \in 1..Len(queue)
  <2>1. CASE j <= Len(x.queue)
    <3>1. j \in 1..Len(x.queue)
      BY <1>1, <1>2, <2>1
    <3>2. x.queue[j] = [peer |-> x.of.peer, n |-> Dispatched(x.of, x.queue) + j]
      BY <3>1 DEF PairOK, FlowOK
    <3> QED
      BY <1>2, <3>1, <3>2 DEF Took
  <2>2. CASE j > Len(x.queue)
    <3> DEFINE i == j - Len(x.queue)
    <3>1. i \in 1..taken /\ Len(x.queue) + i = j
      <4>1. Len(x.queue) \in Nat /\ j \in 1..(Len(x.queue) + taken) /\ j > Len(x.queue)
        BY <1>1, <1>2, <2>2
      <4> QED
        BY <4>1
    <3>2. (x.of.read - x.of.rx) + i = Dispatched(x.of, x.queue) + j
      <4>1. Dispatched(x.of, x.queue) = x.of.read - x.of.rx - Len(x.queue)
        BY Zenon DEF Dispatched
      <4>2. \A a, l, k \in Int : a + (k - l) = (a - l) + k
        OBVIOUS
      <4>3. x.of.read - x.of.rx \in Int /\ Len(x.queue) \in Int /\ j \in Int
        BY <1>1, <1>2
      <4> QED
        BY <4>1, <4>2, <4>3
    <3> HIDE DEF i
    <3>3. queue[j] = [peer |-> x.of.peer, n |-> (x.of.read - x.of.rx) + i]
      BY <3>1 DEF Took
    <3> QED
      BY <1>2, <3>2, <3>3 DEF Took
  <2> QED
    BY <1>1, <1>2, <2>1, <2>2
<1>4. of.peer = x.of.peer /\ of.tx = x.of.tx /\ of.last = x.of.last /\ of.epoch = x.of.epoch
      /\ of.read = x.of.read
  BY DEF Took
<1>5. FlowOK(of, queue)
  BY <1>2, <1>3, <1>4 DEF PairOK, FlowOK
<1>6. PairOK([of |-> of, queue |-> queue])
  <2>1. Len(queue) <= ClientQueueMax
    BY <1>1, <1>2
  <2> QED
    BY <1>4, <1>5, <2>1 DEF PairOK, PairType
<1>7. \A n \in Nat : AllBefore(x.of, n) => AllBefore(of, n)
  BY <1>4 DEF AllBefore
<1>8. of.read >= x.of.read
  BY <1>1, <1>4
<1> QED
  BY <1>1, <1>2, <1>4, <1>6, <1>7, <1>8 DEF Later

\* parse_available
LEMMA ParsedIs ==
    ASSUME NEW x, PairOK(x)
    PROVE  Later(x, Tcp!Parsed(x)) /\ Drained(Tcp!Parsed(x))
<1> DEFINE room  == ClientQueueMax - Len(x.queue)
           S     == {x.of.rx, room}
           taken == Tcp!Min(S)
           first == x.of.read - x.of.rx
           of    == [x.of EXCEPT !.rx = x.of.rx - taken]
           more  == [j \in 1..taken |-> [peer |-> x.of.peer, n |-> first + j]]
<1>1. Tcp!Parsed(x) = [of |-> of, queue |-> x.queue \o more]
  BY DEF Tcp!Parsed
<1>2. /\ room \in Nat /\ first \in Nat /\ Len(x.queue) \in Nat /\ x.of.rx \in Nat
      /\ Len(x.queue) + room >= 1
  BY PairIs, BoundsAre
<1>3. S \subseteq Nat /\ S # {}
  BY <1>2
<1>4. taken \in S /\ \A n \in S : taken <= n
  <2> HIDE DEF S
  <2> QED
    BY <1>3, MinIs
<1> HIDE DEF taken
<1>5. /\ taken \in Nat /\ taken <= x.of.rx /\ taken <= room
      /\ taken = x.of.rx \/ taken = room
  BY <1>2, <1>4
<1>6. of \in ClientType /\ of.rx = x.of.rx - taken
      /\ of.peer = x.of.peer /\ of.epoch = x.of.epoch /\ of.read = x.of.read
      /\ of.tx = x.of.tx /\ of.last = x.of.last
  <2>1. x.of.rx - taken \in 0..RxMax /\ x.of \in ClientType
    <3>1. x.of.rx <= RxMax /\ RxMax \in Nat /\ x.of \in ClientType
      BY PairIs, BoundsAre
    <3> HIDE DEF room
    <3> QED
      BY <1>2, <1>5, <3>1
  <2> QED
    BY <2>1 DEF ClientType
<1>7. more \in [1..taken -> Tcp!Requests]
  <2>1. x.of.read \in Nat /\ x.of.read <= MaxRequests /\ MaxRequests \in Nat
    BY PairIs, BoundsAre
  <2>2. \A j \in 1..taken : first + j \in 1..MaxRequests
    <3> HIDE DEF room
    <3>1. first + taken <= x.of.read
      BY <1>2, <1>5, <2>1
    <3> HIDE DEF first
    <3> QED
      BY <1>2, <1>5, <2>1, <3>1
  <2> HIDE DEF first
  <2> QED
    BY <2>2, PairIs DEF Tcp!Requests
<1>8. \A j \in 1..taken : more[j] = [peer |-> x.of.peer, n |-> first + j]
  OBVIOUS
<1>9. Later(x, [of |-> of, queue |-> x.queue \o more]) /\ Len(x.queue \o more) = Len(x.queue) + taken
  <2> HIDE DEF of, more
  <2>1. x.queue \in Seq(Tcp!Requests)
    BY PairIs
  <2> DEFINE queue == x.queue \o more
  <2>2. /\ queue \in Seq(Tcp!Requests) /\ Len(queue) = Len(x.queue) + taken
        /\ \A j \in 1..Len(x.queue) : queue[j] = x.queue[j]
        /\ \A j \in 1..taken : queue[Len(x.queue) + j] = more[j]
    BY <1>5, <1>7, <2>1, Joined
  <2> HIDE DEF queue
  <2>3. Took(x, of, queue, taken)
    BY <1>5, <1>6, <1>8, <2>2 DEF Took
  <2>4. Later(x, [of |-> of, queue |-> queue])
    BY <1>5, <1>6, <2>2, <2>3, TakenFlow
  <2> QED
    BY <2>2, <2>4 DEF queue
<1>10. Drained([of |-> of, queue |-> x.queue \o more])
  <2> HIDE DEF of, more
  <2>1. x.queue \o more = << >> => Len(x.queue) + taken = 0
    BY <1>9
  <2> QED
    BY <1>2, <1>5, <1>6, <2>1 DEF Drained
<1> QED
  BY <1>1, <1>9, <1>10
\* What follows what follows.
LEMMA LaterOn ==
    ASSUME NEW x, NEW y, NEW z, PairOK(x), Later(x, y), Later(y, z)
    PROVE  Later(x, z)
<1>1. x.of.read \in Nat /\ y.of.read \in Nat /\ z.of.read \in Nat
  BY PairIs DEF Later
<1> QED
  BY <1>1 DEF Later

\* More requests arrive than were read before.
LEMMA GrownIs ==
    ASSUME NEW x, PairOK(x), NEW y \in PairType, NEW more \in Nat,
           y.of.read = x.of.read + more, y.of.rx = x.of.rx + more, y.queue = x.queue,
           y.of.peer = x.of.peer, y.of.epoch = x.of.epoch, y.of.tx = x.of.tx,
           y.of.last = x.of.last
    PROVE  Later(x, y)
<1>1. x.of.read \in Int /\ x.of.rx \in Int /\ Len(x.queue) \in Int
  BY PairIs
<1>2. Dispatched(y.of, y.queue) = Dispatched(x.of, x.queue) /\ y.of.read >= x.of.read
  <2>1. \A r, b, l, t \in Int : (r + t) - (b + t) - l = r - b - l
    OBVIOUS
  <2> QED
    BY <1>1, <2>1 DEF Dispatched
<1>3. FlowOK(y.of, y.queue)
  BY <1>2 DEF PairOK, FlowOK
<1> QED
  BY <1>2, <1>3 DEF PairOK, Later, AllBefore

\* read_client
LEMMA ReadIs ==
    ASSUME NEW x, PairOK(x), Drained(x), NEW w \in Tcp!Read(x)
    PROVE  Later(x, w) /\ Drained(w)
<1>0. x \in PairType /\ x.of \in ClientType
  BY PairIs DEF PairOK
<1>1. CASE w = x
  BY <1>0, <1>1, PairIs DEF Later
<1>2. CASE w = [x EXCEPT !.of.eof = TRUE]
  <2>1. /\ w \in PairType /\ w.queue = x.queue /\ w.of.rx = x.of.rx
        /\ w.of.read = x.of.read /\ w.of.peer = x.of.peer /\ w.of.epoch = x.of.epoch
        /\ w.of.tx = x.of.tx /\ w.of.last = x.of.last
    BY <1>0, <1>2 DEF PairType, ClientType
  <2>2. w.of.read = x.of.read + 0 /\ w.of.rx = x.of.rx + 0
    BY <2>1, PairIs
  <2> QED
    BY <2>1, <2>2, GrownIs DEF Drained
<1>3. CASE ~(w = x) /\ ~(w = [x EXCEPT !.of.eof = TRUE])
  <2> DEFINE S == {2, RxMax - x.of.rx, MaxRequests - x.of.read}
  <2>1. PICK more \in 0..Tcp!Min(S), rest \in {"none", "part", "bad"} :
           w = Tcp!Parsed([x EXCEPT !.of.read = @ + more, !.of.rx = @ + more,
                                    !.of.rest = IF @ = "bad" THEN @ ELSE rest])
    BY <1>3 DEF Tcp!Read
  <2>2. /\ more \in Nat /\ x.of.rx + more \in 0..RxMax /\ x.of.read + more \in 0..MaxRequests
    <3>1. x.of.rx \in Nat /\ x.of.rx <= RxMax /\ RxMax \in Nat
          /\ x.of.read \in Nat /\ x.of.read <= MaxRequests /\ MaxRequests \in Nat
      BY PairIs, BoundsAre
    <3>2. S \subseteq Nat /\ S # {}
      BY <3>1
    <3>3. Tcp!Min(S) \in Nat /\ \A n \in S : Tcp!Min(S) <= n
      <4> HIDE DEF S
      <4> QED
        BY <3>2, MinIs
    <3>4. more \in Nat /\ more <= RxMax - x.of.rx /\ more <= MaxRequests - x.of.read
      <4> DEFINE m == Tcp!Min(S)
      <4>1. more \in 0..m /\ m \in Nat /\ m <= RxMax - x.of.rx /\ m <= MaxRequests - x.of.read
        BY <3>3
      <4> HIDE DEF m
      <4> QED
        BY <3>1, <4>1
    <3> HIDE DEF S
    <3> QED
      BY <3>1, <3>4
  <2> DEFINE y == [x EXCEPT !.of.read = @ + more, !.of.rx = @ + more,
                            !.of.rest = IF @ = "bad" THEN @ ELSE rest]
  <2>3. /\ y \in PairType /\ y.queue = x.queue /\ y.of.rx = x.of.rx + more
        /\ y.of.read = x.of.read + more /\ y.of.peer = x.of.peer /\ y.of.epoch = x.of.epoch
        /\ y.of.tx = x.of.tx /\ y.of.last = x.of.last
    BY <1>0, <2>2 DEF PairType, ClientType
  <2> HIDE DEF y
  <2>4. Later(x, y)
    BY <2>2, <2>3, GrownIs
  <2>5. Later(y, w) /\ Drained(w)
    BY <2>1, <2>4, ParsedIs DEF Later, y
  <2> QED
    BY <2>4, <2>5, LaterOn
<1> QED
  BY <1>1, <1>2, <1>3

\* write_client
LEMMA WrittenIs ==
    ASSUME NEW x, PairOK(x), Drained(x), NEW w \in Tcp!Written(x)
    PROVE  Later(x, w) /\ Drained(w)
<1>0. x \in PairType /\ x.of \in ClientType /\ x.of.tx \in Seq(Tcp!Requests)
  BY PairIs DEF PairOK
<1>1. CASE w = x
  BY <1>0, <1>1, PairIs DEF Later
<1>2. CASE x.of.tx # << >> /\ w = [x EXCEPT !.of.last = Head(x.of.tx).n, !.of.tx = Tail(@)]
  <2> DEFINE due == x.of.tx
  <2>1. /\ due \in Seq(Tcp!Requests) /\ Len(due) \in Nat /\ Len(due) >= 1 /\ Head(due) = due[1]
        /\ Tail(due) \in Seq(Tcp!Requests) /\ Len(Tail(due)) = Len(due) - 1
        /\ \A j \in 1..(Len(due) - 1) : Tail(due)[j] = due[j + 1]
        /\ due[1] \in Tcp!Requests
    BY <1>0, <1>2
  <2>2. /\ w \in PairType /\ w.queue = x.queue /\ w.of.rx = x.of.rx
        /\ w.of.read = x.of.read /\ w.of.peer = x.of.peer /\ w.of.epoch = x.of.epoch
        /\ w.of.tx = Tail(due) /\ w.of.last = due[1].n
    <3>1. due[1].n \in 0..MaxRequests
      BY <2>1, BoundsAre DEF Tcp!Requests
    <3>2. w = [x EXCEPT !.of.last = due[1].n, !.of.tx = Tail(due)]
      BY <1>2, <2>1
    <3> HIDE DEF due
    <3> QED
      BY <1>0, <2>1, <3>1, <3>2 DEF PairType, ClientType
  <2>3. /\ due[1].n \in Nat /\ due[1].n <= Dispatched(x.of, x.queue) /\ x.of.last < due[1].n
        /\ \A j \in 1..(Len(due) - 1) : /\ due[j + 1].peer = x.of.peer /\ due[1].n < due[j + 1].n
                                       /\ due[j + 1].n <= Dispatched(x.of, x.queue)
        /\ \A j, k \in 1..(Len(due) - 1) : j < k => due[j + 1].n < due[k + 1].n
    <3>1. /\ 1 \in 1..Len(due)
          /\ \A j \in 1..(Len(due) - 1) : j + 1 \in 1..Len(due) /\ 1 < j + 1
          /\ \A j, k \in 1..(Len(due) - 1) : j < k => j + 1 < k + 1
      BY <2>1
    <3>2. due[1].n \in Nat
      BY <2>1 DEF Tcp!Requests
    <3> QED
      BY <3>1, <3>2 DEF PairOK, FlowOK
  <2>4. Dispatched(w.of, w.queue) = Dispatched(x.of, x.queue)
    BY <2>2 DEF Dispatched
  <2>5. /\ Len(w.of.tx) = Len(due) - 1
        /\ \A j \in 1..Len(w.of.tx) : w.of.tx[j] = due[j + 1]
    BY <2>1, <2>2
  <2>6. FlowOK(w.of, w.queue)
    BY SMTT(60), <2>2, <2>3, <2>4, <2>5 DEF PairOK, FlowOK
  <2>7. PairOK(w)
    <3>1. Len(w.of.tx) <= TxMax
      BY <2>1, <2>5, BoundsAre DEF PairOK
    <3> QED
      BY <2>2, <2>6, <3>1 DEF PairOK
  <2>8. \A n \in Nat : AllBefore(x.of, n) => AllBefore(w.of, n)
    <3>1. /\ 1 \in 1..Len(due)
          /\ \A j \in 1..(Len(due) - 1) : j + 1 \in 1..Len(due)
      BY <2>1
    <3> QED
      BY <2>2, <2>5, <3>1 DEF AllBefore
  <2> QED
    BY <2>2, <2>4, <2>7, <2>8, PairIs DEF Later, Drained
<1> QED
  BY <1>1, <1>2 DEF Tcp!Written

\* A client's turn in step_io.
LEMMA HandledIs ==
    ASSUME NEW x, PairOK(x), NEW w \in Tcp!Handled(x)
    PROVE  Later(x, w) /\ Drained(w)
<1>1. PICK r \in Tcp!Read(Tcp!Parsed(x)) : w \in Tcp!Written(r)
  BY DEF Tcp!Handled
<1>2. Later(x, Tcp!Parsed(x)) /\ Drained(Tcp!Parsed(x))
  BY ParsedIs
<1>3. Later(Tcp!Parsed(x), r) /\ Drained(r)
  BY <1>2, ReadIs DEF Later
<1>4. Later(r, w) /\ Drained(w)
  BY <1>1, <1>3, WrittenIs DEF Later
<1> QED
  BY <1>2, <1>3, <1>4, LaterOn DEF Later
-----------------------------------------------------------------------------
(* Connections that close and requests that are resolved. *)

\* What the port's operations leave pending, and that no request is unused again.
LEMMA ResolveIs ==
    ASSUME TypeInv, NEW S, NEW status \in Tcp!FinalStatus, Tcp!Port!Resolve(S, status)
    PROVE  /\ fate' \in [1..MaxId -> {"unused", "pending"} \cup Tcp!FinalStatus]
           /\ Pending' = Pending \ S
           /\ \A i \in 1..MaxId : fate[i] # "unused" => fate'[i] # "unused"
<1>1. /\ fate' = [i \in 1..MaxId |-> IF i \in S THEN status ELSE fate[i]]
      /\ fate \in [1..MaxId -> {"unused", "pending"} \cup Tcp!FinalStatus]
      /\ status # "unused" /\ status # "pending"
  BY DEF Tcp!Port!Resolve, TypeInv, Tcp!TypeOK, Tcp!FinalStatus
<1> QED
  BY <1>1 DEF Pending, Tcp!Port!Pending

\* What is left of the connections and of their requests agrees as it did.
LEMMA FewerKeep ==
    ASSUME SlotsInv, FlowInv, PortInv, TakenInv,
           slot \in [Clients -> SlotType], slot' \in [Clients -> SlotType],
           \A s \in Clients : slot'[s].id # 0 =>
              slot'[s] = slot[s] /\ client'[slot[s].id] = client[slot[s].id],
           \A c \in Clients : client'[c].peer # 0 => \E s \in Clients : slot'[s].id = c,
           owned' = owned, Pending' \subseteq Pending,
           \A i \in 1..MaxId : fate[i] # "unused" => fate'[i] # "unused"
    PROVE  SlotsInv' /\ FlowInv' /\ PortInv' /\ TakenInv'
<1>1. SlotsInv'
  BY DEF SlotsInv
<1>2. FlowInv'
  BY DEF FlowInv
<1>3. PortInv'
  BY DEF PortInv, Asks
<1>4. TakenInv'
  BY DEF TakenInv, Asks
<1> QED
  BY <1>1, <1>2, <1>3, <1>4

\* A free place for a client, and a free slot of the dispatcher.
LEMMA NobodyIs ==
    /\ Tcp!Nobody \in ClientType /\ Tcp!Nobody.peer = 0 /\ Tcp!Nobody.tx = << >>
    /\ Len(Tcp!Nobody.tx) = 0 /\ Len(Tcp!Nobody.tx) <= TxMax
    /\ Tcp!Free \in SlotType /\ Tcp!Free.id = 0 /\ Tcp!Free.queue = << >>
    /\ Len(Tcp!Free.queue) = 0 /\ Len(Tcp!Free.queue) <= ClientQueueMax
<1>1. << >> \in Seq(Tcp!Requests) /\ Len(<< >>) = 0
  BY EmptySeq
<1> QED
  BY <1>1, BoundsAre DEF Tcp!Nobody, Tcp!Free, ClientType, SlotType

\* close_client: the slot of the connection is free, and no other.
LEMMA CloseIs ==
    ASSUME TypeInv, SlotsInv, NEW c \in Clients, client[c].peer # 0, Tcp!Close(c)
    PROVE  /\ client' \in [Clients -> ClientType] /\ slot' \in [Clients -> SlotType]
           /\ \A d \in Clients : Len(client'[d].tx) <= TxMax
           /\ \A s \in Clients : Len(slot'[s].queue) <= ClientQueueMax
           /\ \A d \in Clients : client'[d].peer # 0 => client'[d] = client[d]
           /\ \A d \in Clients : client'[d] = client[d] \/ client'[d].tx = << >>
           /\ \A s \in Clients : slot'[s].id # 0 =>
                 slot'[s] = slot[s] /\ client'[slot[s].id] = client[slot[s].id]
           /\ \A d \in Clients : client'[d].peer # 0 => \E s \in Clients : slot'[s].id = d
<1>1. /\ Tcp!Nobody \in ClientType /\ Tcp!Nobody.peer = 0 /\ Len(Tcp!Nobody.tx) = 0
      /\ Tcp!Nobody.tx = << >>
      /\ Tcp!Free \in SlotType /\ Tcp!Free.id = 0 /\ Len(Tcp!Free.queue) = 0
  BY NobodyIs
<1>2. /\ client \in [Clients -> ClientType] /\ slot \in [Clients -> SlotType]
      /\ \A d \in Clients : Len(client[d].tx) <= TxMax
      /\ \A s \in Clients : Len(slot[s].queue) <= ClientQueueMax
  BY DEF TypeInv, Tcp!TypeOK, Clients, ClientType, SlotType, Tcp!Clients
<1>3. /\ client' = [client EXCEPT ![c] = Tcp!Nobody]
      /\ slot' = [s \in Clients |-> IF slot[s].id = c /\ slot[s].epoch = client[c].epoch
                                    THEN Tcp!Free ELSE slot[s]]
  BY DEF Tcp!Close, Tcp!Clients, Clients
<1>4. /\ client' \in [Clients -> ClientType] /\ slot' \in [Clients -> SlotType]
      /\ \A d \in Clients : client'[d] = client[d] \/ (d = c /\ client'[d] = Tcp!Nobody)
      /\ \A s \in Clients : slot'[s] = Tcp!Free \/ slot'[s] = slot[s]
  <2>1. client' \in [Clients -> ClientType]
    BY <1>1, <1>2, <1>3
  <2>2. \A d \in Clients : client'[d] = client[d] \/ (d = c /\ client'[d] = Tcp!Nobody)
    BY <1>2, <1>3
  <2>3. slot' \in [Clients -> SlotType]
    BY <1>1, <1>2, <1>3
  <2>4. \A s \in Clients : slot'[s] = Tcp!Free \/ slot'[s] = slot[s]
    BY <1>3
  <2> QED
    BY <2>1, <2>2, <2>3, <2>4
<1>5. /\ \A d \in Clients : Len(client'[d].tx) <= TxMax
      /\ \A s \in Clients : Len(slot'[s].queue) <= ClientQueueMax
  <2>1. 0 <= TxMax /\ 0 <= ClientQueueMax
    BY BoundsAre
  <2>2. \A d \in Clients : Len(client'[d].tx) <= TxMax
    BY <1>1, <1>2, <1>4, <2>1
  <2>3. \A s \in Clients : Len(slot'[s].queue) <= ClientQueueMax
    BY <1>1, <1>2, <1>4, <2>1
  <2> QED
    BY <2>2, <2>3
<1>6. \A s \in Clients : slot'[s].id # 0 =>
         slot'[s] = slot[s] /\ slot[s].id # c /\ client'[slot[s].id] = client[slot[s].id]
  BY <1>1, <1>2, <1>3 DEF SlotsInv, SlotType, Clients
<1>7. \A d \in Clients : client'[d].peer # 0 => \E s \in Clients : slot'[s].id = d
  <2> SUFFICES ASSUME NEW d \in Clients, client'[d].peer # 0
               PROVE  \E s \in Clients : slot'[s].id = d
    OBVIOUS
  <2>1. d # c /\ client[d].peer # 0
    BY <1>1, <1>2, <1>3
  <2>2. PICK s \in Clients : slot[s].id = d
    BY <2>1 DEF SlotsInv
  <2> QED
    BY <1>3, <2>1, <2>2
<1> QED
  BY <1>1, <1>4, <1>5, <1>6, <1>7
-----------------------------------------------------------------------------
(* The steps of the listener preserve the invariant. *)

\* The type invariant, by the types of this module.
LEMMA TypeIs ==
    ASSUME TypeInv
    PROVE  /\ stage \in 0..(Slots + 1) /\ listening \in BOOLEAN
           /\ nextEpoch \in 1..(MaxPeers + 1) /\ nextSlot \in Clients /\ peers \in 0..MaxPeers
           /\ client \in [Clients -> ClientType] /\ slot \in [Clients -> SlotType]
           /\ \A c \in Clients : Len(client[c].tx) <= TxMax
           /\ \A s \in Clients : Len(slot[s].queue) <= ClientQueueMax
           /\ fate \in [1..MaxId -> {"unused", "pending"} \cup Tcp!FinalStatus]
           /\ owned \in [1..MaxId -> OwnedType]
BY DEF TypeInv, Tcp!TypeOK, Tcp!Clients, Clients, ClientType, SlotType

\* The type invariant of the next state.
LEMMA TypeMade ==
    ASSUME stage' \in 0..(Slots + 1), listening' \in BOOLEAN,
           nextEpoch' \in 1..(MaxPeers + 1), nextSlot' \in Clients, peers' \in 0..MaxPeers,
           client' \in [Clients -> ClientType], slot' \in [Clients -> SlotType],
           \A c \in Clients : Len(client'[c].tx) <= TxMax,
           \A s \in Clients : Len(slot'[s].queue) <= ClientQueueMax,
           fate' \in [1..MaxId -> {"unused", "pending"} \cup Tcp!FinalStatus],
           owned' \in [1..MaxId -> OwnedType]
    PROVE  TypeInv'
BY DEF TypeInv, Tcp!TypeOK, Tcp!Clients, Clients, ClientType, SlotType

\* step_io runs on, the dispatcher's turn passes.
LEMMA NothingHappens ==
    ASSUME TcpInv, UNCHANGED <<listening, nextEpoch, client, slot, fate, owned, peers>>,
           stage' \in 0..(Slots + 1), nextSlot' \in Clients, listening \/ stage' = 0
    PROVE  TcpInv'
<1>1. Pending' = Pending
  BY DEF Pending, Tcp!Port!Pending
<1>2. TypeInv'
  BY DEF TcpInv, TypeInv, Tcp!TypeOK, Tcp!Clients, Clients
<1>3. SlotsInv' /\ FlowInv' /\ IdleInv'
  BY DEF TcpInv, SlotsInv, FlowInv, IdleInv
<1>4. EpochInv'
  BY <1>1 DEF TcpInv, EpochInv
<1>5. PortInv' /\ TakenInv'
  BY SMTT(60), <1>1 DEF TcpInv, PortInv, TakenInv, Asks
<1> QED
  BY <1>2, <1>3, <1>4, <1>5 DEF TcpInv

\* No connection is accepted, there is no client, or no request goes to the port.
LEMMA PassesKeep ==
    ASSUME TcpInv,
           \/ Tcp!AcceptNone \/ \E c \in Clients : Tcp!SkipClient(c)
           \/ Tcp!DispatchRefused \/ Tcp!DispatchNone
    PROVE  TcpInv'
<1>1. UNCHANGED <<listening, nextEpoch, client, slot, fate, owned, peers>>
  BY DEF Tcp!AcceptNone, Tcp!SkipClient, Tcp!StepsOver, Tcp!DispatchRefused, Tcp!DispatchNone
<1>2. stage' \in 0..(Slots + 1)
  BY BoundsAre DEF Tcp!AcceptNone, Tcp!SkipClient, Tcp!DispatchRefused, Tcp!DispatchNone, Clients
<1>3. nextSlot' \in Clients
  <2>1. CASE Tcp!DispatchRefused
    <3>1. Tcp!Turn \in Clients
      BY <2>1, TurnIs DEF TcpInv, TypeInv, Tcp!TypeOK, Tcp!DispatchRefused, Tcp!Waiting,
                          Tcp!Clients, Clients
    <3> QED
      BY <2>1, <3>1, BoundsAre DEF Tcp!DispatchRefused, Tcp!After, Clients
  <2>2. CASE ~Tcp!DispatchRefused
    BY <2>2 DEF TcpInv, TypeInv, Tcp!TypeOK, Tcp!Clients, Clients, Tcp!AcceptNone,
                Tcp!SkipClient, Tcp!StepsOver, Tcp!DispatchNone
  <2> QED
    BY <2>1, <2>2
<1>4. listening \/ stage' = 0
  BY DEF TcpInv, EpochInv, Tcp!AcceptNone, Tcp!SkipClient, Tcp!DispatchRefused,
         Tcp!DispatchNone, Clients
<1> QED
  BY <1>1, <1>2, <1>3, <1>4, NothingHappens

\* The client is closed: it left, or the connection broke.
LEMMA LeavesKeep ==
    ASSUME TcpInv, NEW c \in Clients, Tcp!Leaves(c) \/ Tcp!Breaks(c)
    PROVE  TcpInv'
<1>1. /\ stage = c /\ stage' = c + 1 /\ client[c].peer # 0 /\ Tcp!Close(c)
      /\ UNCHANGED <<listening, nextEpoch, nextSlot, fate, owned, peers>>
  BY DEF Tcp!Leaves, Tcp!Breaks, Tcp!Connected, Tcp!StepsOver
<1>2. /\ client' \in [Clients -> ClientType] /\ slot' \in [Clients -> SlotType]
      /\ \A d \in Clients : Len(client'[d].tx) <= TxMax
      /\ \A s \in Clients : Len(slot'[s].queue) <= ClientQueueMax
      /\ \A d \in Clients : client'[d].peer # 0 => client'[d] = client[d]
      /\ \A d \in Clients : client'[d] = client[d] \/ client'[d].tx = << >>
      /\ \A s \in Clients : slot'[s].id # 0 =>
            slot'[s] = slot[s] /\ client'[slot[s].id] = client[slot[s].id]
      /\ \A d \in Clients : client'[d].peer # 0 => \E s \in Clients : slot'[s].id = d
  BY <1>1, CloseIs DEF TcpInv
<1>3. Pending' = Pending
  BY <1>1 DEF Pending, Tcp!Port!Pending
<1>4. TypeInv'
  <2>1. stage' \in 0..(Slots + 1)
    BY <1>1, BoundsAre DEF Clients
  <2>2. TypeInv
    BY DEF TcpInv
  <2> QED
    BY <1>1, <1>2, <2>1, <2>2, TypeIs, TypeMade
<1>5. slot \in [Clients -> SlotType]
  BY DEF TcpInv, TypeInv, Tcp!TypeOK, Tcp!Clients, Clients, SlotType
<1>6. SlotsInv' /\ FlowInv' /\ PortInv' /\ TakenInv'
  BY <1>1, <1>2, <1>3, <1>5, FewerKeep DEF TcpInv
<1>7. EpochInv'
  <2>1. listening
    BY <1>1 DEF TcpInv, EpochInv, Clients
  <2> QED
    BY <1>1, <1>2, <1>3, <2>1 DEF TcpInv, EpochInv
<1>8. IdleInv'
  BY <1>2 DEF TcpInv, IdleInv
<1> QED
  BY <1>4, <1>6, <1>7, <1>8 DEF TcpInv

\* Requests end without an answer.
LEMMA FailsKeep ==
    ASSUME TcpInv, NEW S \in SUBSET Pending, Tcp!Fails(S)
    PROVE  TcpInv'
<1>1. /\ Tcp!Port!Resolve(S, "CANCELLED") /\ stage = 0
      /\ UNCHANGED <<stage, listening, nextEpoch, client, slot, nextSlot, owned, peers>>
  BY DEF Tcp!Fails
<1>2. /\ fate' \in [1..MaxId -> {"unused", "pending"} \cup Tcp!FinalStatus]
      /\ Pending' \subseteq Pending
      /\ \A i \in 1..MaxId : fate[i] # "unused" => fate'[i] # "unused"
  BY <1>1, ResolveIs DEF TcpInv, Tcp!FinalStatus
<1>3. TypeInv'
  BY <1>1, <1>2 DEF TcpInv, TypeInv, Tcp!TypeOK
<1>4. slot \in [Clients -> SlotType]
  BY DEF TcpInv, TypeInv, Tcp!TypeOK, Tcp!Clients, Clients, SlotType
<1>5. SlotsInv' /\ FlowInv' /\ PortInv' /\ TakenInv'
  BY <1>1, <1>2, <1>4, FewerKeep DEF TcpInv, SlotsInv
<1>6. EpochInv'
  BY <1>1, <1>2 DEF TcpInv, EpochInv
<1>8. IdleInv'
  BY <1>1 DEF TcpInv, IdleInv
<1> QED
  BY <1>3, <1>5, <1>6, <1>8 DEF TcpInv

\* The controller closes the listener, and the runtime drops its requests.
LEMMA CloseListenerKeeps ==
    ASSUME TcpInv, Tcp!CloseListener
    PROVE  TcpInv'
<1>1. /\ stage = 0 /\ ~listening' /\ Tcp!PortDrops
      /\ client' = [c \in Clients |-> Tcp!Nobody] /\ slot' = [s \in Clients |-> Tcp!Free]
      /\ UNCHANGED <<stage, nextEpoch, nextSlot, owned, peers>>
  BY DEF Tcp!CloseListener, Tcp!Clients, Clients
<1>2. /\ fate' \in [1..MaxId -> {"unused", "pending"} \cup Tcp!FinalStatus] /\ Pending' = {}
      /\ \A i \in 1..MaxId : fate[i] # "unused" => fate'[i] # "unused"
  <2>1. CASE Pending = {}
    BY <1>1, <2>1 DEF TcpInv, TypeInv, Tcp!TypeOK, Tcp!PortDrops, Pending, Tcp!Port!Pending
  <2>2. CASE Pending # {}
    BY <1>1, <2>2, ResolveIs DEF TcpInv, Tcp!PortDrops, Pending, Tcp!FinalStatus
  <2> QED
    BY <2>1, <2>2
<1>3. /\ Tcp!Nobody \in ClientType /\ Tcp!Nobody.peer = 0 /\ Len(Tcp!Nobody.tx) <= TxMax
      /\ Tcp!Free \in SlotType /\ Tcp!Free.id = 0 /\ Len(Tcp!Free.queue) <= ClientQueueMax
  BY NobodyIs
<1>4. TypeInv'
  <2>1. TypeInv
    BY DEF TcpInv
  <2>2. client' \in [Clients -> ClientType] /\ slot' \in [Clients -> SlotType]
    BY <1>1, <1>3
  <2>3. /\ \A c \in Clients : Len(client'[c].tx) <= TxMax
        /\ \A s \in Clients : Len(slot'[s].queue) <= ClientQueueMax
    BY <1>1, <1>3
  <2>4. listening' \in BOOLEAN
    BY <1>1 DEF Tcp!CloseListener
  <2> QED
    BY <1>1, <1>2, <2>1, <2>2, <2>3, <2>4, TypeIs, TypeMade
<1>5. /\ slot \in [Clients -> SlotType] /\ slot' \in [Clients -> SlotType]
      /\ \A s \in Clients : slot'[s].id = 0 /\ client'[s].peer = 0
  BY <1>1, <1>3 DEF TcpInv, TypeInv, Tcp!TypeOK, Tcp!Clients, Clients, SlotType
<1>6. SlotsInv' /\ FlowInv' /\ PortInv' /\ TakenInv'
  BY <1>1, <1>2, <1>5, FewerKeep DEF TcpInv
<1>7. EpochInv'
  BY <1>1, <1>2, <1>5 DEF TcpInv, EpochInv
<1>8. IdleInv'
  BY <1>1, NobodyIs DEF IdleInv
<1> QED
  BY <1>4, <1>6, <1>7, <1>8 DEF TcpInv

\* ... and opens it again: nothing is left of an earlier epoch.
LEMMA OpenListenerKeeps ==
    ASSUME TcpInv, Tcp!OpenListener
    PROVE  TcpInv'
<1>1. /\ stage = 0 /\ ~listening /\ listening' /\ nextEpoch' = 1 /\ nextSlot' = 1
      /\ client' = [c \in Clients |-> Tcp!Nobody] /\ slot' = [s \in Clients |-> Tcp!Free]
      /\ UNCHANGED <<stage, fate, owned, peers>>
  BY DEF Tcp!OpenListener, Tcp!Clients, Clients
<1>2. Pending' = Pending /\ Pending = {}
  BY <1>1 DEF TcpInv, EpochInv, Pending, Tcp!Port!Pending
<1>3. /\ Tcp!Nobody \in ClientType /\ Tcp!Nobody.peer = 0 /\ Len(Tcp!Nobody.tx) <= TxMax
      /\ Tcp!Free \in SlotType /\ Tcp!Free.id = 0 /\ Len(Tcp!Free.queue) <= ClientQueueMax
  BY NobodyIs
<1>4. TypeInv'
  <2>1. TypeInv
    BY DEF TcpInv
  <2>2. client' \in [Clients -> ClientType] /\ slot' \in [Clients -> SlotType]
    BY <1>1, <1>3
  <2>3. /\ \A c \in Clients : Len(client'[c].tx) <= TxMax
        /\ \A s \in Clients : Len(slot'[s].queue) <= ClientQueueMax
    BY <1>1, <1>3
  <2>4. listening' \in BOOLEAN
    BY <1>1 DEF Tcp!OpenListener
  <2>5. nextEpoch' \in 1..(MaxPeers + 1) /\ nextSlot' \in Clients
    BY <1>1, BoundsAre DEF Clients
  <2> QED
    BY <1>1, <2>1, <2>2, <2>3, <2>4, <2>5, TypeIs, TypeMade
<1>5. /\ slot \in [Clients -> SlotType] /\ slot' \in [Clients -> SlotType]
      /\ \A s \in Clients : slot'[s].id = 0 /\ client'[s].peer = 0
  BY <1>1, <1>3 DEF TcpInv, TypeInv, Tcp!TypeOK, Tcp!Clients, Clients, SlotType
<1>6. SlotsInv' /\ FlowInv' /\ PortInv' /\ TakenInv'
  BY <1>1, <1>2, <1>5, FewerKeep DEF TcpInv
<1>7. EpochInv'
  <2>1. peers \in Nat
    BY BoundsAre, TypeIs DEF TcpInv
  <2>2. nextEpoch' <= peers' + 1
    BY <1>1, <2>1
  <2>3. Pending' = {}
    BY <1>2
  <2> QED
    BY <1>1, <1>5, <2>2, <2>3 DEF EpochInv
<1>8. IdleInv'
  BY <1>1, NobodyIs DEF IdleInv
<1> QED
  BY <1>4, <1>6, <1>7, <1>8 DEF TcpInv
\* The client with one more answer to send.
Answered(of, request, w) == w = [of EXCEPT !.tx = Append(@, request)]

\* An answer that comes after all the others goes to the end of the output queue.
LEMMA AppendedIs ==
    ASSUME NEW of \in ClientType, NEW queue \in Seq(Tcp!Requests), FlowOK(of, queue),
           NEW request \in Tcp!Requests, request.peer = of.peer,
           AllBefore(of, request.n), request.n <= Dispatched(of, queue), Len(of.tx) < TxMax,
           NEW w, Answered(of, request, w)
    PROVE  /\ w \in ClientType /\ Len(w.tx) <= TxMax /\ w.peer = of.peer /\ w.epoch = of.epoch
           /\ w.last = of.last /\ Dispatched(w, queue) = Dispatched(of, queue)
           /\ FlowOK(w, queue)
           /\ \A n \in Nat : AllBefore(of, n) /\ request.n < n => AllBefore(w, n)
<1>0. Append(of.tx, request) \in Seq(Tcp!Requests)
  BY DEF ClientType
<1>1. /\ w \in ClientType /\ w.peer = of.peer /\ w.epoch = of.epoch /\ w.last = of.last
      /\ w.read = of.read /\ w.rx = of.rx /\ w.tx = Append(of.tx, request)
  BY <1>0 DEF ClientType, Answered
<1>2. of.tx \in Seq(Tcp!Requests) /\ Len(of.tx) \in Nat
  BY DEF ClientType
<1>3. /\ Len(w.tx) = Len(of.tx) + 1 /\ w.tx[Len(of.tx) + 1] = request
      /\ \A j \in 1..Len(of.tx) : w.tx[j] = of.tx[j]
  BY <1>1, <1>2
<1>4. Dispatched(w, queue) = Dispatched(of, queue)
  BY <1>1 DEF Dispatched
<1>5. \A j \in 1..Len(w.tx) : j \in 1..Len(of.tx) \/ j = Len(of.tx) + 1
  BY <1>2, <1>3
<1>6. \A j, k \in 1..Len(w.tx) : j < k => j \in 1..Len(of.tx)
  BY <1>2, <1>3
<1>7. FlowOK(w, queue)
  <2>1. /\ Dispatched(w, queue) \in Nat /\ w.last <= Dispatched(w, queue)
        /\ \A j \in 1..Len(queue) : queue[j] = [peer |-> w.peer, n |-> Dispatched(w, queue) + j]
    BY <1>1, <1>4 DEF FlowOK
  <2>2. \A j \in 1..Len(w.tx) : /\ w.tx[j].peer = w.peer /\ w.last < w.tx[j].n
                                /\ w.tx[j].n <= Dispatched(w, queue)
    BY <1>1, <1>3, <1>4, <1>5 DEF FlowOK, AllBefore
  <2>3. \A j, k \in 1..Len(w.tx) : j < k => w.tx[j].n < w.tx[k].n
    BY <1>3, <1>5, <1>6 DEF FlowOK, AllBefore
  <2> QED
    BY <2>1, <2>2, <2>3 DEF FlowOK
<1>8. \A n \in Nat : AllBefore(of, n) /\ request.n < n => AllBefore(w, n)
  BY <1>1, <1>3, <1>5 DEF AllBefore
<1>9. Len(w.tx) <= TxMax
  BY <1>2, <1>3, BoundsAre
<1> QED
  BY <1>1, <1>4, <1>7, <1>8, <1>9

\* A request of the port is answered: to the connection that asked, or to nobody.
LEMMA AnswersKeep ==
    ASSUME TcpInv, NEW i \in 1..MaxId, Tcp!Answers(i)
    PROVE  TcpInv'
<1> DEFINE to == Tcp!CurrentClient(owned[i].id, owned[i].epoch)
<1>1. /\ stage = 0 /\ i \in Pending /\ Tcp!Port!Resolve({i}, "COMPLETED")
      /\ UNCHANGED <<stage, listening, nextEpoch, nextSlot, owned, peers>>
  BY DEF Tcp!Answers, Pending
<1>2. /\ fate' \in [1..MaxId -> {"unused", "pending"} \cup Tcp!FinalStatus]
      /\ Pending' = Pending \ {i}
      /\ \A j \in 1..MaxId : fate[j] # "unused" => fate'[j] # "unused"
  BY <1>1, ResolveIs DEF TcpInv, Tcp!FinalStatus
<1>3. /\ stage \in 0..(Slots + 1) /\ listening \in BOOLEAN
      /\ nextEpoch \in 1..(MaxPeers + 1) /\ nextSlot \in Clients /\ peers \in 0..MaxPeers
      /\ client \in [Clients -> ClientType] /\ slot \in [Clients -> SlotType]
      /\ \A c \in Clients : Len(client[c].tx) <= TxMax
      /\ \A s \in Clients : Len(slot[s].queue) <= ClientQueueMax
      /\ owned \in [1..MaxId -> OwnedType]
  BY TypeIs DEF TcpInv
<1>4. \A j \in Pending' : j \in Pending /\ j # i /\ j \in Nat /\ i < j
  <2>1. \A j \in Pending : j <= i => j = i
    BY <1>1 DEF Tcp!Port!Resolve, Pending
  <2>2. \A j \in Pending : j \in Nat
    BY BoundsAre DEF Pending, Tcp!Port!Pending
  <2> QED
    BY <1>2, <2>1, <2>2, BoundsAre
<1>5. CASE to = {}
  <2>1. UNCHANGED <<client, slot>>
    BY <1>5 DEF Tcp!Answers
  <2>2. TypeInv'
    BY <1>1, <1>2, <1>3, <2>1, TypeMade
  <2>3. SlotsInv' /\ FlowInv' /\ PortInv' /\ TakenInv'
    BY <1>1, <1>2, <1>3, <2>1, FewerKeep DEF TcpInv, SlotsInv
  <2>4. EpochInv'
    BY <1>1, <1>2, <2>1 DEF TcpInv, EpochInv
  <2>5. IdleInv'
    BY <2>1 DEF TcpInv, IdleInv
  <2> QED
    BY <2>2, <2>3, <2>4, <2>5 DEF TcpInv
<1>6. CASE to # {}
  <2>1. PICK c \in to : Tcp!QueueResponse(c, owned[i].request)
    BY <1>6 DEF Tcp!Answers
  <2>2. /\ c \in Clients /\ client[c].peer # 0 /\ c = owned[i].id
        /\ client[c].epoch = owned[i].epoch
    BY DEF Tcp!CurrentClient, Tcp!Connected, Tcp!Clients, Clients
  <2> HIDE DEF to
  <2>3. CASE ~(Len(client[c].tx) < TxMax)
    <3>1. Tcp!Close(c)
      BY <2>1, <2>3 DEF Tcp!QueueResponse
    <3>2. /\ client' \in [Clients -> ClientType] /\ slot' \in [Clients -> SlotType]
          /\ \A d \in Clients : Len(client'[d].tx) <= TxMax
          /\ \A s \in Clients : Len(slot'[s].queue) <= ClientQueueMax
          /\ \A d \in Clients : client'[d].peer # 0 => client'[d] = client[d]
          /\ \A d \in Clients : client'[d] = client[d] \/ client'[d].tx = << >>
          /\ \A s \in Clients : slot'[s].id # 0 =>
                slot'[s] = slot[s] /\ client'[slot[s].id] = client[slot[s].id]
          /\ \A d \in Clients : client'[d].peer # 0 => \E s \in Clients : slot'[s].id = d
      BY <2>2, <3>1, CloseIs DEF TcpInv
    <3>3. TypeInv'
      BY <1>1, <1>2, <1>3, <3>2, TypeMade
    <3>4. SlotsInv' /\ FlowInv' /\ PortInv' /\ TakenInv'
      BY <1>1, <1>2, <1>3, <3>2, FewerKeep DEF TcpInv
    <3>5. EpochInv'
      <4>1. \A d \in Clients : client'[d].peer # 0 => client'[d].epoch < nextEpoch'
        BY <1>1, <3>2 DEF TcpInv, EpochInv
      <4>2. ~listening' => \A d \in Clients : client'[d].peer = 0
        BY <1>1, <3>2 DEF TcpInv, EpochInv
      <4> QED
        BY <1>1, <1>2, <4>1, <4>2 DEF TcpInv, EpochInv
    <3>6. IdleInv'
      BY <3>2 DEF TcpInv, IdleInv
    <3> QED
      BY <3>3, <3>4, <3>5, <3>6 DEF TcpInv
  <2>4. CASE Len(client[c].tx) < TxMax
    <3> DEFINE request == owned[i].request
    <3>0. PICK w : Answered(client[c], request, w)
      BY DEF Answered
    <3>1. client' = [client EXCEPT ![c] = w] /\ UNCHANGED slot
      BY <3>0, <1>3, <2>1, <2>2, <2>4 DEF Tcp!QueueResponse, Answered
    <3>2. PICK s0 \in Clients : slot[s0].id = c
      BY <2>2 DEF TcpInv, SlotsInv
    <3>3. \A s \in Clients : slot[s].id = c => s = s0
      BY <2>2, <3>2, BoundsAre DEF TcpInv, SlotsInv, Clients
    <3>4. c # 0
      BY <2>2, BoundsAre DEF Clients
    <3>5. Asks(i, s0) /\ slot[s0].epoch = client[c].epoch
      BY <1>1, <2>2, <3>2, <3>4 DEF TcpInv, SlotsInv, Asks
    <3>6. FlowOK(client[c], slot[s0].queue)
      BY <3>2, <3>4 DEF TcpInv, FlowInv
    <3>7. /\ request.peer = client[c].peer /\ request.n <= Dispatched(client[c], slot[s0].queue)
          /\ AllBefore(client[c], request.n)
          /\ \A k \in Pending : Asks(k, s0) /\ i < k => request.n < owned[k].request.n
      BY <1>1, <3>2, <3>4, <3>5 DEF TcpInv, PortInv, AllBefore
    <3>8. client[c] \in ClientType /\ slot[s0].queue \in Seq(Tcp!Requests)
      BY <1>3, <2>2 DEF SlotType
    <3>9. request \in Tcp!Requests
      <4>1. request \in [peer: 0..MaxPeers, n: 0..MaxRequests]
        BY <1>3 DEF OwnedType
      <4>2. client[c].last \in Nat /\ client[c].last < request.n
        BY <3>7, <3>8, BoundsAre DEF AllBefore, ClientType
      <4>3. request.peer # 0
        BY <2>2, <3>7
      <4> HIDE DEF request
      <4>4. request.peer \in 1..MaxPeers /\ request.n \in 1..MaxRequests
        BY <4>1, <4>2, <4>3, BoundsAre
      <4>5. request = [peer |-> request.peer, n |-> request.n]
        BY <4>1
      <4> QED
        BY <4>4, <4>5 DEF Tcp!Requests
    <3> HIDE DEF request
    <3>10. /\ w \in ClientType /\ Len(w.tx) <= TxMax /\ w.peer = client[c].peer
           /\ w.epoch = client[c].epoch /\ w.last = client[c].last
           /\ Dispatched(w, slot[s0].queue) = Dispatched(client[c], slot[s0].queue)
           /\ FlowOK(w, slot[s0].queue)
           /\ \A n \in Nat : AllBefore(client[c], n) /\ request.n < n => AllBefore(w, n)
      BY <2>4, <3>0, <3>6, <3>7, <3>8, <3>9, AppendedIs
    <3>11. /\ client' \in [Clients -> ClientType] /\ client'[c] = w
           /\ \A d \in Clients : d # c => client'[d] = client[d]
           /\ \A d \in Clients : /\ client'[d].peer = client[d].peer
                                 /\ client'[d].epoch = client[d].epoch
      BY <1>3, <2>2, <3>1, <3>10
    <3>12. TypeInv'
      <4>1. \A d \in Clients : Len(client'[d].tx) <= TxMax
        BY <1>3, <3>10, <3>11
      <4> QED
        BY <1>1, <1>2, <1>3, <3>1, <3>11, <4>1, TypeMade
    <3>13. \A s \in Clients : slot[s].id # 0 => slot[s].id \in Clients
      BY <1>3, BoundsAre DEF SlotType, Clients
    <3>14. SlotsInv'
      BY <3>1, <3>11, <3>13 DEF TcpInv, SlotsInv
    <3>15. EpochInv'
      BY <1>1, <1>2, <3>11 DEF TcpInv, EpochInv
    <3>16. FlowInv'
      <4> SUFFICES ASSUME NEW s \in Clients, slot[s].id # 0
                   PROVE  FlowOK(client'[slot[s].id], slot[s].queue)
        BY <3>1 DEF FlowInv
      <4>1. CASE slot[s].id = c
        BY <3>3, <3>10, <3>11, <4>1
      <4>2. CASE slot[s].id # c
        BY <3>11, <3>13, <4>2 DEF TcpInv, FlowInv
      <4> QED
        BY <4>1, <4>2
    <3>17. \A s \in Clients : slot[s].id # 0 =>
              /\ client'[slot[s].id].peer = client[slot[s].id].peer
              /\ client'[slot[s].id].last = client[slot[s].id].last
              /\ Dispatched(client'[slot[s].id], slot[s].queue)
                    = Dispatched(client[slot[s].id], slot[s].queue)
      BY <3>3, <3>10, <3>11, <3>13
    <3>18. \A k \in Pending', s \in Clients : Asks(k, s)' => Asks(k, s)
      BY <1>1, <1>4, <3>1 DEF Asks
    <3>19. PortInv'
      <4> SUFFICES ASSUME NEW s \in Clients, NEW k \in Pending', slot[s].id # 0, Asks(k, s)
                   PROVE  /\ owned[k].request.peer = client'[slot[s].id].peer
                          /\ client'[slot[s].id].last < owned[k].request.n
                          /\ owned[k].request.n <= Dispatched(client'[slot[s].id], slot[s].queue)
                          /\ \A j \in 1..Len(client'[slot[s].id].tx) :
                                client'[slot[s].id].tx[j].n < owned[k].request.n
                          /\ \A l \in Pending' : Asks(l, s) /\ k < l =>
                                owned[k].request.n < owned[l].request.n
        BY <1>1, <3>1, <3>18 DEF PortInv
      <4>1. k \in Pending /\ i < k
        BY <1>4
      <4>2. /\ owned[k].request.peer = client[slot[s].id].peer
            /\ AllBefore(client[slot[s].id], owned[k].request.n)
            /\ owned[k].request.n <= Dispatched(client[slot[s].id], slot[s].queue)
            /\ \A l \in Pending : Asks(l, s) /\ k < l => owned[k].request.n < owned[l].request.n
        BY <4>1 DEF TcpInv, PortInv, AllBefore
      <4>3. AllBefore(client'[slot[s].id], owned[k].request.n)
        <5>1. CASE slot[s].id = c
          <6>1. request.n < owned[k].request.n
            <7>1. s = s0
              BY <3>3, <5>1
            <7>2. Asks(k, s0)
              BY <7>1
            <7> QED
              BY <3>7, <4>1, <7>2
          <6>2. owned[k].request.n \in Nat
            <7>1. k \in 1..MaxId
              BY <4>1 DEF Pending, Tcp!Port!Pending
            <7>2. owned[k] \in OwnedType
              BY <1>3, <7>1
            <7>3. owned[k].request.n \in 0..MaxRequests
              BY <7>2 DEF OwnedType
            <7> QED
              BY <7>3, BoundsAre
          <6> QED
            BY <3>10, <3>11, <4>2, <5>1, <6>1, <6>2
        <5>2. CASE slot[s].id # c
          BY <3>11, <3>13, <4>2, <5>2
        <5> QED
          BY <5>1, <5>2
      <4> QED
        BY <1>4, <3>17, <4>2, <4>3 DEF AllBefore
    <3>20. TakenInv'
      <4>1. \A k \in Pending', s \in Clients : Asks(k, s) => Asks(k, s)'
        BY <1>1, <3>1 DEF Asks
      <4> QED
        BY <1>1, <1>2, <1>4, <3>1, <3>17, <4>1 DEF TcpInv, TakenInv
    <3>21. IdleInv'
      BY <2>2, <3>10, <3>11 DEF TcpInv, IdleInv
    <3> QED
      BY <3>12, <3>14, <3>15, <3>16, <3>19, <3>20, <3>21 DEF TcpInv
  <2> QED
    BY <2>3, <2>4
<1> QED
  BY <1>5, <1>6
\* A client's turn: what it read, parsed and wrote.
LEMMA StepClientKeeps ==
    ASSUME TcpInv, NEW c \in Clients, Tcp!StepClient(c)
    PROVE  TcpInv'
<1>1. /\ stage = c /\ stage' = c + 1 /\ client[c].peer # 0
      /\ UNCHANGED <<listening, nextEpoch, nextSlot, fate, owned, peers>>
  BY DEF Tcp!StepClient, Tcp!Connected, Tcp!StepsOver
<1>2. PICK s0 \in Tcp!SlotsOf(c) : \E w \in Tcp!Handled(Tcp!Pair(c, s0)) :
         /\ client' = [client EXCEPT ![c] = w.of]
         /\ slot' = [slot EXCEPT ![s0].queue = w.queue]
  BY DEF Tcp!StepClient
<1>3. PICK w \in Tcp!Handled(Tcp!Pair(c, s0)) :
         /\ client' = [client EXCEPT ![c] = w.of]
         /\ slot' = [slot EXCEPT ![s0].queue = w.queue]
  BY <1>2
<1>4. /\ stage \in 0..(Slots + 1) /\ listening \in BOOLEAN
      /\ nextEpoch \in 1..(MaxPeers + 1) /\ nextSlot \in Clients /\ peers \in 0..MaxPeers
      /\ client \in [Clients -> ClientType] /\ slot \in [Clients -> SlotType]
      /\ \A d \in Clients : Len(client[d].tx) <= TxMax
      /\ \A s \in Clients : Len(slot[s].queue) <= ClientQueueMax
      /\ fate \in [1..MaxId -> {"unused", "pending"} \cup Tcp!FinalStatus]
      /\ owned \in [1..MaxId -> OwnedType]
  BY TypeIs DEF TcpInv
<1>5. s0 \in Clients /\ slot[s0].id = c /\ c # 0
  BY BoundsAre DEF Tcp!SlotsOf, Tcp!Clients, Clients
<1>6. \A s \in Clients : slot[s].id = c => s = s0
  BY <1>5 DEF TcpInv, SlotsInv
<1>7. PICK x : x = Tcp!Pair(c, s0)
  OBVIOUS
<1>8. x.of = client[c] /\ x.queue = slot[s0].queue /\ x \in PairType
  <2>1. client[c] \in ClientType /\ slot[s0].queue \in Seq(Tcp!Requests)
    BY <1>4, <1>5 DEF SlotType
  <2> QED
    BY <1>7, <2>1 DEF Tcp!Pair, PairType
<1>9. PairOK(x)
  BY <1>1, <1>4, <1>5, <1>8 DEF PairOK, TcpInv, FlowInv
<1>10. Later(x, w)
  BY <1>3, <1>7, <1>9, HandledIs
<1>11. /\ w.of \in ClientType /\ w.queue \in Seq(Tcp!Requests) /\ PairOK(w)
       /\ Len(w.queue) <= ClientQueueMax /\ Len(w.of.tx) <= TxMax
       /\ w.of.peer = client[c].peer /\ w.of.epoch = client[c].epoch
       /\ FlowOK(w.of, w.queue)
       /\ Dispatched(w.of, w.queue) = Dispatched(client[c], slot[s0].queue)
       /\ \A n \in Nat : AllBefore(client[c], n) => AllBefore(w.of, n)
  BY <1>8, <1>10, PairIs DEF Later, PairOK
<1>12. /\ client' \in [Clients -> ClientType] /\ client'[c] = w.of
       /\ \A d \in Clients : d # c => client'[d] = client[d]
       /\ \A d \in Clients : client'[d].peer = client[d].peer /\ client'[d].epoch = client[d].epoch
  BY <1>3, <1>4, <1>11
<1>13. /\ slot' \in [Clients -> SlotType] /\ slot'[s0].queue = w.queue
       /\ \A s \in Clients : s # s0 => slot'[s] = slot[s]
       /\ \A s \in Clients : slot'[s].id = slot[s].id /\ slot'[s].epoch = slot[s].epoch
  BY <1>3, <1>4, <1>5, <1>11 DEF SlotType
<1>14. Pending' = Pending
  BY <1>1 DEF Pending, Tcp!Port!Pending
<1>15. TypeInv'
  <2>1. /\ \A d \in Clients : Len(client'[d].tx) <= TxMax
        /\ \A s \in Clients : Len(slot'[s].queue) <= ClientQueueMax
    BY <1>4, <1>11, <1>12, <1>13
  <2>2. stage' \in 0..(Slots + 1)
    BY <1>1, BoundsAre DEF Clients
  <2>3. client' \in [Clients -> ClientType] /\ slot' \in [Clients -> SlotType]
    BY <1>12, <1>13
  <2>4. /\ listening' \in BOOLEAN /\ nextEpoch' \in 1..(MaxPeers + 1)
        /\ nextSlot' \in Clients /\ peers' \in 0..MaxPeers
        /\ fate' \in [1..MaxId -> {"unused", "pending"} \cup Tcp!FinalStatus]
        /\ owned' \in [1..MaxId -> OwnedType]
    BY <1>1, <1>4
  <2> QED
    BY <2>1, <2>2, <2>3, <2>4, TypeMade
<1>16. \A s \in Clients : slot[s].id # 0 => slot[s].id \in Clients
  <2>1. \A s \in Clients : slot[s].id \in 0..Slots
    BY <1>4 DEF SlotType
  <2> QED
    BY <2>1, BoundsAre DEF Clients
<1>17. SlotsInv'
  BY <1>12, <1>13, <1>16 DEF TcpInv, SlotsInv
<1>18. EpochInv'
  <2>1. listening
    BY <1>1, <1>5 DEF TcpInv, EpochInv
  <2> QED
    BY <1>1, <1>12, <1>14, <2>1 DEF TcpInv, EpochInv
<1>19. \A s \in Clients : slot[s].id # 0 =>
          /\ FlowOK(client'[slot[s].id], slot'[s].queue)
          /\ Dispatched(client'[slot[s].id], slot'[s].queue)
                = Dispatched(client[slot[s].id], slot[s].queue)
          /\ client'[slot[s].id].peer = client[slot[s].id].peer
          /\ \A n \in Nat : AllBefore(client[slot[s].id], n) => AllBefore(client'[slot[s].id], n)
  <2> TAKE s \in Clients
  <2> HAVE slot[s].id # 0
  <2>1. CASE s = s0
    BY <1>5, <1>11, <1>12, <1>13, <2>1
  <2>2. CASE s # s0
    <3>1. client'[slot[s].id] = client[slot[s].id] /\ slot'[s] = slot[s]
      BY <1>6, <1>12, <1>13, <1>16, <2>2
    <3>2. FlowOK(client[slot[s].id], slot[s].queue)
      BY DEF TcpInv, FlowInv
    <3> QED
      BY <3>1, <3>2
  <2> QED
    BY <2>1, <2>2
<1>20. FlowInv'
  BY <1>13, <1>19 DEF FlowInv
<1>21. \A i \in Pending, s \in Clients : Asks(i, s)' <=> Asks(i, s)
  BY <1>1, <1>13, <1>14 DEF Asks
<1>22. PortInv'
  <2> SUFFICES ASSUME NEW s \in Clients, NEW i \in Pending, slot[s].id # 0, Asks(i, s)
               PROVE  /\ owned[i].request.peer = client'[slot[s].id].peer
                      /\ client'[slot[s].id].last < owned[i].request.n
                      /\ owned[i].request.n <= Dispatched(client'[slot[s].id], slot'[s].queue)
                      /\ \A j \in 1..Len(client'[slot[s].id].tx) :
                            client'[slot[s].id].tx[j].n < owned[i].request.n
                      /\ \A k \in Pending : Asks(k, s) /\ i < k =>
                            owned[i].request.n < owned[k].request.n
    BY <1>1, <1>13, <1>14, <1>21 DEF PortInv
  <2>1. /\ owned[i].request.peer = client[slot[s].id].peer
        /\ AllBefore(client[slot[s].id], owned[i].request.n)
        /\ owned[i].request.n <= Dispatched(client[slot[s].id], slot[s].queue)
        /\ \A k \in Pending : Asks(k, s) /\ i < k => owned[i].request.n < owned[k].request.n
    BY DEF TcpInv, PortInv, AllBefore
  <2>2. owned[i].request.n \in Nat
    <3>1. i \in 1..MaxId
      BY DEF Pending, Tcp!Port!Pending
    <3>2. owned[i] \in OwnedType
      BY <1>4, <3>1
    <3>3. owned[i].request.n \in 0..MaxRequests
      BY <3>2 DEF OwnedType
    <3> QED
      BY <3>3, BoundsAre
  <2>3. AllBefore(client'[slot[s].id], owned[i].request.n)
    BY <1>19, <2>1, <2>2
  <2> QED
    BY <1>19, <2>1, <2>3 DEF AllBefore
<1>23. TakenInv'
  BY <1>1, <1>13, <1>14, <1>19, <1>21 DEF TcpInv, TakenInv
<1>24. IdleInv'
  BY <1>1, <1>12 DEF TcpInv, IdleInv
<1> QED
  BY <1>15, <1>17, <1>18, <1>20, <1>22, <1>23, <1>24 DEF TcpInv
\* A new connection: a free client and a free slot, and an epoch of its own.
LEMMA AcceptOneKeeps ==
    ASSUME TcpInv, Tcp!AcceptOne
    PROVE  TcpInv'
<1> DEFINE free == {d \in Clients : client[d].peer = 0}
           spare == {t \in Clients : slot[t].id = 0}
           taken == {t \in Clients : slot[t].id = Tcp!Min(free)}
<1>1. /\ stage = 0 /\ listening /\ peers < MaxPeers /\ free # {}
      /\ nextEpoch' = nextEpoch + 1 /\ peers' = peers + 1 /\ stage' = 1
      /\ UNCHANGED <<listening, nextSlot, fate, owned>>
  BY DEF Tcp!AcceptOne, Tcp!Connected, Tcp!Clients, Clients
<1>2. \/ UNCHANGED <<client, slot>>
      \/ /\ taken = {} /\ spare # {}
         /\ client' = [client EXCEPT ![Tcp!Min(free)] =
                                        [Tcp!Nobody EXCEPT !.peer = peers + 1, !.epoch = nextEpoch]]
         /\ slot' = [slot EXCEPT ![Tcp!Min(spare)] =
                                    [Tcp!Free EXCEPT !.id = Tcp!Min(free), !.epoch = nextEpoch]]
  BY DEF Tcp!AcceptOne, Tcp!Connected, Tcp!SlotsOf, Tcp!Clients, Clients
<1>3. /\ nextEpoch \in 1..(MaxPeers + 1) /\ nextSlot \in Clients /\ peers \in 0..MaxPeers
      /\ client \in [Clients -> ClientType] /\ slot \in [Clients -> SlotType]
      /\ \A d \in Clients : Len(client[d].tx) <= TxMax
      /\ \A s \in Clients : Len(slot[s].queue) <= ClientQueueMax
      /\ fate \in [1..MaxId -> {"unused", "pending"} \cup Tcp!FinalStatus]
      /\ owned \in [1..MaxId -> OwnedType] /\ listening \in BOOLEAN
  BY TypeIs DEF TcpInv
<1>4. /\ nextEpoch \in Nat /\ nextEpoch <= MaxPeers /\ nextEpoch' \in 1..(MaxPeers + 1)
      /\ peers' \in 0..MaxPeers /\ peers \in Nat /\ stage' \in 0..(Slots + 1)
      /\ peers + 1 \in 1..MaxPeers /\ nextEpoch' <= peers' + 1
  <2>1. nextEpoch <= peers + 1
    BY DEF TcpInv, EpochInv
  <2> QED
    BY <1>1, <1>3, <2>1, BoundsAre
<1>5. Pending' = Pending
  BY <1>1 DEF Pending, Tcp!Port!Pending
<1>6. \A s \in Clients : slot[s].id # 0 => slot[s].id \in Clients
  BY <1>3, BoundsAre DEF SlotType, Clients
<1>7. \A i \in Pending : owned[i].epoch < nextEpoch
  BY DEF TcpInv, EpochInv
<1>8. CASE UNCHANGED <<client, slot>>
  <2>1. TypeInv'
    BY <1>1, <1>3, <1>4, <1>8, TypeMade
  <2>2. SlotsInv' /\ FlowInv' /\ IdleInv'
    BY <1>8 DEF TcpInv, SlotsInv, FlowInv, IdleInv
  <2>3. PortInv' /\ TakenInv'
    BY <1>1, <1>5, <1>8 DEF TcpInv, PortInv, TakenInv, Asks
  <2>4. \A c \in Clients : client[c].peer # 0 => client[c].epoch < nextEpoch'
    <3>1. \A c \in Clients : client[c].epoch \in Int
      BY <1>3, BoundsAre DEF ClientType
    <3> QED
      BY <1>1, <1>4, <3>1 DEF TcpInv, EpochInv
  <2>5. \A i \in Pending : owned[i].epoch < nextEpoch'
    <3>1. \A i \in Pending : owned[i].epoch \in Int
      BY <1>3, BoundsAre DEF OwnedType, Pending, Tcp!Port!Pending
    <3> QED
      BY <1>1, <1>4, <1>7, <3>1
  <2>6. EpochInv'
    BY <1>1, <1>4, <1>5, <1>8, <2>4, <2>5 DEF EpochInv
  <2> QED
    BY <2>1, <2>2, <2>3, <2>6 DEF TcpInv
<1>9. CASE ~UNCHANGED <<client, slot>>
  <2>1. PICK c : c = Tcp!Min(free)
    OBVIOUS
  <2>2. PICK s0 : s0 = Tcp!Min(spare)
    OBVIOUS
  <2>3. PICK new : new = [Tcp!Nobody EXCEPT !.peer = peers + 1, !.epoch = nextEpoch]
    OBVIOUS
  <2>4. PICK place : place = [Tcp!Free EXCEPT !.id = c, !.epoch = nextEpoch]
    OBVIOUS
  <2>5. /\ client' = [client EXCEPT ![c] = new] /\ slot' = [slot EXCEPT ![s0] = place]
        /\ \A t \in Clients : slot[t].id # c
        /\ spare # {}
    BY <1>2, <1>9, <2>1, <2>2, <2>3, <2>4
  <2>6. c \in Clients /\ client[c].peer = 0
    <3>1. free \subseteq Nat
      BY BoundsAre DEF Clients
    <3> HIDE DEF free
    <3>2. c \in free
      BY <1>1, <2>1, <3>1, MinIs
    <3> QED
      BY <3>2 DEF free
  <2>7. s0 \in Clients /\ slot[s0].id = 0
    <3>1. spare \subseteq Nat
      BY BoundsAre DEF Clients
    <3> HIDE DEF spare
    <3>2. s0 \in spare
      BY <2>2, <2>5, <3>1, MinIs
    <3> QED
      BY <3>2 DEF spare
  <2> HIDE DEF free, spare, taken
  <2>8. << >> \in Seq(Tcp!Requests) /\ Len(<< >>) = 0
    BY EmptySeq
  <2>9. /\ new \in ClientType /\ new.peer = peers + 1 /\ new.peer # 0 /\ new.epoch = nextEpoch
        /\ new.read = 0 /\ new.rx = 0 /\ new.last = 0 /\ new.tx = << >> /\ Len(new.tx) = 0
    <3>1. new = [peer |-> peers + 1, epoch |-> nextEpoch, eof |-> FALSE, read |-> 0, rx |-> 0,
                 rest |-> "none", tx |-> << >>, last |-> 0]
      BY <2>3 DEF Tcp!Nobody
    <3>2. peers + 1 \in 0..MaxPeers /\ nextEpoch \in 0..MaxPeers /\ peers + 1 # 0
          /\ 0 \in 0..MaxRequests /\ 0 \in 0..RxMax
      BY <1>4, BoundsAre
    <3> QED
      BY <2>8, <3>1, <3>2 DEF ClientType
  <2>10. /\ place \in SlotType /\ place.id = c /\ place.id # 0 /\ place.epoch = nextEpoch
         /\ place.queue = << >> /\ Len(place.queue) = 0
    <3>1. place = [id |-> c, epoch |-> nextEpoch, queue |-> << >>]
      BY <2>4 DEF Tcp!Free
    <3>2. c \in 0..Slots /\ c # 0 /\ nextEpoch \in 0..MaxPeers
      BY <1>4, <2>6, BoundsAre DEF Clients
    <3> QED
      BY <2>8, <3>1, <3>2 DEF SlotType
  <2>11. /\ client' \in [Clients -> ClientType] /\ client'[c] = new
         /\ \A d \in Clients : d # c => client'[d] = client[d]
    BY <1>3, <2>5, <2>6, <2>9
  <2>12. /\ slot' \in [Clients -> SlotType] /\ slot'[s0] = place
         /\ \A s \in Clients : s # s0 => slot'[s] = slot[s]
    BY <1>3, <2>5, <2>7, <2>10
  <2>13. TypeInv'
    <3>1. 0 <= TxMax /\ 0 <= ClientQueueMax
      BY BoundsAre
    <3>2. \A d \in Clients : Len(client'[d].tx) <= TxMax
      BY <1>3, <2>9, <2>11, <3>1
    <3>3. \A s \in Clients : Len(slot'[s].queue) <= ClientQueueMax
      BY <1>3, <2>10, <2>12, <3>1
    <3>4. client' \in [Clients -> ClientType] /\ slot' \in [Clients -> SlotType]
      BY <2>11, <2>12
    <3> QED
      BY <1>1, <1>3, <1>4, <3>2, <3>3, <3>4, TypeMade
  <2>14. \A s \in Clients : /\ s # s0 => slot'[s] = slot[s]
                            /\ s # s0 /\ slot[s].id # 0 => client'[slot[s].id] = client[slot[s].id]
    BY <1>6, <2>5, <2>11, <2>12
  <2>15. SlotsInv'
    <3>1. \A s, t \in Clients : slot'[s].id # 0 /\ slot'[s].id = slot'[t].id => s = t
      BY <2>5, <2>10, <2>12 DEF TcpInv, SlotsInv
    <3>2. \A s \in Clients : slot'[s].id # 0 => /\ client'[slot'[s].id].peer # 0
                                                /\ slot'[s].epoch = client'[slot'[s].id].epoch
      <4> TAKE s \in Clients
      <4>1. CASE s = s0
        BY <2>9, <2>10, <2>11, <2>12, <4>1
      <4>2. CASE s # s0
        BY <2>14, <4>2 DEF TcpInv, SlotsInv
      <4> QED
        BY <4>1, <4>2
    <3>3. \A d \in Clients : client'[d].peer # 0 => \E s \in Clients : slot'[s].id = d
      <4> SUFFICES ASSUME NEW d \in Clients, client'[d].peer # 0
                   PROVE  \E s \in Clients : slot'[s].id = d
        OBVIOUS
      <4>1. CASE d = c
        BY <2>7, <2>10, <2>12, <4>1
      <4>2. CASE d # c
        <5>1. PICK s \in Clients : slot[s].id = d
          BY <2>11, <4>2 DEF TcpInv, SlotsInv
        <5>2. s # s0
          BY <2>7, <5>1, BoundsAre DEF Clients
        <5> QED
          BY <2>12, <5>1, <5>2
      <4> QED
        BY <4>1, <4>2
    <3> QED
      BY <3>1, <3>2, <3>3 DEF SlotsInv
  <2>16. EpochInv'
    <3>1. \A d \in Clients : client[d].epoch \in Int
      BY <1>3, BoundsAre DEF ClientType
    <3>2. \A d \in Clients : client'[d].peer # 0 => client'[d].epoch < nextEpoch'
      <4> TAKE d \in Clients
      <4>1. CASE d = c
        BY <1>1, <1>4, <2>9, <2>11, <4>1
      <4>2. CASE d # c
        BY <1>1, <1>4, <2>11, <3>1, <4>2 DEF TcpInv, EpochInv
      <4> QED
        BY <4>1, <4>2
    <3>3. \A i \in Pending : owned[i].epoch < nextEpoch'
      <4>1. \A i \in Pending : owned[i].epoch \in Int
        BY <1>3, BoundsAre DEF OwnedType, Pending, Tcp!Port!Pending
      <4> QED
        BY <1>1, <1>4, <1>7, <4>1
    <3> QED
      BY <1>1, <1>4, <1>5, <3>2, <3>3 DEF EpochInv
  <2>17. Dispatched(new, place.queue) = 0
    <3>1. new.read = 0 /\ new.rx = 0 /\ Len(place.queue) = 0
      BY <2>9, <2>10
    <3>2. 0 - 0 - 0 = 0
      OBVIOUS
    <3> QED
      BY <3>1, <3>2, Zenon DEF Dispatched
  <2>18. FlowInv'
    <3> SUFFICES ASSUME NEW s \in Clients, slot'[s].id # 0
                 PROVE  FlowOK(client'[slot'[s].id], slot'[s].queue)
      BY DEF FlowInv
    <3>1. CASE s = s0
      <4>1. FlowOK(new, place.queue)
        BY <2>9, <2>10, <2>17 DEF FlowOK
      <4> QED
        BY <2>10, <2>11, <2>12, <3>1, <4>1
    <3>2. CASE s # s0
      BY <2>14, <3>2 DEF TcpInv, FlowInv
    <3> QED
      BY <3>1, <3>2
  <2>19. \A i \in Pending : ~Asks(i, s0)'
    <3>1. \A i \in Pending : owned[i].epoch \in Int
      BY <1>3, BoundsAre DEF OwnedType, Pending, Tcp!Port!Pending
    <3>2. \A i \in Pending : owned[i].epoch # nextEpoch
      BY <1>4, <1>7, <3>1
    <3> QED
      BY <1>1, <2>10, <2>12, <3>2 DEF Asks
  <2>20. \A i \in Pending, s \in Clients : s # s0 => (Asks(i, s)' <=> Asks(i, s))
    BY <1>1, <1>5, <2>14 DEF Asks
  <2>21. PortInv'
    <3> SUFFICES ASSUME NEW s \in Clients, NEW i \in Pending, slot'[s].id # 0, Asks(i, s)'
                 PROVE  /\ owned[i].request.peer = client'[slot'[s].id].peer
                        /\ client'[slot'[s].id].last < owned[i].request.n
                        /\ owned[i].request.n <= Dispatched(client'[slot'[s].id], slot'[s].queue)
                        /\ \A j \in 1..Len(client'[slot'[s].id].tx) :
                              client'[slot'[s].id].tx[j].n < owned[i].request.n
                        /\ \A k \in Pending : Asks(k, s)' /\ i < k =>
                              owned[i].request.n < owned[k].request.n
      BY <1>1, <1>5 DEF PortInv
    <3>1. s # s0 /\ Asks(i, s)
      BY <2>19, <2>20
    <3>2. client'[slot'[s].id] = client[slot[s].id] /\ slot'[s] = slot[s] /\ slot[s].id # 0
      BY <2>14, <3>1
    <3>3. \A k \in Pending : Asks(k, s)' => Asks(k, s)
      BY <2>20, <3>1
    <3> QED
      BY <3>1, <3>2, <3>3 DEF TcpInv, PortInv
  <2>22. TakenInv'
    <3> SUFFICES ASSUME NEW s \in Clients, slot'[s].id # 0,
                        NEW n \in 1..Dispatched(client'[slot'[s].id], slot'[s].queue)
                 PROVE  \E i \in 1..MaxId :
                          /\ owned[i].request = [peer |-> client'[slot'[s].id].peer, n |-> n]
                          /\ fate[i] # "unused"
                          /\ i \in Pending => Asks(i, s)'
      BY <1>1, <1>5 DEF TakenInv
    <3>1. s # s0
      BY <2>10, <2>11, <2>12, <2>17
    <3>2. client'[slot'[s].id] = client[slot[s].id] /\ slot'[s] = slot[s] /\ slot[s].id # 0
      BY <2>14, <3>1
    <3> QED
      BY <2>20, <3>1, <3>2 DEF TcpInv, TakenInv
  <2>23. IdleInv'
    BY <2>9, <2>11 DEF TcpInv, IdleInv
  <2> QED
    BY <2>13, <2>15, <2>16, <2>18, <2>21, <2>22, <2>23 DEF TcpInv
<1> QED
  BY <1>8, <1>9
\* The first request of a queue goes to the port.
LEMMA DispatchedFlow ==
    ASSUME NEW of \in ClientType, NEW queue \in Seq(Tcp!Requests), queue # << >>,
           FlowOK(of, queue), NEW d, d = Dispatched(of, queue)
    PROVE  /\ Tail(queue) \in Seq(Tcp!Requests) /\ Len(Tail(queue)) <= Len(queue)
           /\ Head(queue) \in Tcp!Requests /\ Head(queue) = [peer |-> of.peer, n |-> d + 1]
           /\ d \in Nat /\ Dispatched(of, Tail(queue)) = d + 1
           /\ FlowOK(of, Tail(queue))
<1>1. Len(queue) \in Nat /\ Len(queue) > 0
  BY EmptySeq
<1>2. /\ Tail(queue) \in Seq(Tcp!Requests) /\ Len(Tail(queue)) = Len(queue) - 1
      /\ \A j \in 1..(Len(queue) - 1) : Tail(queue)[j] = queue[j + 1]
      /\ Head(queue) = queue[1] /\ queue[1] \in Tcp!Requests
  BY <1>1
<1>3. PICK rest : rest = Tail(queue)
  OBVIOUS
<1>4. d \in Nat /\ of.last <= d /\ of.last \in Int
  BY BoundsAre DEF FlowOK, ClientType
<1>5. Dispatched(of, rest) = d + 1
  <2>1. of.read \in Int /\ of.rx \in Int
    BY BoundsAre DEF ClientType
  <2>2. \A r, b, l \in Int : r - b - (l - 1) = (r - b - l) + 1
    OBVIOUS
  <2>3. Len(queue) \in Int /\ Len(rest) = Len(queue) - 1
    BY <1>1, <1>2, <1>3
  <2> QED
    BY <2>1, <2>2, <2>3 DEF Dispatched
<1>6. Head(queue) = [peer |-> of.peer, n |-> d + 1]
  <2>1. 1 \in 1..Len(queue)
    BY <1>1
  <2> QED
    BY <1>2, <2>1 DEF FlowOK
<1>7. \A j \in 1..Len(rest) : rest[j] = [peer |-> of.peer, n |-> (d + 1) + j]
  <2> TAKE j \in 1..Len(rest)
  <2>1. j + 1 \in 1..Len(queue) /\ j \in 1..(Len(queue) - 1) /\ d + (j + 1) = (d + 1) + j
    BY <1>1, <1>2, <1>3, <1>4
  <2>2. queue[j + 1] = [peer |-> of.peer, n |-> d + (j + 1)]
    BY <2>1 DEF FlowOK
  <2> QED
    BY <1>2, <1>3, <2>1, <2>2
<1>8. \A j \in 1..Len(of.tx) : /\ of.tx[j].peer = of.peer /\ of.last < of.tx[j].n
                               /\ of.tx[j].n <= d + 1
  <2> TAKE j \in 1..Len(of.tx)
  <2>1. of.tx[j] \in Tcp!Requests
    BY DEF ClientType
  <2>2. of.tx[j].n \in Int
    BY <2>1, BoundsAre DEF Tcp!Requests
  <2>3. of.tx[j].peer = of.peer /\ of.last < of.tx[j].n /\ of.tx[j].n <= d
    BY DEF FlowOK
  <2> QED
    BY <1>4, <2>2, <2>3
<1>9. FlowOK(of, rest)
  <2>1. \A j, k \in 1..Len(of.tx) : j < k => of.tx[j].n < of.tx[k].n
    BY DEF FlowOK
  <2>2. d + 1 \in Nat /\ of.last <= d + 1
    BY <1>4
  <2> QED
    BY <1>5, <1>7, <1>8, <2>1, <2>2 DEF FlowOK
<1> QED
  BY <1>1, <1>2, <1>3, <1>4, <1>5, <1>6, <1>9

\* The port takes a request of the client whose turn it is.
LEMMA DispatchAcceptedKeeps ==
    ASSUME TcpInv, Tcp!DispatchAccepted
    PROVE  TcpInv'
<1>1. /\ stage = Slots + 1 /\ stage' = 0 /\ Tcp!Waiting # {}
      /\ UNCHANGED <<listening, nextEpoch, client, peers>>
  BY DEF Tcp!DispatchAccepted
<1>2. PICK s0 : s0 = Tcp!Turn
  OBVIOUS
<1>3. PICK i \in 1..MaxId :
         /\ \A j \in 1..MaxId : fate[j] = "unused" <=> j >= i
         /\ Tcp!Port!Accept(i)
         /\ owned' = [owned EXCEPT ![i] = [id |-> slot[s0].id, epoch |-> slot[s0].epoch,
                                           request |-> Head(slot[s0].queue)]]
         /\ slot' = [slot EXCEPT ![s0].queue = Tail(@)]
         /\ nextSlot' = Tcp!After(s0)
  BY <1>2 DEF Tcp!DispatchAccepted
<1>4. /\ nextEpoch \in 1..(MaxPeers + 1) /\ nextSlot \in Clients /\ peers \in 0..MaxPeers
      /\ client \in [Clients -> ClientType] /\ slot \in [Clients -> SlotType]
      /\ \A d \in Clients : Len(client[d].tx) <= TxMax
      /\ \A s \in Clients : Len(slot[s].queue) <= ClientQueueMax
      /\ fate \in [1..MaxId -> {"unused", "pending"} \cup Tcp!FinalStatus]
      /\ owned \in [1..MaxId -> OwnedType] /\ listening \in BOOLEAN
  BY TypeIs DEF TcpInv
<1>5. s0 \in Clients /\ slot[s0].id # 0 /\ slot[s0].queue # << >>
  BY <1>1, <1>2, <1>4, TurnIs DEF Tcp!Waiting, Tcp!Clients, Clients
<1>6. \A s \in Clients : slot[s].id # 0 => slot[s].id \in Clients
  <2>1. \A s \in Clients : slot[s].id \in 0..Slots
    BY <1>4 DEF SlotType
  <2> QED
    BY <2>1, BoundsAre DEF Clients
<1>7. \A s \in Clients : slot[s].id = slot[s0].id => s = s0
  BY <1>5 DEF TcpInv, SlotsInv
<1>8. /\ slot[s0].queue \in Seq(Tcp!Requests) /\ slot[s0].id \in 0..Slots
      /\ slot[s0].epoch \in 0..MaxPeers /\ client[slot[s0].id] \in ClientType
      /\ FlowOK(client[slot[s0].id], slot[s0].queue)
  BY <1>4, <1>5, <1>6 DEF SlotType, TcpInv, FlowInv
<1>9. PICK d : d = Dispatched(client[slot[s0].id], slot[s0].queue)
  OBVIOUS
<1>10. PICK rest : rest = Tail(slot[s0].queue)
  OBVIOUS
<1>11. PICK request : request = Head(slot[s0].queue)
  OBVIOUS
<1>12. /\ rest \in Seq(Tcp!Requests) /\ Len(rest) <= Len(slot[s0].queue)
       /\ request \in Tcp!Requests /\ request = [peer |-> client[slot[s0].id].peer, n |-> d + 1]
       /\ d \in Nat /\ Dispatched(client[slot[s0].id], rest) = d + 1
       /\ FlowOK(client[slot[s0].id], rest)
  BY ZenonT(60), <1>5, <1>8, <1>9, <1>10, <1>11, DispatchedFlow
<1>13. /\ slot' \in [Clients -> SlotType] /\ slot'[s0].queue = rest
       /\ \A s \in Clients : s # s0 => slot'[s] = slot[s]
       /\ \A s \in Clients : slot'[s].id = slot[s].id /\ slot'[s].epoch = slot[s].epoch
  BY <1>3, <1>4, <1>5, <1>10, <1>12 DEF SlotType
<1>14. PICK asked : asked = [id |-> slot[s0].id, epoch |-> slot[s0].epoch, request |-> request]
  OBVIOUS
<1>15. /\ asked \in OwnedType /\ asked.id = slot[s0].id /\ asked.epoch = slot[s0].epoch
       /\ asked.request = request
  <2>1. request \in [peer: 0..MaxPeers, n: 0..MaxRequests]
    <3>1. request.peer \in 1..MaxPeers /\ request.n \in 1..MaxRequests
      BY <1>12 DEF Tcp!Requests
    <3>2. request.peer \in 0..MaxPeers /\ request.n \in 0..MaxRequests
      BY <3>1, BoundsAre
    <3> QED
      BY <1>12, <3>2
  <2> QED
    BY <1>8, <1>14, <2>1 DEF OwnedType
<1>16. /\ owned' \in [1..MaxId -> OwnedType] /\ owned'[i] = asked
       /\ \A j \in 1..MaxId : j # i => owned'[j] = owned[j]
  BY <1>3, <1>4, <1>11, <1>14, <1>15
<1>17. /\ fate' \in [1..MaxId -> {"unused", "pending"} \cup Tcp!FinalStatus]
       /\ fate'[i] = "pending" /\ fate[i] = "unused"
       /\ \A j \in 1..MaxId : j # i => fate'[j] = fate[j]
  <2>1. fate' = [fate EXCEPT ![i] = "pending"]
    BY <1>3 DEF Tcp!Port!Accept
  <2>2. i >= i
    BY BoundsAre
  <2> QED
    BY <1>3, <1>4, <2>1, <2>2
<1>18. /\ Pending' = Pending \cup {i} /\ i \notin Pending
       /\ \A k \in Pending : k \in 1..MaxId /\ k # i /\ k < i
  <2>1. Pending' = Pending \cup {i} /\ i \notin Pending
    BY <1>17 DEF Pending, Tcp!Port!Pending
  <2>2. \A k \in Pending : k \in 1..MaxId /\ fate[k] = "pending" /\ k # i
    BY <2>1 DEF Pending, Tcp!Port!Pending
  <2>3. \A k \in Pending : ~(k >= i)
    BY <1>3, <2>2
  <2> QED
    BY <2>1, <2>2, <2>3, BoundsAre
<1>19. TypeInv'
  <2>1. stage' \in 0..(Slots + 1)
    BY <1>1, BoundsAre
  <2>2. nextSlot' \in Clients
    BY <1>3, <1>5, BoundsAre DEF Tcp!After, Clients
  <2>3. \A s \in Clients : Len(slot'[s].queue) <= ClientQueueMax
    <3>1. \A s \in Clients : Len(slot[s].queue) \in Nat
      BY <1>4 DEF SlotType
    <3>2. Len(rest) \in Nat
      BY <1>12
    <3>3. Len(rest) <= ClientQueueMax
      BY <1>4, <1>5, <1>12, <3>1, <3>2, BoundsAre
    <3> QED
      BY <1>4, <1>13, <3>3
  <2>4. /\ listening' \in BOOLEAN /\ nextEpoch' \in 1..(MaxPeers + 1) /\ peers' \in 0..MaxPeers
        /\ client' \in [Clients -> ClientType]
        /\ \A c \in Clients : Len(client'[c].tx) <= TxMax
    BY <1>1, <1>4
  <2>5. /\ slot' \in [Clients -> SlotType] /\ owned' \in [1..MaxId -> OwnedType]
        /\ fate' \in [1..MaxId -> {"unused", "pending"} \cup Tcp!FinalStatus]
    BY <1>13, <1>16, <1>17
  <2> QED
    BY <2>1, <2>2, <2>3, <2>4, <2>5, TypeMade
<1>20. SlotsInv'
  BY <1>1, <1>13 DEF TcpInv, SlotsInv
<1>21. EpochInv'
  <2>1. asked.epoch < nextEpoch
    BY <1>5, <1>6, <1>15 DEF TcpInv, SlotsInv, EpochInv
  <2>2. \A k \in Pending' : owned'[k].epoch < nextEpoch
    BY <1>16, <1>18, <2>1 DEF TcpInv, EpochInv
  <2>3. listening
    BY <1>1, BoundsAre DEF TcpInv, EpochInv
  <2> QED
    BY <1>1, <2>2, <2>3 DEF TcpInv, EpochInv
<1>22. FlowInv'
  <2> SUFFICES ASSUME NEW s \in Clients, slot'[s].id # 0
               PROVE  FlowOK(client'[slot'[s].id], slot'[s].queue)
    BY DEF FlowInv
  <2>1. CASE s = s0
    BY <1>1, <1>12, <1>13, <2>1
  <2>2. CASE s # s0
    BY <1>1, <1>13, <2>2 DEF TcpInv, FlowInv
  <2> QED
    BY <2>1, <2>2
<1>23. \A k \in Pending, s \in Clients : Asks(k, s)' <=> Asks(k, s)
  BY <1>13, <1>16, <1>18 DEF Asks
<1>24. \A s \in Clients : slot[s].id # 0 /\ Asks(i, s)' => s = s0
  <2> TAKE s \in Clients
  <2> HAVE slot[s].id # 0 /\ Asks(i, s)'
  <2>1. owned'[i].id = slot'[s].id
    BY DEF Asks
  <2>2. slot[s].id = slot[s0].id
    BY <1>13, <1>15, <1>16, <2>1
  <2> QED
    BY <1>7, <2>2
<1>25. Asks(i, s0)'
  BY <1>5, <1>13, <1>15, <1>16, <1>18 DEF Asks
<1>26. \A k \in Pending, s \in Clients : slot[s].id # 0 /\ Asks(k, s) =>
          /\ owned[k].request.peer = client[slot[s].id].peer
          /\ AllBefore(client[slot[s].id], owned[k].request.n)
          /\ owned[k].request.n <= Dispatched(client[slot[s].id], slot[s].queue)
          /\ \A l \in Pending : Asks(l, s) /\ k < l => owned[k].request.n < owned[l].request.n
  BY DEF TcpInv, PortInv, AllBefore
<1>27. \A k \in Pending : owned[k].request.n \in Int
  <2> TAKE k \in Pending
  <2>1. owned[k] \in OwnedType
    BY <1>4, <1>18
  <2>2. owned[k].request.n \in 0..MaxRequests
    BY <2>1 DEF OwnedType
  <2> QED
    BY <2>2, BoundsAre
<1>28. request.n = d + 1 /\ request.peer = client[slot[s0].id].peer
  BY <1>12
<1>29. AllBefore(client[slot[s0].id], request.n)
  <2>1. PICK x : x = client[slot[s0].id]
    OBVIOUS
  <2>2. PICK q : q = slot[s0].queue
    OBVIOUS
  <2>3. FlowOK(x, q) /\ x \in ClientType /\ Dispatched(x, q) = d
    BY <1>8, <1>9, <2>1, <2>2
  <2>4. /\ x.last <= d /\ x.last \in Int /\ d \in Int
        /\ \A j \in 1..Len(x.tx) : x.tx[j].n <= d
    <3>1. x.last <= d /\ d \in Nat /\ \A j \in 1..Len(x.tx) : x.tx[j].n <= d
      BY <2>3 DEF FlowOK
    <3>2. x.last \in 0..MaxRequests
      BY <2>3 DEF ClientType
    <3> QED
      BY <3>1, <3>2, BoundsAre
  <2>5. \A j \in 1..Len(x.tx) : x.tx[j].n \in Int
    <3> TAKE j \in 1..Len(x.tx)
    <3>1. x.tx[j] \in Tcp!Requests
      BY <2>3 DEF ClientType
    <3> QED
      BY <3>1, BoundsAre DEF Tcp!Requests
  <2>6. request.n = d + 1
    BY <1>28
  <2>7. x.last < request.n
    BY <2>4, <2>6
  <2>8. \A j \in 1..Len(x.tx) : x.tx[j].n < request.n
    BY <2>4, <2>5, <2>6
  <2> QED
    BY <2>1, <2>7, <2>8 DEF AllBefore
<1>30. PortInv'
  <2> SUFFICES ASSUME NEW s \in Clients, NEW k \in Pending', slot[s].id # 0, Asks(k, s)'
               PROVE  /\ owned'[k].request.peer = client[slot[s].id].peer
                      /\ AllBefore(client[slot[s].id], owned'[k].request.n)
                      /\ owned'[k].request.n <= Dispatched(client[slot[s].id], slot'[s].queue)
                      /\ \A l \in Pending' : Asks(l, s)' /\ k < l =>
                            owned'[k].request.n < owned'[l].request.n
    BY <1>1, <1>13 DEF PortInv, AllBefore
  <2>1. CASE k = i
    <3>1. s = s0 /\ owned'[k].request = request
      BY <1>15, <1>16, <1>24, <2>1
    <3>2. \A l \in Pending' : ~(k < l)
      BY <1>18, <2>1, BoundsAre
    <3>3. request.n <= Dispatched(client[slot[s].id], slot'[s].queue)
      BY <1>12, <1>13, <1>28, <3>1
    <3> QED
      BY <1>28, <1>29, <3>1, <3>2, <3>3
  <2>2. CASE k # i
    <3>1. k \in Pending /\ owned'[k] = owned[k] /\ Asks(k, s)
      BY <1>16, <1>18, <1>23, <2>2
    <3>2. /\ owned[k].request.n <= Dispatched(client[slot[s].id], slot'[s].queue)
          /\ s = s0 => owned[k].request.n < request.n
      <4>1. CASE s = s0
        <5>1. owned[k].request.n <= d /\ owned[k].request.n \in Int
          BY <1>9, <1>26, <1>27, <3>1, <4>1
        <5>2. owned[k].request.n <= d + 1 /\ owned[k].request.n < d + 1
          BY <1>12, <5>1
        <5> QED
          BY <1>12, <1>13, <1>28, <4>1, <5>2
      <4>2. CASE s # s0
        BY <1>13, <1>26, <3>1, <4>2
      <4> QED
        BY <4>1, <4>2
    <3>3. ASSUME NEW l \in Pending', Asks(l, s)', k < l
          PROVE  owned'[k].request.n < owned'[l].request.n
      <4>1. CASE l = i
        BY <1>15, <1>16, <1>24, <3>1, <3>2, <3>3, <4>1
      <4>2. CASE l # i
        <5>1. l \in Pending /\ Asks(l, s) /\ owned'[l] = owned[l]
          BY <1>16, <1>18, <1>23, <3>3, <4>2
        <5> QED
          BY <1>26, <3>1, <3>3, <5>1
      <4> QED
        BY <4>1, <4>2
    <3> QED
      BY <1>26, <3>1, <3>2, <3>3
  <2> QED
    BY <2>1, <2>2
<1>31. TakenInv'
  <2> SUFFICES ASSUME NEW s \in Clients, slot[s].id # 0,
                      NEW n \in 1..Dispatched(client[slot[s].id], slot'[s].queue)
               PROVE  \E k \in 1..MaxId :
                         /\ owned'[k].request = [peer |-> client[slot[s].id].peer, n |-> n]
                         /\ fate'[k] # "unused"
                         /\ k \in Pending' => Asks(k, s)'
    BY <1>1, <1>13 DEF TakenInv
  <2>1. CASE s = s0 /\ n = d + 1
    BY <1>12, <1>15, <1>16, <1>17, <1>25, <2>1
  <2>2. CASE ~(s = s0 /\ n = d + 1)
    <3>1. n \in 1..Dispatched(client[slot[s].id], slot[s].queue)
      <4>1. CASE s = s0
        BY <1>9, <1>12, <1>13, <2>2, <4>1
      <4>2. CASE s # s0
        BY <1>13, <4>2
      <4> QED
        BY <4>1, <4>2
    <3>2. PICK k \in 1..MaxId :
             /\ owned[k].request = [peer |-> client[slot[s].id].peer, n |-> n]
             /\ fate[k] # "unused"
             /\ k \in Pending => Asks(k, s)
      BY <3>1 DEF TcpInv, TakenInv
    <3>3. k # i
      BY <1>17, <3>2
    <3> QED
      BY <1>16, <1>17, <1>18, <1>23, <3>2, <3>3
  <2> QED
    BY <2>1, <2>2
<1>32. IdleInv'
  BY <1>1 DEF TcpInv, IdleInv
<1> QED
  BY <1>19, <1>20, <1>21, <1>22, <1>30, <1>31, <1>32 DEF TcpInv
-----------------------------------------------------------------------------
(* The invariant, and what the listener promises. *)

\* A listener that was just opened.
LEMMA TcpInit ==
    ASSUME Tcp!Init
    PROVE  TcpInv
<1>1. /\ stage = 0 /\ listening = TRUE /\ nextEpoch = 1 /\ nextSlot = 1 /\ peers = 0
      /\ client = [c \in Clients |-> Tcp!Nobody] /\ slot = [s \in Clients |-> Tcp!Free]
      /\ fate = [i \in 1..MaxId |-> "unused"] /\ owned = [i \in 1..MaxId |-> Tcp!Unowned]
  BY DEF Tcp!Init, Tcp!Port!Init, Tcp!Clients, Clients
<1>2. /\ Tcp!Nobody \in ClientType /\ Tcp!Nobody.peer = 0 /\ Len(Tcp!Nobody.tx) <= TxMax
      /\ Tcp!Free \in SlotType /\ Tcp!Free.id = 0 /\ Len(Tcp!Free.queue) <= ClientQueueMax
  BY NobodyIs
<1>3. Tcp!Unowned \in OwnedType
  BY BoundsAre DEF Tcp!Unowned, OwnedType
<1>4. /\ client \in [Clients -> ClientType] /\ slot \in [Clients -> SlotType]
      /\ owned \in [1..MaxId -> OwnedType]
      /\ fate \in [1..MaxId -> {"unused", "pending"} \cup Tcp!FinalStatus]
      /\ \A c \in Clients : client[c].peer = 0 /\ Len(client[c].tx) <= TxMax
      /\ \A s \in Clients : slot[s].id = 0 /\ Len(slot[s].queue) <= ClientQueueMax
  BY <1>1, <1>2, <1>3
<1>5. Pending = {}
  BY <1>1 DEF Pending, Tcp!Port!Pending
<1>6. TypeInv
  <2>1. /\ stage \in 0..(Slots + 1) /\ listening \in BOOLEAN /\ nextEpoch \in 1..(MaxPeers + 1)
        /\ nextSlot \in Clients /\ peers \in 0..MaxPeers
    BY <1>1, BoundsAre DEF Clients
  <2> QED
    BY <1>4, <2>1 DEF TypeInv, Tcp!TypeOK, Tcp!Clients, Clients, ClientType, SlotType
<1>7. SlotsInv /\ FlowInv /\ PortInv /\ TakenInv
  BY <1>4 DEF SlotsInv, FlowInv, PortInv, TakenInv
<1>8. EpochInv
  BY <1>1, <1>4, <1>5 DEF EpochInv
<1>9. IdleInv
  BY <1>1, NobodyIs DEF IdleInv
<1> QED
  BY <1>6, <1>7, <1>8, <1>9 DEF TcpInv

\* The other two listeners have nothing of this one's.
LEMMA OthersKeep ==
    ASSUME TcpInv, UNCHANGED tcpVars
    PROVE  TcpInv'
<1>1. UNCHANGED <<listening, nextEpoch, client, slot, fate, owned, peers>>
  BY DEF tcpVars
<1>2. stage' \in 0..(Slots + 1) /\ nextSlot' \in Clients /\ (listening \/ stage' = 0)
  BY TypeIs DEF tcpVars, TcpInv, EpochInv
<1> QED
  BY <1>1, <1>2, NothingHappens

\* Every step preserves the invariant.
LEMMA TcpStep ==
    ASSUME TcpInv, [Next]_vars
    PROVE  TcpInv'
<1>1. CASE Tcp!Next
  <2>1. CASE Tcp!AcceptOne
    BY <2>1, AcceptOneKeeps
  <2>2. CASE Tcp!AcceptNone \/ Tcp!DispatchRefused \/ Tcp!DispatchNone
    BY <2>2, PassesKeep
  <2>3. ASSUME NEW c \in Clients, Tcp!StepClient(c)
        PROVE  TcpInv'
    BY <2>3, StepClientKeeps
  <2>4. ASSUME NEW c \in Clients, Tcp!Leaves(c) \/ Tcp!Breaks(c)
        PROVE  TcpInv'
    BY <2>4, LeavesKeep
  <2>5. ASSUME NEW c \in Clients, Tcp!SkipClient(c)
        PROVE  TcpInv'
    BY <2>5, PassesKeep
  <2>6. CASE Tcp!DispatchAccepted
    BY <2>6, DispatchAcceptedKeeps
  <2>7. ASSUME NEW i \in 1..MaxId, Tcp!Answers(i)
        PROVE  TcpInv'
    BY <2>7, AnswersKeep
  <2>8. ASSUME NEW S \in SUBSET Pending, Tcp!Fails(S)
        PROVE  TcpInv'
    BY <2>8, FailsKeep
  <2>9. CASE Tcp!CloseListener \/ Tcp!OpenListener
    BY <2>9, CloseListenerKeeps, OpenListenerKeeps
  <2> QED
    BY <1>1, <2>1, <2>2, <2>3, <2>4, <2>5, <2>6, <2>7, <2>8, <2>9
       DEF Tcp!Next, Tcp!Clients, Clients, Pending
<1>2. CASE ~Tcp!Next
  <2>1. UNCHANGED tcpVars
    BY <1>2 DEF Next, ServesTcp, ServesUdp, ServesRaw, vars
  <2> QED
    BY <2>1, OthersKeep
<1> QED
  BY <1>1, <1>2

\* The inductive invariant holds of every behaviour.
THEOREM TcpInvariance == Spec => []TcpInv
<1>1. Init => TcpInv
  BY TcpInit DEF Init
<1>2. TcpInv /\ [Next]_vars => TcpInv'
  BY TcpStep
<1> QED
  BY <1>1, <1>2, PTL DEF Spec

\* What the invariant says of the answers.
LEMMA FlowAnswers ==
    ASSUME TcpInv
    PROVE  TcpAnswersHold
<1>1. ASSUME NEW c \in Clients
      PROVE  /\ \A j \in 1..Len(client[c].tx) : /\ client[c].tx[j].peer = client[c].peer
                                                /\ client[c].last < client[c].tx[j].n
                                                /\ client[c].tx[j].n <= client[c].read
             /\ \A j, k \in 1..Len(client[c].tx) : j < k => client[c].tx[j].n < client[c].tx[k].n
  <2>1. CASE client[c].peer = 0
    <3>1. client[c].tx = << >>
      BY <2>1 DEF TcpInv, IdleInv
    <3> QED
      BY <3>1
  <2>2. CASE client[c].peer # 0
    <3>1. PICK s \in Clients : slot[s].id = c
      BY <2>2 DEF TcpInv, SlotsInv
    <3>2. c # 0
      BY BoundsAre DEF Clients
    <3>3. FlowOK(client[c], slot[s].queue)
      BY <3>1, <3>2 DEF TcpInv, FlowInv
    <3>4. Dispatched(client[c], slot[s].queue) <= client[c].read
      <4>1. client[c] \in ClientType /\ slot[s].queue \in Seq(Tcp!Requests)
        BY TypeIs DEF TcpInv, SlotType
      <4>2. client[c].read \in Nat /\ client[c].rx \in Nat /\ Len(slot[s].queue) \in Nat
        BY SMTT(60), <4>1, BoundsAre DEF ClientType
      <4> QED
        BY <4>2 DEF Dispatched
    <3>5. \A j \in 1..Len(client[c].tx) : client[c].tx[j].n <= client[c].read
      <4> TAKE j \in 1..Len(client[c].tx)
      <4>1. client[c] \in ClientType
        BY TypeIs DEF TcpInv
      <4>2. client[c].tx[j] \in Tcp!Requests /\ client[c].read \in Int
        BY <4>1, BoundsAre DEF ClientType
      <4>3. client[c].tx[j].n \in Int
        BY <4>2, BoundsAre DEF Tcp!Requests
      <4>4. client[c].tx[j].n <= Dispatched(client[c], slot[s].queue)
            /\ Dispatched(client[c], slot[s].queue) \in Int
        BY <3>3 DEF FlowOK
      <4> QED
        BY <3>4, <4>2, <4>3, <4>4
    <3> QED
      BY <3>3, <3>5 DEF FlowOK
  <2> QED
    BY <2>1, <2>2
<1>2. \A c \in Clients : DOMAIN client[c].tx = 1..Len(client[c].tx)
  <2>1. \A c \in Clients : client[c].tx \in Seq(Tcp!Requests)
    BY TypeIs DEF TcpInv, ClientType
  <2> QED
    BY <2>1
<1>3. Tcp!AnswersTheAsker
  BY <1>1, <1>2 DEF Tcp!AnswersTheAsker, Tcp!Clients, Clients
<1>4. Tcp!AnswersInOrder
  BY <1>1, <1>2 DEF Tcp!AnswersInOrder, Tcp!Clients, Clients
<1> QED
  BY <1>3, <1>4 DEF TcpInv, TypeInv, TcpAnswersHold

\* An answer goes to the connection that asked and to no later one in its place, and a
\* connection gets its answers in the order of its requests, each once
\* (modbus_tcp_listener_queue_response, current_client, the dispatcher).
THEOREM AnswersHold == Spec => []TcpAnswersHold
BY TcpInvariance, FlowAnswers, PTL

\* The dispatcher has a slot for exactly the open connections, so connect never fails
\* for a client the listener has room for (close_client, accept_one).
THEOREM SlotsHold == Spec => []SlotsAgree
<1>1. TcpInv => SlotsAgree
  <2> SUFFICES ASSUME TcpInv, NEW c \in Clients
               PROVE  IF client[c].peer # 0
                      THEN \E s \in Clients : /\ {t \in Clients : slot[t].id = c} = {s}
                                              /\ slot[s].epoch = client[c].epoch
                      ELSE {t \in Clients : slot[t].id = c} = {}
    BY DEF SlotsAgree, Tcp!SlotsAgree, Tcp!Connected, Tcp!SlotsOf, Tcp!Clients, Clients
  <2>1. c # 0
    BY BoundsAre DEF Clients
  <2>2. CASE client[c].peer # 0
    <3>1. PICK s \in Clients : slot[s].id = c
      BY <2>2 DEF TcpInv, SlotsInv
    <3>2. {t \in Clients : slot[t].id = c} = {s} /\ slot[s].epoch = client[c].epoch
      BY <2>1, <3>1 DEF TcpInv, SlotsInv
    <3> QED
      BY <2>2, <3>2
  <2>3. CASE client[c].peer = 0
    BY <2>1, <2>3 DEF TcpInv, SlotsInv
  <2> QED
    BY <2>2, <2>3
<1> QED
  BY <1>1, TcpInvariance, PTL

\* All a client asked that leaves as served was resolved.
LEMMA LeavesServed ==
    ASSUME TcpInv, NEW c \in Clients, Tcp!Leaves(c), NEW n \in 1..client[c].read
    PROVE  \E i \in 1..MaxId :
              owned[i].request = [peer |-> client[c].peer, n |-> n] /\ i \notin Pending
<1>1. PICK s \in Tcp!SlotsOf(c) : \E w \in Tcp!Handled(Tcp!Pair(c, s)) : Tcp!Served(c, w)
  BY DEF Tcp!Leaves
<1>2. PICK w \in Tcp!Handled(Tcp!Pair(c, s)) : Tcp!Served(c, w)
  BY <1>1
<1>3. PICK x : x = Tcp!Pair(c, s)
  OBVIOUS
<1>4. s \in Clients /\ slot[s].id = c /\ c # 0 /\ client[c].peer # 0
  BY BoundsAre DEF Tcp!SlotsOf, Tcp!Clients, Clients, Tcp!Leaves, Tcp!Connected
<1>5. /\ client[c] \in ClientType /\ slot[s].queue \in Seq(Tcp!Requests)
      /\ Len(client[c].tx) <= TxMax /\ Len(slot[s].queue) <= ClientQueueMax
  BY <1>4, TypeIs DEF TcpInv, SlotType
<1>6. x.of = client[c] /\ x.queue = slot[s].queue /\ x \in PairType
  BY <1>3, <1>5 DEF Tcp!Pair, PairType
<1>7. PairOK(x)
  BY <1>4, <1>5, <1>6 DEF PairOK, TcpInv, FlowInv
<1>8. Later(x, w) /\ Drained(w)
  BY <1>2, <1>3, <1>7, HandledIs
<1>9. w.queue = << >> /\ \A i \in Pending : ~(owned[i].id = c /\ owned[i].epoch = w.of.epoch)
  BY <1>2 DEF Tcp!Served, Tcp!HasCoreWork, Pending
<1>10. w.of.epoch = client[c].epoch /\ w.of.read >= client[c].read
       /\ Dispatched(w.of, w.queue) = Dispatched(client[c], slot[s].queue)
  BY <1>6, <1>8 DEF Later
<1>11. Dispatched(w.of, w.queue) = w.of.read
  <2>1. Len(w.queue) = 0 /\ w.of.rx = 0 /\ w.of.read \in Int
    BY <1>8, <1>9, PairIs, EmptySeq DEF Drained, Later
  <2> QED
    BY <2>1 DEF Dispatched
<1>12. n \in 1..Dispatched(client[c], slot[s].queue)
  <2>1. w.of.read \in Nat /\ client[c].read \in Nat
    BY <1>6, <1>7, <1>8, PairIs DEF Later
  <2> QED
    BY <1>10, <1>11, <2>1
<1>13. PICK i \in 1..MaxId :
          /\ owned[i].request = [peer |-> client[c].peer, n |-> n]
          /\ i \in Pending => Asks(i, s)
  BY <1>4, <1>12 DEF TcpInv, TakenInv
<1>14. slot[s].epoch = client[c].epoch
  BY <1>4 DEF TcpInv, SlotsInv
<1>15. i \notin Pending
  BY <1>4, <1>9, <1>10, <1>13, <1>14 DEF Asks
<1> QED
  BY <1>13, <1>15

\* A peer that closed its sending side is dropped as served only when each of its requests
\* was resolved by the port (client_has_core_work, and the condition in step_io).
THEOREM HalfClosedIsServed == Spec => HalfClosedServed
<1>1. TcpInv => [ \A c \in Tcp!Clients :
                     Tcp!Leaves(c) =>
                       \A n \in 1..client[c].read : \E i \in 1..MaxId :
                         owned[i].request = [peer |-> client[c].peer, n |-> n]
                         /\ i \notin Tcp!Port!Pending ]_Tcp!vars
  <2> SUFFICES ASSUME TcpInv, NEW c \in Tcp!Clients, Tcp!Leaves(c), NEW n \in 1..client[c].read
               PROVE  \E i \in 1..MaxId : /\ owned[i].request = [peer |-> client[c].peer, n |-> n]
                                           /\ i \notin Tcp!Port!Pending
    OBVIOUS
  <2>1. c \in Clients
    BY DEF Tcp!Clients, Clients
  <2>2. \E i \in 1..MaxId :
           owned[i].request = [peer |-> client[c].peer, n |-> n] /\ i \notin Pending
    BY <2>1, LeavesServed
  <2> QED
    BY <2>2 DEF Pending
<1> QED
  BY <1>1, TcpInvariance, PTL DEF HalfClosedServed, Tcp!HalfClosedServed

-----------------------------------------------------------------------------
(* The raw listener: the inductive invariant. *)

Byte == [after: Nat, waited: BOOLEAN]

\* What owner o may be sent: what arrived in its time, or in the step that made it the owner.
For(o) == {b \in Byte : b.after = o \/ (b.after = o - 1 /\ ~b.waited)}

RawTypeInv ==
    /\ Raw!TypeOK
    /\ tx \in Seq(Nat) /\ output \in Seq(Nat) /\ rx \in Seq(Byte) /\ input \in Seq(Byte)

\* An owned UART has nothing of anybody else, in any queue.
OwnedInv ==
    owner # 0 => /\ ~flushPending /\ owner = sessions
                 /\ tx \in Seq({owner}) /\ output \in Seq({owner})
                 /\ rx \in Seq(For(owner)) /\ input \in Seq(For(owner))

\* A UART that is not owned, and was flushed, has only what arrived since.
UnownedInv ==
    owner = 0 => /\ tx = << >> /\ rx = << >>
                 /\ ~flushPending => /\ output = << >>
                                     /\ input \in Seq({b \in Byte : b.after = sessions})

\* A step goes on only after the flush; it ends the quiet time only when nothing waits.
QuietInv ==
    /\ at # "between" => ~flushPending
    /\ at = "receive" /\ owner = 0 /\ ~guard => input \in Seq({b \in Byte : ~b.waited})

RawInv == RawTypeInv /\ OwnedInv /\ UnownedInv /\ QuietInv
-----------------------------------------------------------------------------
(* Lemmas about queues. *)

\* What is taken off a queue, and what is left.
LEMMA CutIs ==
    ASSUME NEW S, NEW q \in Seq(S), NEW n \in 0..Len(q)
    PROVE  /\ SubSeq(q, 1, n) \in Seq(S) /\ Len(SubSeq(q, 1, n)) = n
           /\ SubSeq(q, n + 1, Len(q)) \in Seq(S) /\ Len(SubSeq(q, n + 1, Len(q))) = Len(q) - n
<1>1. Len(q) \in Nat /\ n \in Nat /\ n <= Len(q)
  BY LenProperties
<1>2. \A i \in 1..Len(q) : q[i] \in S
  BY ElementOfSeq
<1>3. (\A i \in 1..n : q[i] \in S) /\ (\A i \in (n + 1)..Len(q) : q[i] \in S)
  BY <1>1, <1>2
<1>4. SubSeq(q, 1, n) \in Seq(S) /\ Len(SubSeq(q, 1, n)) = IF 1 <= n THEN n - 1 + 1 ELSE 0
  BY <1>1, <1>3, SubSeqProperties
<1>5. /\ SubSeq(q, n + 1, Len(q)) \in Seq(S)
      /\ Len(SubSeq(q, n + 1, Len(q))) = IF n + 1 <= Len(q) THEN Len(q) - (n + 1) + 1 ELSE 0
  BY <1>1, <1>3, SubSeqProperties
<1> QED
  BY <1>1, <1>4, <1>5

\* The same for every sort of thing the queue holds.
LEMMA CutOf ==
    ASSUME NEW S, NEW T, NEW q \in Seq(T), q \in Seq(S), NEW n \in 0..Len(q)
    PROVE  SubSeq(q, 1, n) \in Seq(S) /\ SubSeq(q, n + 1, Len(q)) \in Seq(S)
BY CutIs

\* A queue of some things holds those things.
LEMMA SeqOf ==
    ASSUME NEW S, NEW T, S \subseteq T, NEW q \in Seq(S)
    PROVE  q \in Seq(T)
<1>1. Len(q) \in Nat /\ q \in [1..Len(q) -> S]
  BY LenProperties
<1>2. q \in [1..Len(q) -> T]
  BY <1>1
<1> QED
  BY <1>1, <1>2

\* A queue is one of the things in it.
LEMMA SeqFrom ==
    ASSUME NEW S, NEW T, NEW q \in Seq(T), \A i \in 1..Len(q) : q[i] \in S
    PROVE  q \in Seq(S)
<1>1. Len(q) \in Nat /\ q \in [1..Len(q) -> T]
  BY LenProperties
<1>2. q \in [1..Len(q) -> S]
  BY <1>1
<1> QED
  BY <1>1, <1>2

\* The bounds of the raw listener.
LEMMA RawBounds ==
    BufferSize \in Nat \ {0} /\ DriverMax \in Nat \ {0} /\ MaxSessions \in Nat \ {0}
BY TransportsAssumption

-----------------------------------------------------------------------------
(* The raw listener: the steps preserve the invariant. *)

\* An empty queue holds only what one likes.
LEMMA Empty == /\ Len(<< >>) = 0 /\ \A S : << >> \in Seq(S)
BY EmptySeq

\* The driver's queues are emptied, or stay as they are.
LEMMA QueuesAre ==
    ASSUME RawInv, \/ input' = << >> /\ output' = << >>
                   \/ input' = input /\ output' = output
    PROVE  /\ input' \in Seq(Byte) /\ Len(input') <= DriverMax
           /\ output' \in Seq(Nat) /\ Len(output') <= DriverMax
<1>1. CASE input' = << >> /\ output' = << >>
  <2>1. 0 <= DriverMax
    BY RawBounds
  <2> QED
    BY <1>1, <2>1, Empty
<1>2. CASE input' = input /\ output' = output
  BY <1>2 DEF RawInv, RawTypeInv, Raw!TypeOK
<1> QED
  BY <1>1, <1>2

\* The end of an owner: nothing is left of it, or the flush is pending.
LEMMA ReleasedKeeps ==
    ASSUME RawInv, Raw!Cleared, UNCHANGED sessions,
           \/ Raw!Flushes /\ flushPending' = FALSE
           \/ flushPending' = TRUE /\ UNCHANGED <<input, output>>
           \/ /\ owner = 0 /\ ~flushPending /\ flushPending' = FALSE
              /\ UNCHANGED <<input, output>>,
           at' \in {"between", "read", "receive", "write", "send"},
           at' # "between" => ~flushPending',
           bound' \in BOOLEAN, datagrams' \in BOOLEAN, port' \in {"ready", "recovering"}
    PROVE  RawInv'
<1>1. /\ owner' = 0 /\ eof' = FALSE /\ tx' = << >> /\ rx' = << >> /\ guard' = TRUE
      /\ flushPending' \in BOOLEAN /\ sessions' = sessions
  BY DEF Raw!Cleared
<1>2. \/ input' = << >> /\ output' = << >>
      \/ input' = input /\ output' = output
  BY DEF Raw!Flushes
<1>3. RawTypeInv'
  <2>1. /\ tx' \in Seq(Nat) /\ Len(tx') <= BufferSize /\ rx' \in Seq(Byte) /\ Len(rx') <= BufferSize
    BY <1>1, Empty, RawBounds
  <2>2. /\ input' \in Seq(Byte) /\ Len(input') <= DriverMax
        /\ output' \in Seq(Nat) /\ Len(output') <= DriverMax
    BY <1>2, QueuesAre
  <2>3. /\ sessions' \in 0..MaxSessions /\ owner' \in {0, sessions'} /\ eof' \in BOOLEAN
        /\ guard' \in BOOLEAN
    BY <1>1 DEF RawInv, RawTypeInv, Raw!TypeOK
  <2> QED
    BY <1>1, <2>1, <2>2, <2>3 DEF RawTypeInv, Raw!TypeOK
<1>4. OwnedInv'
  BY <1>1 DEF OwnedInv
<1>5. UnownedInv'
  BY <1>1, Empty DEF RawInv, UnownedInv, Raw!Flushes
<1>6. QuietInv'
  BY <1>1 DEF QuietInv
<1> QED
  BY <1>3, <1>4, <1>5, <1>6 DEF RawInv

\* How a boundary is flushed: nothing is left, or the flush is pending and the port recovers.
LEMMA FlushedIs ==
    ASSUME RawInv, Raw!FlushBoundary(owner # 0 \/ flushPending)
    PROVE  /\ \/ Raw!Flushes /\ flushPending' = FALSE
              \/ flushPending' = TRUE /\ UNCHANGED <<input, output>>
              \/ /\ owner = 0 /\ ~flushPending /\ flushPending' = FALSE
                 /\ UNCHANGED <<input, output>>
           /\ port' \in {"ready", "recovering"} /\ (port' = "ready" => ~flushPending')
BY DEF Raw!FlushBoundary, RawInv, RawTypeInv, Raw!TypeOK

\* Steps that end with the release of the owner.
LEMMA ReleaseKeeps ==
    ASSUME RawInv, Raw!Expires \/ Raw!SerialFails \/ Raw!Breaks \/ Raw!Close
    PROVE  RawInv'
<1>1. /\ at \in {"between", "read", "receive", "write", "send"} /\ bound \in BOOLEAN
      /\ datagrams \in BOOLEAN
  BY DEF RawInv, RawTypeInv, Raw!TypeOK
<1>2. CASE Raw!Expires \/ Raw!Breaks
  <2>1. Raw!Release /\ UNCHANGED <<sessions, bound, datagrams>>
    BY <1>2 DEF Raw!Expires, Raw!Breaks, Raw!Steps
  <2>2. /\ at' \in {"between", "read", "receive", "write", "send"}
        /\ at' # "between" => port' = "ready"
    BY <1>2 DEF Raw!Expires, Raw!Breaks, Raw!GoesOn
  <2> QED
    BY <1>1, <2>1, <2>2, FlushedIs, ReleasedKeeps DEF Raw!Release
<1>3. CASE Raw!Close
  <2>1. Raw!Release /\ UNCHANGED <<sessions, datagrams, at>> /\ bound' = FALSE /\ at = "between"
    BY <1>3 DEF Raw!Close
  <2> QED
    BY <1>1, <2>1, FlushedIs, ReleasedKeeps DEF Raw!Release
<1>4. CASE Raw!SerialFails
  <2>1. /\ Raw!ReleaseAndFault /\ at' = "between"
        /\ UNCHANGED <<sessions, bound, datagrams>>
    BY <1>4 DEF Raw!SerialFails, Raw!Steps
  <2>2. /\ \/ Raw!Flushes /\ flushPending' = FALSE
           \/ flushPending' = TRUE /\ UNCHANGED <<input, output>>
           \/ /\ owner = 0 /\ ~flushPending /\ flushPending' = FALSE
              /\ UNCHANGED <<input, output>>
        /\ port' \in {"ready", "recovering"} /\ Raw!Cleared
    BY <2>1 DEF Raw!ReleaseAndFault, RawInv, RawTypeInv, Raw!TypeOK
  <2> QED
    BY <1>1, <2>1, <2>2, ReleasedKeeps
<1> QED
  BY <1>2, <1>3, <1>4

\* A flush that failed is tried again: the UART is not owned.
LEMMA FlushAgainKeeps ==
    ASSUME RawInv, Raw!FlushAgain
    PROVE  RawInv'
<1>1. /\ flushPending /\ owner = 0 /\ tx = << >> /\ rx = << >>
      /\ UNCHANGED <<bound, datagrams, owner, eof, tx, rx, sessions>>
      /\ guard' \in BOOLEAN
  BY DEF Raw!FlushAgain, Raw!Steps, RawInv, RawTypeInv, Raw!TypeOK, OwnedInv, UnownedInv
<1>2. /\ \/ Raw!Flushes /\ flushPending' = FALSE
         \/ flushPending' = TRUE /\ UNCHANGED <<input, output>> /\ port' = "recovering"
      /\ port' \in {"ready", "recovering"} /\ flushPending' \in BOOLEAN
  BY DEF Raw!FlushAgain, Raw!FlushBoundary, RawInv, RawTypeInv, Raw!TypeOK
<1>3. /\ at' \in {"between", "read"} /\ (at' # "between" => port' = "ready")
  BY DEF Raw!FlushAgain, Raw!GoesOn
<1>4. \/ input' = << >> /\ output' = << >>
      \/ input' = input /\ output' = output
  BY <1>2 DEF Raw!Flushes
<1>5. RawTypeInv'
  <2>1. /\ tx' \in Seq(Nat) /\ Len(tx') <= BufferSize /\ rx' \in Seq(Byte) /\ Len(rx') <= BufferSize
    BY <1>1, Empty, RawBounds DEF RawInv, RawTypeInv, Raw!TypeOK
  <2>2. /\ input' \in Seq(Byte) /\ Len(input') <= DriverMax
        /\ output' \in Seq(Nat) /\ Len(output') <= DriverMax
    BY <1>4, QueuesAre
  <2>3. /\ sessions' \in 0..MaxSessions /\ owner' \in {0, sessions'} /\ eof' \in BOOLEAN
        /\ guard' \in BOOLEAN
    BY <1>1 DEF RawInv, RawTypeInv, Raw!TypeOK
  <2> QED
    BY <1>1, <1>2, <1>3, <2>1, <2>2, <2>3 DEF RawInv, RawTypeInv, Raw!TypeOK
<1>6. OwnedInv'
  BY <1>1 DEF OwnedInv
<1>7. UnownedInv'
  BY <1>1, <1>2, Empty DEF UnownedInv, Raw!Flushes
<1>8. QuietInv'
  BY <1>2, <1>3 DEF QuietInv
<1> QED
  BY <1>5, <1>6, <1>7, <1>8 DEF RawInv

\* What a byte is once a step began: it waited if nobody owned the UART.
LEMMA WaitedIs ==
    ASSUME NEW b \in Byte
    PROVE  LET w == [b EXCEPT !.waited = @ \/ owner = 0]
           IN  w \in Byte /\ w.after = b.after /\ (owner # 0 => w = b)
<1>1. CASE b.waited = TRUE
  BY <1>1 DEF Byte
<1>2. CASE b.waited = FALSE
  BY <1>2 DEF Byte
<1> QED
  BY <1>1, <1>2 DEF Byte

\* A step begins.
LEMMA BeginKeeps ==
    ASSUME RawInv, Raw!Begin
    PROVE  RawInv'
<1>1. /\ at' = "read" /\ ~flushPending /\ input' = Raw!Waited(input)
      /\ UNCHANGED <<bound, datagrams, owner, eof, guard, flushPending, tx, rx, output, port,
                     sessions>>
  BY DEF Raw!Begin, Raw!Steps
<1>2. input \in Seq(Byte) /\ Len(input) \in Nat /\ DOMAIN input = 1..Len(input)
  BY LenProperties DEF RawInv, RawTypeInv
<1>3. input' = [i \in 1..Len(input) |-> [input[i] EXCEPT !.waited = @ \/ owner = 0]]
  BY <1>1, <1>2 DEF Raw!Waited
<1>4. \A i \in 1..Len(input) : input[i] \in Byte
  BY <1>2, ElementOfSeq
<1>5. \A i \in 1..Len(input) : /\ input'[i] \in Byte /\ input'[i].after = input[i].after
                               /\ owner # 0 => input'[i] = input[i]
  <2> TAKE i \in 1..Len(input)
  <2>1. input'[i] = [input[i] EXCEPT !.waited = @ \/ owner = 0]
    BY <1>3
  <2> QED
    BY <1>4, <2>1, WaitedIs
<1>6. input' \in Seq(Byte) /\ Len(input') = Len(input)
  <2>1. input' \in [1..Len(input) -> Byte]
    BY <1>3, <1>5
  <2> QED
    BY <1>2, <2>1
<1>7. RawTypeInv'
  BY <1>1, <1>6 DEF RawInv, RawTypeInv, Raw!TypeOK
<1>8. OwnedInv'
  <2> SUFFICES ASSUME owner # 0 PROVE input' \in Seq(For(owner))
    BY <1>1 DEF RawInv, OwnedInv
  <2>1. input \in Seq(For(owner))
    BY DEF RawInv, OwnedInv
  <2>2. \A i \in 1..Len(input) : input[i] \in For(owner)
    BY <2>1, ElementOfSeq
  <2>3. \A i \in 1..Len(input') : input'[i] \in For(owner)
    BY <1>5, <1>6, <2>2
  <2> QED
    BY <1>6, <2>3, SeqFrom
<1>9. UnownedInv'
  <2> SUFFICES ASSUME owner = 0 PROVE input' \in Seq({b \in Byte : b.after = sessions})
    BY <1>1 DEF RawInv, UnownedInv
  <2>1. input \in Seq({b \in Byte : b.after = sessions})
    BY <1>1 DEF RawInv, UnownedInv
  <2>2. \A i \in 1..Len(input) : input[i] \in {b \in Byte : b.after = sessions}
    BY <2>1, ElementOfSeq
  <2>3. \A i \in 1..Len(input') : input'[i] \in {b \in Byte : b.after = sessions}
    BY <1>5, <1>6, <2>2
  <2> QED
    BY <1>6, <2>3, SeqFrom
<1>10. QuietInv'
  BY <1>1 DEF QuietInv
<1> QED
  BY <1>7, <1>8, <1>9, <1>10 DEF RawInv
\* What the UART gave is kept for the owner, or dropped.
LEMMA ReadSerialKeeps ==
    ASSUME RawInv, Raw!ReadSerial
    PROVE  RawInv'
<1>1. /\ at = "read" /\ at' = "receive"
      /\ UNCHANGED <<bound, datagrams, owner, eof, flushPending, tx, output, port, sessions>>
  BY DEF Raw!ReadSerial, Raw!Steps
<1>2. PICK n \in 1..Len(input) :
         /\ owner # 0 => n <= BufferSize - Len(rx)
         /\ input' = SubSeq(input, n + 1, Len(input))
         /\ IF owner # 0 THEN rx' = rx \o SubSeq(input, 1, n) /\ UNCHANGED guard
            ELSE guard' = TRUE /\ UNCHANGED rx
  BY DEF Raw!ReadSerial
<1>3. /\ input \in Seq(Byte) /\ rx \in Seq(Byte) /\ Len(rx) \in Nat /\ Len(input) \in Nat
      /\ Len(input) <= DriverMax /\ Len(rx) <= BufferSize /\ n \in 0..Len(input)
      /\ guard \in BOOLEAN
  BY LenProperties DEF RawInv, RawTypeInv, Raw!TypeOK
<1>4. /\ SubSeq(input, 1, n) \in Seq(Byte) /\ Len(SubSeq(input, 1, n)) = n
      /\ input' \in Seq(Byte) /\ Len(input') = Len(input) - n
  BY <1>2, <1>3, CutIs
<1>5. rx' \in Seq(Byte) /\ Len(rx') <= BufferSize /\ guard' \in BOOLEAN
  <2>1. CASE owner # 0
    <3>1. rx' \in Seq(Byte) /\ Len(rx') = Len(rx) + n
      <4>1. rx' = rx \o SubSeq(input, 1, n)
        BY <1>2, <2>1
      <4>2. PICK q \in Seq(Byte) : q = SubSeq(input, 1, n) /\ Len(q) = n
        BY <1>4
      <4> QED
        BY <1>3, <4>1, <4>2, ConcatProperties
    <3>2. n <= BufferSize - Len(rx)
      BY <1>2, <2>1
    <3> QED
      BY <1>2, <1>3, <2>1, <3>1, <3>2, RawBounds
  <2>2. CASE owner = 0
    BY <1>2, <1>3, <2>2
  <2> QED
    BY <2>1, <2>2
<1>6. RawTypeInv'
  <2>1. Len(input') <= DriverMax
    BY <1>3, <1>4, RawBounds
  <2> QED
    BY <1>1, <1>4, <1>5, <2>1 DEF RawInv, RawTypeInv, Raw!TypeOK
<1>7. OwnedInv'
  <2> SUFFICES ASSUME owner # 0
               PROVE  rx' \in Seq(For(owner)) /\ input' \in Seq(For(owner))
    BY <1>1 DEF RawInv, OwnedInv
  <2>1. input \in Seq(For(owner)) /\ rx \in Seq(For(owner))
    BY DEF RawInv, OwnedInv
  <2>2. SubSeq(input, 1, n) \in Seq(For(owner)) /\ input' \in Seq(For(owner))
    BY <1>2, <1>3, <2>1, CutOf
  <2> QED
    BY ZenonT(60), <1>2, <2>1, <2>2, ConcatProperties
<1>8. UnownedInv'
  <2> SUFFICES ASSUME owner = 0, ~flushPending
               PROVE  input' \in Seq({b \in Byte : b.after = sessions})
    BY <1>1, <1>2 DEF RawInv, UnownedInv
  <2>1. input \in Seq({b \in Byte : b.after = sessions})
    BY DEF RawInv, UnownedInv
  <2> QED
    BY <1>2, <1>3, <2>1, CutOf
<1>9. QuietInv'
  BY <1>1, <1>2 DEF RawInv, QuietInv
<1> QED
  BY <1>6, <1>7, <1>8, <1>9 DEF RawInv

\* Nothing was read: the quiet time ends only when nothing was there.
LEMMA ReadNothingKeeps ==
    ASSUME RawInv, Raw!ReadNothing
    PROVE  RawInv'
<1>1. /\ at = "read" /\ at' = "receive"
      /\ UNCHANGED <<bound, datagrams, owner, eof, flushPending, tx, rx, input, output, port,
                     sessions>>
  BY DEF Raw!ReadNothing, Raw!Steps
<1>2. guard' \in BOOLEAN /\ (owner = 0 => guard' = TRUE \/ input = << >>)
  BY DEF Raw!ReadNothing, Raw!QuietMayEnd, RawInv, RawTypeInv, Raw!TypeOK
<1>3. RawTypeInv'
  BY <1>1, <1>2 DEF RawInv, RawTypeInv, Raw!TypeOK
<1>4. OwnedInv' /\ UnownedInv'
  BY <1>1 DEF RawInv, OwnedInv, UnownedInv
<1>5. QuietInv'
  BY <1>1, <1>2, Empty DEF RawInv, QuietInv
<1> QED
  BY <1>3, <1>4, <1>5 DEF RawInv

\* Copies of an owner's number.
LEMMA CopiesAre ==
    ASSUME NEW n \in Nat, owner' \in Nat
    PROVE  /\ Raw!Copies(n) \in Seq({owner'}) /\ Raw!Copies(n) \in Seq(Nat)
           /\ Len(Raw!Copies(n)) = n
BY DEF Raw!Copies

\* The first peer becomes the owner: what is in the input queue is its own.
LEMMA AcquiresKeeps ==
    ASSUME RawInv, Raw!Acquires
    PROVE  RawInv'
<1>1. /\ at = "receive" /\ at' = "write" /\ owner = 0 /\ ~guard /\ sessions < MaxSessions
      /\ sessions' = sessions + 1 /\ owner' = sessions + 1
      /\ UNCHANGED <<bound, datagrams, guard, flushPending, rx, input, output, port>>
  BY DEF Raw!Acquires, Raw!Steps
<1>2. PICK n \in 0..BufferSize :
         /\ IF datagrams THEN n > 0 /\ eof' = FALSE ELSE eof' \in {FALSE, n = 0}
         /\ tx' = Raw!Copies(n)
  BY DEF Raw!Acquires
<1>3. /\ sessions \in Nat /\ sessions' \in 0..MaxSessions /\ owner' \in Nat /\ owner' # 0
      /\ owner' = sessions' /\ owner' - 1 = sessions /\ n \in Nat /\ n <= BufferSize
  BY <1>1, RawBounds DEF RawInv, RawTypeInv, Raw!TypeOK
<1>4. tx' \in Seq({owner'}) /\ tx' \in Seq(Nat) /\ Len(tx') <= BufferSize
  BY <1>2, <1>3, CopiesAre
<1>5. eof' \in BOOLEAN
  BY <1>2
<1>6. /\ rx = << >> /\ ~flushPending /\ output = << >>
      /\ input \in Seq({b \in Byte : b.after = sessions})
      /\ input \in Seq({b \in Byte : ~b.waited})
  BY <1>1 DEF RawInv, UnownedInv, QuietInv
<1>7. RawTypeInv'
  BY <1>1, <1>3, <1>4, <1>5 DEF RawInv, RawTypeInv, Raw!TypeOK
<1>8. OwnedInv'
  <2>1. input \in Seq(Byte)
    BY DEF RawInv, RawTypeInv
  <2>2. /\ \A i \in 1..Len(input) : input[i] \in {b \in Byte : b.after = sessions}
        /\ \A i \in 1..Len(input) : input[i] \in {b \in Byte : ~b.waited}
    BY <1>6, ElementOfSeq
  <2>3. \A i \in 1..Len(input) : input[i] \in For(owner')
    BY <1>3, <2>2 DEF For
  <2>4. input \in Seq(For(owner'))
    BY <2>1, <2>3, SeqFrom
  <2>5. output \in Seq({owner'}) /\ rx \in Seq(For(owner'))
    BY <1>6, Empty
  <2> QED
    BY <1>1, <1>3, <1>4, <1>6, <2>4, <2>5 DEF OwnedInv
<1>9. UnownedInv' /\ QuietInv'
  BY <1>1, <1>3, <1>6 DEF UnownedInv, QuietInv
<1> QED
  BY <1>7, <1>8, <1>9 DEF RawInv

\* The owner sends something.
LEMMA ReceivesKeeps ==
    ASSUME RawInv, Raw!Receives
    PROVE  RawInv'
<1>1. /\ at = "receive" /\ at' = "write" /\ owner # 0 /\ owner' = owner
      /\ UNCHANGED <<bound, datagrams, guard, flushPending, rx, input, output, port, sessions>>
  BY DEF Raw!Receives, Raw!Steps
<1>2. /\ tx \in Seq(Nat) /\ tx \in Seq({owner}) /\ Len(tx) \in Nat /\ Len(tx) <= BufferSize
      /\ owner' \in Nat
  BY <1>1, LenProperties, RawBounds DEF RawInv, RawTypeInv, Raw!TypeOK, OwnedInv
<1>3. /\ tx' \in Seq(Nat) /\ tx' \in Seq({owner}) /\ Len(tx') <= BufferSize /\ eof' \in BOOLEAN
  <2>1. CASE UNCHANGED tx
    BY <1>2, <2>1 DEF Raw!Receives, RawInv, RawTypeInv, Raw!TypeOK
  <2>2. CASE ~UNCHANGED tx
    <3>1. PICK n \in 1..(BufferSize - Len(tx)) : tx' = tx \o Raw!Copies(n) /\ UNCHANGED eof
      BY <2>2 DEF Raw!Receives
    <3>2. n \in Nat /\ Len(tx) + n <= BufferSize
      BY <1>2, RawBounds
    <3>3. Raw!Copies(n) \in Seq({owner}) /\ Raw!Copies(n) \in Seq(Nat) /\ Len(Raw!Copies(n)) = n
      BY <1>1, <1>2, <3>2, CopiesAre
    <3> QED
      BY <1>2, <3>1, <3>2, <3>3, ConcatProperties DEF RawInv, RawTypeInv, Raw!TypeOK
  <2> QED
    BY <2>1, <2>2
<1>4. RawTypeInv'
  BY <1>1, <1>3 DEF RawInv, RawTypeInv, Raw!TypeOK
<1>5. OwnedInv' /\ UnownedInv' /\ QuietInv'
  BY <1>1, <1>3 DEF RawInv, OwnedInv, UnownedInv, QuietInv
<1> QED
  BY <1>4, <1>5 DEF RawInv

\* Some of it goes to the UART.
LEMMA WriteSerialKeeps ==
    ASSUME RawInv, Raw!WriteSerial
    PROVE  RawInv'
<1>1. /\ at = "write" /\ at' = "send"
      /\ UNCHANGED <<bound, datagrams, owner, eof, guard, flushPending, rx, input, port, sessions>>
  BY DEF Raw!WriteSerial, Raw!Steps
<1>2. PICK n \in 0..Len(tx) :
         /\ Len(output) + n <= DriverMax
         /\ output' = output \o SubSeq(tx, 1, n)
         /\ tx' = SubSeq(tx, n + 1, Len(tx))
  BY DEF Raw!WriteSerial
<1>3. /\ tx \in Seq(Nat) /\ output \in Seq(Nat) /\ Len(tx) \in Nat /\ Len(tx) <= BufferSize
      /\ n \in Nat
  BY LenProperties DEF RawInv, RawTypeInv, Raw!TypeOK
<1>4. /\ SubSeq(tx, 1, n) \in Seq(Nat) /\ Len(SubSeq(tx, 1, n)) = n
      /\ tx' \in Seq(Nat) /\ Len(tx') = Len(tx) - n
  BY ZenonT(60), <1>2, <1>3, CutIs
<1>5. output' \in Seq(Nat) /\ Len(output') <= DriverMax /\ Len(tx') <= BufferSize
  <2>1. output' \in Seq(Nat) /\ Len(output') = Len(output) + n
    BY <1>2, <1>3, <1>4, ConcatProperties
  <2>2. Len(tx') <= BufferSize
    BY <1>3, <1>4, RawBounds
  <2> QED
    BY <1>2, <2>1, <2>2
<1>6. RawTypeInv'
  BY <1>1, <1>4, <1>5 DEF RawInv, RawTypeInv, Raw!TypeOK
<1>7. OwnedInv'
  <2> SUFFICES ASSUME owner # 0
               PROVE  tx' \in Seq({owner}) /\ output' \in Seq({owner})
    BY <1>1 DEF RawInv, OwnedInv
  <2>1. tx \in Seq({owner}) /\ output \in Seq({owner})
    BY DEF RawInv, OwnedInv
  <2>2. SubSeq(tx, 1, n) \in Seq({owner}) /\ tx' \in Seq({owner})
    BY <1>2, <1>3, <2>1, CutOf
  <2> QED
    BY <1>2, <2>1, <2>2, ConcatProperties
<1>8. UnownedInv'
  <2>1. owner = 0 => tx' = << >> /\ (~flushPending => output' = << >>)
    <3> SUFFICES ASSUME owner = 0
                 PROVE  tx' = << >> /\ (~flushPending => output' = << >>)
      OBVIOUS
    <3>1. tx = << >> /\ n = 0
      BY <1>2, Empty DEF RawInv, UnownedInv
    <3>2. Len(tx') = 0 /\ Len(SubSeq(tx, 1, n)) = 0
      BY <1>4, <3>1, Empty
    <3>3. tx' = << >> /\ SubSeq(tx, 1, n) = << >>
      BY <1>4, <3>2, EmptySeq
    <3>4. output' = output
      BY <1>2, <1>3, <3>3, ConcatEmptySeq
    <3> QED
      BY <3>3, <3>4 DEF RawInv, UnownedInv
  <2> QED
    BY <1>1, <2>1 DEF RawInv, UnownedInv
<1>9. QuietInv'
  BY <1>1 DEF RawInv, QuietInv
<1> QED
  BY <1>6, <1>7, <1>8, <1>9 DEF RawInv

\* Some of what the UART gave goes to the owner.
LEMMA SendKeeps ==
    ASSUME RawInv, Raw!Send
    PROVE  RawInv'
<1>1. /\ at = "send" /\ at' = "between"
      /\ UNCHANGED <<bound, datagrams, owner, eof, guard, flushPending, tx, input, output, port,
                     sessions>>
  BY DEF Raw!Send, Raw!Steps
<1>2. PICK n \in 0..Len(rx) : rx' = SubSeq(rx, n + 1, Len(rx))
  BY DEF Raw!Send
<1>3. rx \in Seq(Byte) /\ Len(rx) \in Nat /\ Len(rx) <= BufferSize /\ n \in Nat
  BY LenProperties DEF RawInv, RawTypeInv, Raw!TypeOK
<1>4. rx' \in Seq(Byte) /\ Len(rx') = Len(rx) - n
  BY <1>2, <1>3, CutIs
<1>5. RawTypeInv'
  <2>1. Len(rx') <= BufferSize
    BY <1>3, <1>4, RawBounds
  <2> QED
    BY <1>1, <1>4, <2>1 DEF RawInv, RawTypeInv, Raw!TypeOK
<1>6. OwnedInv'
  <2> SUFFICES ASSUME owner # 0
               PROVE  rx' \in Seq(For(owner))
    BY <1>1 DEF RawInv, OwnedInv
  <2>1. rx \in Seq(For(owner))
    BY DEF RawInv, OwnedInv
  <2> QED
    BY <1>2, <1>3, <2>1, CutOf
<1>7. UnownedInv'
  <2>1. owner = 0 => rx' = << >>
    <3> SUFFICES ASSUME owner = 0 PROVE rx' = << >>
      OBVIOUS
    <3>1. rx = << >> /\ n = 0
      BY <1>2, Empty DEF RawInv, UnownedInv
    <3>2. Len(rx') = 0
      BY <1>4, <3>1, Empty
    <3> QED
      BY <1>4, <3>2, EmptySeq
  <2> QED
    BY <1>1, <2>1 DEF RawInv, UnownedInv
<1>8. QuietInv'
  BY <1>1 DEF QuietInv
<1> QED
  BY <1>5, <1>6, <1>7, <1>8 DEF RawInv
\* The line, the port and the controller; and a receive that finds nothing.
LEMMA OutsideKeeps ==
    ASSUME RawInv, \/ Raw!ReceivesNothing \/ Raw!Arrives \/ Raw!Leaves
                   \/ Raw!PortRecovers \/ Raw!Open
    PROVE  RawInv'
<1>1. CASE Raw!ReceivesNothing
  <2>1. /\ at' = "write" /\ at = "receive"
        /\ UNCHANGED <<bound, datagrams, owner, eof, guard, flushPending, tx, rx, input, output,
                       port, sessions>>
    BY <1>1 DEF Raw!ReceivesNothing, Raw!Steps
  <2> QED
    BY <2>1 DEF RawInv, RawTypeInv, Raw!TypeOK, OwnedInv, UnownedInv, QuietInv
<1>2. CASE Raw!Arrives
  <2>1. /\ UNCHANGED <<bound, datagrams, at, owner, eof, guard, flushPending, tx, rx, output,
                       port, sessions>>
        /\ Len(input) < DriverMax
        /\ input' = Append(input, [after |-> sessions, waited |-> FALSE])
    BY <1>2 DEF Raw!Arrives, Raw!Steps
  <2>2. PICK b : b = [after |-> sessions, waited |-> FALSE]
    OBVIOUS
  <2>3. b \in Byte /\ b.after = sessions /\ ~b.waited
    BY <2>2, RawBounds DEF RawInv, RawTypeInv, Raw!TypeOK, Byte
  <2>4. \A S : b \in S /\ input \in Seq(S) => input' \in Seq(S) /\ Len(input') = Len(input) + 1
    BY <2>1, <2>2
  <2>5. RawTypeInv'
    <3>1. input \in Seq(Byte) /\ Len(input) \in Nat
      BY LenProperties DEF RawInv, RawTypeInv
    <3>2. input' \in Seq(Byte) /\ Len(input') <= DriverMax
      <4>1. input' \in Seq(Byte) /\ Len(input') = Len(input) + 1
        BY <2>3, <2>4, <3>1
      <4>2. \A l, m \in Nat : l < m => l + 1 <= m
        OBVIOUS
      <4> QED
        BY <2>1, <3>1, <4>1, <4>2, RawBounds
    <3> QED
      BY <2>1, <3>2 DEF RawInv, RawTypeInv, Raw!TypeOK
  <2>6. OwnedInv'
    <3>1. owner # 0 => b \in For(owner)
      BY <2>3 DEF RawInv, OwnedInv, For
    <3> QED
      BY <2>1, <2>4, <3>1 DEF RawInv, OwnedInv
  <2>7. UnownedInv' /\ QuietInv'
    BY <2>1, <2>3, <2>4 DEF RawInv, UnownedInv, QuietInv
  <2> QED
    BY <2>5, <2>6, <2>7 DEF RawInv
<1>3. CASE Raw!Leaves
  <2>1. /\ UNCHANGED <<bound, datagrams, at, owner, eof, guard, flushPending, tx, rx, input,
                       port, sessions>>
        /\ output # << >> /\ output' = Tail(output)
    BY <1>3 DEF Raw!Leaves, Raw!Steps
  <2>2. \A S : output \in Seq(S) => output' \in Seq(S) /\ Len(output') = Len(output) - 1
    BY <2>1, HeadTailProperties
  <2>3. RawTypeInv'
    <3>1. output \in Seq(Nat) /\ Len(output) \in Nat /\ Len(output) <= DriverMax
      BY LenProperties DEF RawInv, RawTypeInv, Raw!TypeOK
    <3>2. output' \in Seq(Nat) /\ Len(output') <= DriverMax
      BY <2>2, <3>1, RawBounds
    <3> QED
      BY <2>1, <3>2 DEF RawInv, RawTypeInv, Raw!TypeOK
  <2>4. OwnedInv' /\ UnownedInv' /\ QuietInv'
    BY <2>1, <2>2 DEF RawInv, OwnedInv, UnownedInv, QuietInv
  <2> QED
    BY <2>3, <2>4 DEF RawInv
<1>4. CASE Raw!PortRecovers
  <2>1. /\ UNCHANGED <<bound, datagrams, at, owner, eof, guard, flushPending, tx, rx, output,
                       sessions>>
        /\ input' = << >> /\ port' = "ready" /\ at = "between"
    BY <1>4 DEF Raw!PortRecovers, Raw!Steps
  <2>2. Len(input') <= DriverMax
    BY <2>1, Empty, RawBounds
  <2>3. RawTypeInv'
    BY <2>1, <2>2, Empty DEF RawInv, RawTypeInv, Raw!TypeOK
  <2>4. OwnedInv' /\ UnownedInv' /\ QuietInv'
    BY <2>1, Empty DEF RawInv, OwnedInv, UnownedInv, QuietInv
  <2> QED
    BY <2>3, <2>4 DEF RawInv
<1>5. CASE Raw!Open
  <2>1. /\ UNCHANGED <<at, owner, eof, flushPending, tx, rx, input, output, port, sessions>>
        /\ at = "between" /\ bound' = TRUE /\ datagrams' \in BOOLEAN /\ guard' = FALSE
    BY <1>5 DEF Raw!Open
  <2> QED
    BY <2>1 DEF RawInv, RawTypeInv, Raw!TypeOK, OwnedInv, UnownedInv, QuietInv
<1> QED
  BY <1>1, <1>2, <1>3, <1>4, <1>5

\* Every step preserves the invariant.
LEMMA RawStep ==
    ASSUME RawInv, [Next]_vars
    PROVE  RawInv'
<1>1. CASE Raw!Next
  BY <1>1, FlushAgainKeeps, BeginKeeps, ReleaseKeeps, ReadSerialKeeps, ReadNothingKeeps,
     AcquiresKeeps, ReceivesKeeps, WriteSerialKeeps, SendKeeps, OutsideKeeps DEF Raw!Next
<1>2. CASE ~Raw!Next
  <2>1. UNCHANGED rawVars
    BY <1>2 DEF Next, ServesTcp, ServesUdp, ServesRaw, vars
  <2> QED
    BY <2>1 DEF rawVars, RawInv, RawTypeInv, Raw!TypeOK, OwnedInv, UnownedInv, QuietInv
<1> QED
  BY <1>1, <1>2

\* The inductive invariant of the raw listener holds of every behaviour.
THEOREM RawInvariance == Spec => []RawInv
<1>1. Init => RawInv
  <2> SUFFICES ASSUME Raw!Init PROVE RawInv
    BY DEF Init
  <2>1. RawTypeInv
    <3>1. /\ Len(tx) <= BufferSize /\ Len(rx) <= BufferSize
          /\ Len(input) <= DriverMax /\ Len(output) <= DriverMax
      <4>1. 0 <= BufferSize /\ 0 <= DriverMax /\ Len(<< >>) = 0
        BY Empty, RawBounds
      <4> QED
        BY <4>1 DEF Raw!Init
    <3>2. tx \in Seq(Nat) /\ output \in Seq(Nat) /\ rx \in Seq(Byte) /\ input \in Seq(Byte)
      BY Empty DEF Raw!Init
    <3>3. sessions \in 0..MaxSessions
      BY RawBounds DEF Raw!Init
    <3> QED
      BY <3>1, <3>2, <3>3 DEF Raw!Init, RawTypeInv, Raw!TypeOK
  <2>2. OwnedInv /\ UnownedInv /\ QuietInv
    BY Empty DEF Raw!Init, OwnedInv, UnownedInv, QuietInv
  <2> QED
    BY <2>1, <2>2 DEF RawInv
<1>2. RawInv /\ [Next]_vars => RawInv'
  BY RawStep
<1> QED
  BY <1>1, <1>2, PTL DEF Spec

\* Nothing of an earlier owner reaches a later one or goes out in its time, however the
\* flushes between them fail (flush_boundary, release, serial_read, network_receive).
THEOREM SessionsKeptApart == Spec => []SessionsApart
<1>1. RawInv => SessionsApart
  <2> SUFFICES ASSUME RawInv, owner # 0
               PROVE  /\ ~flushPending
                      /\ \A i \in DOMAIN rx : \/ rx[i].after = owner
                                              \/ rx[i].after = owner - 1 /\ ~rx[i].waited
                      /\ \A i \in DOMAIN tx : tx[i] = owner
                      /\ \A i \in DOMAIN output : output[i] = owner
    BY DEF SessionsApart, Raw!SessionsApart, RawInv, RawTypeInv
  <2>1. /\ ~flushPending /\ tx \in Seq({owner}) /\ output \in Seq({owner})
        /\ rx \in Seq(For(owner))
    BY DEF RawInv, OwnedInv
  <2>2. \A i \in DOMAIN rx : rx[i] \in For(owner)
    BY <2>1, LenProperties, ElementOfSeq
  <2>3. /\ \A i \in DOMAIN tx : tx[i] \in {owner}
        /\ \A i \in DOMAIN output : output[i] \in {owner}
    BY <2>1, LenProperties, ElementOfSeq
  <2> QED
    BY <2>1, <2>2, <2>3 DEF For
<1> QED
  BY <1>1, RawInvariance, PTL
-----------------------------------------------------------------------------
(* The UDP listener: the inductive invariant. *)

Peers == 1..PeerSlots

PeerType == [used: BOOLEAN, epoch: Nat, asked: Datagrams \cup {Udp!Nothing}, pending: BOOLEAN,
             submitted: BOOLEAN, id: Nat, cached: BOOLEAN,
             answer: Datagrams \cup {Udp!Nothing}]

AccountType == [request: Datagrams \cup {Udp!Nothing}, times: Nat, done: BOOLEAN]

\* A record answers what it was asked, and only one in use is served.
RecordOK(r) ==
    /\ r.answer \in {Udp!Nothing, r.asked}
    /\ r.submitted => r.pending
    /\ r.pending => r.used
    /\ r.used => r.asked \in Datagrams

\* What a source is owed, by the record of its peer.
Accounted(r, a) ==
    /\ a.request = r.asked /\ (a.done <=> ~r.pending) /\ a.times \in 0..1
    /\ r.pending /\ ~r.submitted => a.times = 0
    /\ ~r.pending /\ ~rtuMode => r.cached

\* A source has one peer at most, and is owed nothing without one.
TableOK(known, owed) ==
    /\ known \in [Peers -> PeerType] /\ owed \in [Udp!Sources -> AccountType]
    /\ \A p \in Peers : RecordOK(known[p])
    /\ \A p, q \in Peers : (/\ known[p].used /\ known[q].used
                            /\ known[p].asked.source = known[q].asked.source) => p = q
    /\ \A p \in Peers : known[p].used => Accounted(known[p], owed[known[p].asked.source])
    /\ \A s \in Udp!Sources :
          (\A p \in Peers : known[p].used => known[p].asked.source # s) => owed[s] = Udp!Settled

\* A reply answers what it is sent for.
ReplyOK(r) == r.answers = r.asked /\ r.to = r.answers.source

UdpInv ==
    /\ phase \in {"between", "io"} /\ opened \in BOOLEAN /\ rtuMode \in BOOLEAN
    /\ udpEpoch \in 1..MaxEpochs /\ turn \in Peers
    /\ submitted \in [1..MaxUdpId -> {"unused", "pending"} \cup Udp!FinalStatus]
    /\ TableOK(peer, account)
    /\ ~opened => \A p \in Peers : ~peer[p].used
    /\ \A r \in replies : ReplyOK(r)

-----------------------------------------------------------------------------
(* Lemmas about the peers' records. *)

\* A free record and a settled account.
LEMMA UnusedIs ==
    /\ Udp!Unused \in PeerType /\ ~Udp!Unused.used /\ RecordOK(Udp!Unused)
    /\ Udp!Settled \in AccountType /\ Udp!Settled.times = 0
BY DEF Udp!Unused, Udp!Settled, PeerType, AccountType, RecordOK

\* Idle peers are forgotten, with what is owed to their sources.
LEMMA WithoutKeeps ==
    ASSUME NEW known, NEW owed, TableOK(known, owed), NEW idle \in SUBSET Udp!MayBeIdle(known)
    PROVE  /\ TableOK(Udp!Without(known, idle), Udp!Forgetting(known, idle, owed))
           /\ \A p \in Peers : Udp!Without(known, idle)[p].used => ~(p \in idle) /\ known[p].used
           /\ \A p \in Peers : ~(p \in idle) => Udp!Without(known, idle)[p] = known[p]
<1>1. PICK kept : kept = Udp!Without(known, idle)
  OBVIOUS
<1>2. PICK rest : rest = Udp!Forgetting(known, idle, owed)
  OBVIOUS
<1>3. /\ known \in [Peers -> PeerType] /\ owed \in [Udp!Sources -> AccountType]
      /\ \A p \in Peers : RecordOK(known[p])
  BY DEF TableOK
<1>4. /\ kept = [p \in Peers |-> IF p \in idle THEN Udp!Unused ELSE known[p]]
      /\ kept \in [Peers -> PeerType]
      /\ \A p \in Peers : /\ p \in idle => kept[p] = Udp!Unused
                          /\ p \notin idle => kept[p] = known[p]
  BY <1>1, <1>3, UnusedIs DEF Udp!Without, Udp!PeerIndex, Peers
<1>5. \A p \in Peers : kept[p].used => p \notin idle /\ known[p].used
  BY <1>4, UnusedIs
<1>6. \A p \in idle : p \in Peers /\ known[p].used /\ ~known[p].pending
  BY DEF Udp!MayBeIdle, Udp!PeerIndex, Peers
<1>7. /\ rest \in [Udp!Sources -> AccountType]
      /\ \A s \in Udp!Sources : rest[s] = owed[s] \/ rest[s] = Udp!Settled
      /\ \A s \in Udp!Sources : (\A p \in idle : known[p].asked.source # s) => rest[s] = owed[s]
      /\ \A s \in Udp!Sources : (owed[s].done /\ \E p \in idle : known[p].asked.source = s)
                                   => rest[s] = Udp!Settled
  <2>1. rest = [s \in Udp!Sources |-> IF owed[s].done /\ \E p \in idle : known[p].asked.source = s
                                      THEN Udp!Settled ELSE owed[s]]
    BY <1>2 DEF Udp!Forgetting
  <2> QED
    BY <1>3, <2>1, UnusedIs
<1>8. TableOK(kept, rest)
  <2>1. \A p \in Peers : RecordOK(kept[p])
    BY <1>3, <1>4, UnusedIs
  <2>2. ASSUME NEW p \in Peers, NEW q \in Peers, kept[p].used, kept[q].used,
               kept[p].asked.source = kept[q].asked.source
        PROVE  p = q
    <3>1. kept[p] = known[p] /\ kept[q] = known[q]
      BY <1>4, <1>5, <2>2
    <3>2. /\ known[p].used /\ known[q].used
          /\ known[p].asked.source = known[q].asked.source
      BY <2>2, <3>1
    <3> QED
      BY <3>2 DEF TableOK
  <2>3. ASSUME NEW p \in Peers, kept[p].used
        PROVE  Accounted(kept[p], rest[kept[p].asked.source])
    <3>1. p \notin idle /\ known[p].used /\ kept[p] = known[p]
      BY <1>4, <1>5, <2>3
    <3>2. known[p].asked.source \in Udp!Sources
      BY <1>3, <3>1 DEF RecordOK, Udp!Sources
    <3>3. \A q \in idle : known[q].asked.source # known[p].asked.source
      BY <1>6, <3>1 DEF TableOK
    <3>4. rest[known[p].asked.source] = owed[known[p].asked.source]
      BY <1>7, <3>2, <3>3
    <3> QED
      BY <3>1, <3>4 DEF TableOK
  <2>4. ASSUME NEW s \in Udp!Sources, \A p \in Peers : kept[p].used => kept[p].asked.source # s
        PROVE  rest[s] = Udp!Settled
    <3>1. CASE \E p \in Peers : known[p].used /\ known[p].asked.source = s
      <4>1. PICK p \in Peers : known[p].used /\ known[p].asked.source = s
        BY <3>1
      <4>2. p \in idle
        BY <1>4, <2>4, <4>1
      <4>3. owed[s].done
        BY <1>6, <4>1, <4>2 DEF TableOK, Accounted
      <4> QED
        BY <1>7, <4>1, <4>2, <4>3
    <3>2. CASE ~\E p \in Peers : known[p].used /\ known[p].asked.source = s
      BY <1>7, <3>2 DEF TableOK
    <3> QED
      BY <3>1, <3>2
  <2> QED
    <3>1. \A p, q \in Peers : (/\ kept[p].used /\ kept[q].used
                               /\ kept[p].asked.source = kept[q].asked.source) => p = q
      BY <2>2
    <3>2. \A p \in Peers : kept[p].used => Accounted(kept[p], rest[kept[p].asked.source])
      BY <2>3
    <3>3. \A s \in Udp!Sources : (\A p \in Peers : kept[p].used => kept[p].asked.source # s)
                                 => rest[s] = Udp!Settled
      BY <2>4
    <3> QED
      BY <1>4, <1>7, <2>1, <3>1, <3>2, <3>3 DEF TableOK
<1> QED
  BY <1>1, <1>2, <1>4, <1>5, <1>8

\* Records of requests that are done, and the answers that are sent.
LEMMA FinishedKeeps ==
    ASSUME UdpInv, NEW S \in SUBSET Peers, \A p \in S : peer[p].pending, NEW answered
    PROVE  /\ TableOK(Udp!Finished(peer, S, answered), Udp!Done(S))
           /\ \A p \in Peers : p \notin S => Udp!Finished(peer, S, answered)[p] = peer[p]
           /\ \A r \in Udp!ResponsesOf(Udp!Finished(peer, S, answered), S) : ReplyOK(r)
<1>1. PICK known : known = Udp!Finished(peer, S, answered)
  OBVIOUS
<1>2. PICK owed : owed = Udp!Done(S)
  OBVIOUS
<1>3. /\ peer \in [Peers -> PeerType] /\ account \in [Udp!Sources -> AccountType]
      /\ \A p \in Peers : RecordOK(peer[p]) /\ rtuMode \in BOOLEAN
      /\ \A p \in S : peer[p].used /\ peer[p].pending
  BY DEF UdpInv, TableOK, RecordOK
<1>4. /\ known = [p \in Peers |->
                    IF p \in S THEN [peer[p] EXCEPT !.pending = FALSE, !.submitted = FALSE,
                                                    !.cached = ~rtuMode,
                                                    !.answer = IF answered THEN peer[p].asked
                                                               ELSE Udp!Nothing]
                    ELSE peer[p]]
  BY <1>1 DEF Udp!Finished, Udp!PeerIndex, Peers
<1>5. \A p \in S : /\ known[p] \in PeerType /\ known[p].used /\ ~known[p].pending
                   /\ ~known[p].submitted /\ (known[p].cached <=> ~rtuMode)
                   /\ known[p].answer \in {Udp!Nothing, peer[p].asked}
                   /\ known[p].asked = peer[p].asked
  <2> TAKE p \in S
  <2>1. p \in Peers /\ peer[p] \in PeerType /\ peer[p].used
    BY <1>3
  <2>2. known[p] = [peer[p] EXCEPT !.pending = FALSE, !.submitted = FALSE, !.cached = ~rtuMode,
                                   !.answer = IF answered THEN peer[p].asked ELSE Udp!Nothing]
    BY <1>4, <2>1
  <2> QED
    BY ZenonT(60), <1>3, <2>1, <2>2 DEF PeerType
<1>6. \A p \in Peers : p \notin S => known[p] = peer[p]
  BY <1>4
<1>7. known \in [Peers -> PeerType]
  BY <1>3, <1>4, <1>5, <1>6
<1>8. /\ owed \in [Udp!Sources -> AccountType]
      /\ \A s \in Udp!Sources : /\ owed[s].request = account[s].request
                                /\ owed[s].times = account[s].times
      /\ \A p \in S, s \in Udp!Sources : peer[p].asked.source = s => owed[s].done
      /\ \A s \in Udp!Sources : (\A p \in S : peer[p].asked.source # s) => owed[s] = account[s]
  <2>1. owed = [s \in Udp!Sources |-> IF \E p \in S : peer[p].asked.source = s
                                      THEN [account[s] EXCEPT !.done = TRUE] ELSE account[s]]
    BY <1>2 DEF Udp!Done
  <2>2. \A s \in Udp!Sources : /\ [account[s] EXCEPT !.done = TRUE] \in AccountType
                               /\ [account[s] EXCEPT !.done = TRUE].done
                               /\ [account[s] EXCEPT !.done = TRUE].request = account[s].request
                               /\ [account[s] EXCEPT !.done = TRUE].times = account[s].times
    BY <1>3 DEF AccountType
  <2> QED
    BY <1>3, <2>1, <2>2
<1>9. \A p \in Peers : known[p].used = peer[p].used /\ known[p].asked = peer[p].asked
  BY <1>3, <1>5, <1>6 DEF PeerType
<1>10. TableOK(known, owed)
  <2>1. \A p \in Peers : RecordOK(known[p])
    BY <1>3, <1>5, <1>6 DEF RecordOK
  <2>2. \A p, q \in Peers : (/\ known[p].used /\ known[q].used
                             /\ known[p].asked.source = known[q].asked.source) => p = q
    BY <1>9 DEF UdpInv, TableOK
  <2>3. ASSUME NEW p \in Peers, known[p].used
        PROVE  Accounted(known[p], owed[known[p].asked.source])
    <3>1. known[p].asked.source \in Udp!Sources /\ peer[p].used /\ known[p].asked = peer[p].asked
      BY <1>3, <1>9, <2>3 DEF RecordOK, Udp!Sources
    <3>2. Accounted(peer[p], account[peer[p].asked.source])
      BY <3>1 DEF UdpInv, TableOK
    <3>3. CASE p \in S
      BY <1>3, <1>5, <1>8, <3>1, <3>2, <3>3 DEF Accounted
    <3>4. CASE p \notin S
      <4>1. \A q \in S : peer[q].asked.source # peer[p].asked.source
        BY <1>3, <3>1, <3>4 DEF UdpInv, TableOK
      <4> QED
        BY <1>6, <1>8, <3>1, <3>2, <3>4, <4>1
    <3> QED
      BY <3>3, <3>4
  <2>4. ASSUME NEW s \in Udp!Sources, \A p \in Peers : known[p].used => known[p].asked.source # s
        PROVE  owed[s] = Udp!Settled
    <3>1. \A p \in Peers : peer[p].used => peer[p].asked.source # s
      BY <1>9, <2>4
    <3> QED
      BY <1>3, <1>8, <3>1 DEF UdpInv, TableOK
  <2> QED
    BY <1>7, <1>8, <2>1, <2>2, <2>3, <2>4 DEF TableOK
<1>11. ASSUME NEW r \in Udp!ResponsesOf(known, S)
       PROVE  ReplyOK(r)
  <2>1. PICK p \in S : r \in Udp!Response(known, p, known[p].asked)
    BY DEF Udp!ResponsesOf
  <2>2. /\ known[p].answer # Udp!Nothing
        /\ r = [to |-> known[p].asked.source, asked |-> known[p].asked, answers |-> known[p].answer]
    BY <2>1 DEF Udp!Response
  <2>3. known[p].answer = known[p].asked
    BY <1>5, <2>2
  <2> QED
    BY <2>2, <2>3 DEF ReplyOK
<1> QED
  BY <1>1, <1>2, <1>6, <1>10, <1>11
\* A record and its source's account are replaced together.
LEMMA ReplacedKeeps ==
    ASSUME NEW known, NEW owed, TableOK(known, owed), NEW p \in Peers, NEW r \in PeerType,
           NEW a \in AccountType, RecordOK(r), r.used, Accounted(r, a),
           \A q \in Peers \ {p} : known[q].used => known[q].asked.source # r.asked.source,
           known[p].used => known[p].asked.source = r.asked.source
    PROVE  TableOK([known EXCEPT ![p] = r], [owed EXCEPT ![r.asked.source] = a])
<1>1. PICK s : s = r.asked.source
  OBVIOUS
<1>2. PICK made : made = [known EXCEPT ![p] = r]
  OBVIOUS
<1>3. PICK owes : owes = [owed EXCEPT ![s] = a]
  OBVIOUS
<1>4. known \in [Peers -> PeerType] /\ owed \in [Udp!Sources -> AccountType] /\ s \in Udp!Sources
  BY <1>1 DEF TableOK, RecordOK, Udp!Sources
<1>5. /\ made \in [Peers -> PeerType] /\ made[p] = r
      /\ \A q \in Peers \ {p} : made[q] = known[q]
  BY <1>2, <1>4
<1>6. /\ owes \in [Udp!Sources -> AccountType] /\ owes[s] = a
      /\ \A w \in Udp!Sources \ {s} : owes[w] = owed[w]
  BY <1>3, <1>4
<1>7. \A q \in Peers : RecordOK(made[q])
  BY <1>5 DEF TableOK
<1>8. ASSUME NEW q \in Peers, NEW w \in Peers, made[q].used, made[w].used,
             made[q].asked.source = made[w].asked.source
      PROVE  q = w
  <2>1. q = p => w = p
    BY <1>1, <1>5, <1>8
  <2>2. w = p => q = p
    BY <1>1, <1>5, <1>8
  <2>3. q # p /\ w # p => q = w
    BY <1>5, <1>8 DEF TableOK
  <2> QED
    BY <2>1, <2>2, <2>3
<1>9. ASSUME NEW q \in Peers, made[q].used
      PROVE  Accounted(made[q], owes[made[q].asked.source])
  <2>1. CASE q = p
    BY <1>1, <1>5, <1>6, <2>1
  <2>2. CASE q # p
    <3>1. made[q] = known[q] /\ known[q].used /\ known[q].asked.source # s
      BY <1>1, <1>5, <1>9, <2>2
    <3>2. known[q].asked.source \in Udp!Sources
      BY <3>1 DEF TableOK, RecordOK, Udp!Sources
    <3>3. Accounted(known[q], owed[known[q].asked.source])
      BY <3>1 DEF TableOK
    <3> QED
      BY <1>6, <3>1, <3>2, <3>3
  <2> QED
    BY <2>1, <2>2
<1>10. ASSUME NEW w \in Udp!Sources, \A q \in Peers : made[q].used => made[q].asked.source # w
       PROVE  owes[w] = Udp!Settled
  <2>1. w # s
    BY <1>1, <1>5, <1>10
  <2>2. \A q \in Peers : known[q].used => known[q].asked.source # w
    BY <1>1, <1>5, <1>10, <2>1
  <2> QED
    BY <1>6, <2>1, <2>2 DEF TableOK
<1> QED
  BY <1>1, <1>2, <1>3, <1>5, <1>6, <1>7, <1>8, <1>9, <1>10 DEF TableOK

\* The bounds of the UDP listener.
LEMMA UdpBounds ==
    PeerSlots \in Nat \ {0} /\ MaxUdpId \in Nat \ {0} /\ MaxEpochs \in Nat \ {0}
BY TransportsAssumption

\* The first of some peers is one of them.
LEMMA FirstIs ==
    ASSUME NEW S, S \subseteq Peers, S # {}
    PROVE  Udp!Min(S) \in S
<1>1. S \subseteq Nat
  BY DEF Peers
<1> QED
  BY <1>1, LeastOf DEF Udp!Min

\* No peer's turn comes before its own.
LEMMA NotBeforeItself == ASSUME NEW p \in Peers, turn \in Peers PROVE p \notin Udp!Before(p)
<1>1. Udp!Distance(p) \in Int
  BY UdpBounds DEF Udp!Distance, Peers
<1>2. ~(Udp!Distance(p) < Udp!Distance(p))
  BY <1>1
<1> QED
  BY <1>2 DEF Udp!Before

\* A table that is sound is sound after a step that leaves the framing.
LEMMA TableIs ==
    ASSUME NEW known, NEW owed, TableOK(known, owed),
           peer' = known, account' = owed, rtuMode' = rtuMode
    PROVE  TableOK(peer, account)'
BY DEF TableOK, Accounted

-----------------------------------------------------------------------------
(* The UDP listener: the steps preserve the invariant. *)

\* A datagram arrives, the peers that are idle having been forgotten.
LEMMA ArrivalKeeps ==
    ASSUME UdpInv, NEW d \in Datagrams, NEW idle, Udp!Receive(d, idle),
           NEW known, NEW owed, TableOK(known, owed), peer' = known, account' = owed,
           udpEpoch' \in 1..MaxEpochs, \A r \in replies' : ReplyOK(r)
    PROVE  UdpInv'
<1>1. opened /\ phase' = "io" /\ UNCHANGED <<opened, rtuMode, turn, submitted>>
  BY DEF Udp!Receive
<1>2. TableOK(peer, account)'
  BY <1>1, TableIs
<1> QED
  BY <1>1, <1>2 DEF UdpInv

\* The idle peers a datagram finds forgotten.
LEMMA ArrivalForgets ==
    ASSUME UdpInv, NEW d \in Datagrams, NEW idle, Udp!Receive(d, idle)
    PROVE  /\ TableOK(Udp!Without(peer, idle), Udp!Forgetting(peer, idle, account))
           /\ \A p \in Peers : Udp!Without(peer, idle)[p].used => ~(p \in idle) /\ peer[p].used
           /\ \A p \in Peers : ~(p \in idle) => Udp!Without(peer, idle)[p] = peer[p]
<1>1. idle \in SUBSET Udp!MayBeIdle(peer) /\ TableOK(peer, account)
  BY DEF Udp!Receive, UdpInv
<1> QED
  BY <1>1, WithoutKeeps

\* A datagram of a new source finds no free peer.
LEMMA DropsKeeps ==
    ASSUME UdpInv, NEW d \in Datagrams, NEW idle, Udp!Drops(d, idle)
    PROVE  UdpInv'
<1>1. /\ Udp!Receive(d, idle) /\ peer' = Udp!Without(peer, idle)
      /\ account' = Udp!Forgetting(peer, idle, account) /\ replies' = {} /\ udpEpoch' = udpEpoch
  BY DEF Udp!Drops
<1>2. TableOK(Udp!Without(peer, idle), Udp!Forgetting(peer, idle, account))
  BY <1>1, ArrivalForgets
<1>3. udpEpoch' \in 1..MaxEpochs /\ \A r \in replies' : ReplyOK(r)
  BY <1>1 DEF UdpInv
<1>4. PICK known : known = Udp!Without(peer, idle)
  OBVIOUS
<1>5. PICK owed : owed = Udp!Forgetting(peer, idle, account)
  OBVIOUS
<1>6. TableOK(known, owed) /\ peer' = known /\ account' = owed
  BY <1>1, <1>2, <1>4, <1>5
<1> QED
  BY <1>1, <1>3, <1>6, ArrivalKeeps

\* A datagram is another request than the one served or remembered.
LEMMA RefusesKeeps ==
    ASSUME UdpInv, NEW d \in Datagrams, NEW idle, Udp!Refuses(d, idle)
    PROVE  UdpInv'
<1>1. /\ Udp!Receive(d, idle) /\ peer' = Udp!Without(peer, idle)
      /\ account' = Udp!Forgetting(peer, idle, account) /\ replies' = {} /\ udpEpoch' = udpEpoch
  BY DEF Udp!Refuses
<1>2. TableOK(Udp!Without(peer, idle), Udp!Forgetting(peer, idle, account))
  BY <1>1, ArrivalForgets
<1>3. udpEpoch' \in 1..MaxEpochs /\ \A r \in replies' : ReplyOK(r)
  BY <1>1 DEF UdpInv
<1>4. PICK known : known = Udp!Without(peer, idle)
  OBVIOUS
<1>5. PICK owed : owed = Udp!Forgetting(peer, idle, account)
  OBVIOUS
<1>6. TableOK(known, owed) /\ peer' = known /\ account' = owed
  BY <1>1, <1>2, <1>4, <1>5
<1> QED
  BY <1>1, <1>3, <1>6, ArrivalKeeps

\* A datagram repeats the request served or remembered.
LEMMA RepeatsKeeps ==
    ASSUME UdpInv, NEW d \in Datagrams, NEW idle, Udp!Repeats(d, idle)
    PROVE  UdpInv'
<1>1. PICK known : known = Udp!Without(peer, idle)
  OBVIOUS
<1>2. PICK owed : owed = Udp!Forgetting(peer, idle, account)
  OBVIOUS
<1>3. PICK p \in Udp!PeersOf(known, d.source) :
        /\ Udp!SameRequest(d, known[p].asked) /\ peer' = known
        /\ replies' = IF known[p].pending THEN {} ELSE Udp!Response(known, p, d)
  BY <1>1 DEF Udp!Repeats
<1>4. Udp!Receive(d, idle) /\ account' = owed /\ udpEpoch' = udpEpoch
  BY <1>2 DEF Udp!Repeats
<1>5. TableOK(known, owed)
  BY <1>1, <1>2, <1>4, ArrivalForgets
<1>6. known[p].asked = d /\ known[p].answer \in {Udp!Nothing, known[p].asked}
  BY <1>3, <1>5 DEF Udp!SameRequest, Udp!PeersOf, Udp!PeerIndex, Peers, TableOK, RecordOK
<1>7. ASSUME NEW r \in replies' PROVE ReplyOK(r)
  <2>1. r \in Udp!Response(known, p, d)
    BY <1>3, <1>7
  <2>2. /\ known[p].answer # Udp!Nothing
        /\ r = [to |-> known[p].asked.source, asked |-> d, answers |-> known[p].answer]
    BY <2>1 DEF Udp!Response
  <2> QED
    BY <1>6, <2>2 DEF ReplyOK
<1> QED
  BY <1>3, <1>4, <1>5, <1>7, ArrivalKeeps DEF UdpInv

\* The record of a request that was admitted.
LEMMA AdmittedIs ==
    ASSUME NEW d \in Datagrams, NEW e \in Nat
    PROVE  LET r == [Udp!Unused EXCEPT !.used = TRUE, !.asked = d, !.pending = TRUE, !.epoch = e]
           IN  /\ r \in PeerType /\ RecordOK(r) /\ r.used /\ r.asked = d
               /\ r.pending /\ ~r.submitted
BY DEF Udp!Unused, PeerType, RecordOK

\* A datagram becomes its source's request: nothing of it was executed yet.
LEMMA AdmitsKeeps ==
    ASSUME UdpInv, NEW d \in Datagrams, NEW idle, NEW fresh \in BOOLEAN,
           Udp!Admits(d, idle, fresh)
    PROVE  UdpInv'
<1>1. PICK known : known = Udp!Without(peer, idle)
  OBVIOUS
<1>2. PICK owed : owed = Udp!Forgetting(peer, idle, account)
  OBVIOUS
<1>3. PICK mine : mine = Udp!PeersOf(known, d.source)
  OBVIOUS
<1>4. PICK p : p = Udp!Min(IF mine # {} THEN mine ELSE Udp!FreePeers(known))
  OBVIOUS
<1>5. PICK e : e = IF mine # {} THEN known[p].epoch ELSE udpEpoch
  OBVIOUS
<1>6. PICK r : r = [Udp!Unused EXCEPT !.used = TRUE, !.asked = d, !.pending = TRUE, !.epoch = e]
  OBVIOUS
<1>7. /\ Udp!Receive(d, idle) /\ replies' = {}
      /\ mine # {} \/ (Udp!FreePeers(known) # {} /\ udpEpoch < MaxEpochs)
      /\ ~Udp!Blocks(known, p, d, fresh)
      /\ peer' = [known EXCEPT ![p] = r]
      /\ udpEpoch' = IF mine # {} THEN udpEpoch ELSE udpEpoch + 1
      /\ account' = IF Udp!Owed(owed[d.source], d, fresh)
                    THEN [owed EXCEPT ![d.source].done = FALSE]
                    ELSE [owed EXCEPT ![d.source] = [request |-> d, times |-> 0, done |-> FALSE]]
  BY <1>1, <1>2, <1>3, <1>4, <1>5, <1>6, Zenon DEF Udp!Admits
<1>8. TableOK(known, owed) /\ known \in [Peers -> PeerType] /\ owed \in [Udp!Sources -> AccountType]
  BY <1>1, <1>2, <1>7, ArrivalForgets DEF TableOK
<1>9. /\ mine \subseteq Peers /\ Udp!FreePeers(known) \subseteq Peers
      /\ \A q \in mine : known[q].used /\ known[q].asked.source = d.source
      /\ \A q \in Peers : known[q].used /\ known[q].asked.source = d.source => q \in mine
      /\ \A q \in Udp!FreePeers(known) : ~known[q].used
  BY <1>3 DEF Udp!PeersOf, Udp!FreePeers, Udp!PeerIndex, Peers
<1>10. /\ mine # {} => p \in mine
       /\ mine = {} => p \in Udp!FreePeers(known)
  BY <1>4, <1>7, <1>9, FirstIs
<1>11. /\ p \in Peers
       /\ \A q \in Peers \ {p} : known[q].used => known[q].asked.source # d.source
       /\ known[p].used => known[p].asked.source = d.source
  <2>1. p \in Peers
    BY <1>9, <1>10
  <2>2. CASE mine # {}
    BY <1>8, <1>9, <1>10, <2>1, <2>2 DEF TableOK
  <2>3. CASE mine = {}
    BY <1>9, <1>10, <2>1, <2>3
  <2> QED
    BY <2>1, <2>2, <2>3
<1>12. udpEpoch' \in 1..MaxEpochs /\ e \in Nat
  <2>1. udpEpoch \in 1..MaxEpochs /\ udpEpoch \in Nat /\ MaxEpochs \in Nat
    BY UdpBounds DEF UdpInv
  <2>2. known[p].epoch \in Nat
    BY <1>8, <1>11 DEF PeerType
  <2> QED
    BY <1>5, <1>7, <2>1, <2>2
<1>13. /\ r \in PeerType /\ RecordOK(r) /\ r.used /\ r.asked = d /\ r.pending /\ ~r.submitted
  BY <1>6, <1>12, AdmittedIs
<1>14. PICK a : a = IF Udp!Owed(owed[d.source], d, fresh)
                    THEN [owed[d.source] EXCEPT !.done = FALSE]
                    ELSE [request |-> d, times |-> 0, done |-> FALSE]
  OBVIOUS
<1>15. d.source \in Udp!Sources /\ account' = [owed EXCEPT ![d.source] = a]
  BY <1>7, <1>14 DEF Udp!Sources
<1>16. a \in AccountType /\ a.request = d /\ ~a.done /\ a.times = 0
  <2>1. CASE ~Udp!Owed(owed[d.source], d, fresh)
    BY <1>14, <2>1 DEF AccountType
  <2>2. CASE Udp!Owed(owed[d.source], d, fresh)
    <3>1. owed[d.source] \in AccountType
      BY <1>8, <1>15
    <3>2. /\ a = [owed[d.source] EXCEPT !.done = FALSE] /\ owed[d.source].request = d
          /\ owed[d.source].done => fresh /\ ~rtuMode
      BY <1>14, <2>2 DEF Udp!Owed
    <3>3. owed[d.source].times = 0
      <4>1. CASE mine = {}
        <5>1. owed[d.source] = Udp!Settled
          BY <1>8, <1>9, <1>15, <4>1 DEF TableOK
        <5> QED
          BY <5>1, UnusedIs
      <4>2. CASE mine # {}
        <5>1. known[p].used /\ known[p].asked.source = d.source
          BY <1>9, <1>10, <4>2
        <5>2. Accounted(known[p], owed[d.source])
          BY <1>8, <1>11, <5>1 DEF TableOK
        <5>3. ~known[p].pending /\ owed[d.source].done /\ known[p].asked = d
          BY <1>7, <3>2, <5>2 DEF Udp!Blocks, Accounted
        <5>4. fresh /\ ~rtuMode /\ known[p].cached
          BY <3>2, <5>2, <5>3 DEF Accounted
        <5> QED
          BY <1>7, <5>3, <5>4 DEF Udp!Blocks
      <4> QED
        BY <4>1, <4>2
    <3> QED
      BY <3>1, <3>2, <3>3 DEF AccountType
  <2> QED
    BY <2>1, <2>2
<1>17. Accounted(r, a)
  BY <1>13, <1>16 DEF Accounted
<1>18. PICK made : made = [known EXCEPT ![p] = r]
  OBVIOUS
<1>19. PICK owes : owes = [owed EXCEPT ![d.source] = a]
  OBVIOUS
<1>20. TableOK(made, owes)
  <2>1. d.source = r.asked.source
    BY <1>13
  <2>2. /\ \A q \in Peers \ {p} : known[q].used => known[q].asked.source # r.asked.source
        /\ known[p].used => known[p].asked.source = r.asked.source
    BY <1>11, <2>1
  <2>3. TableOK([known EXCEPT ![p] = r], [owed EXCEPT ![r.asked.source] = a])
    BY <1>8, <1>11, <1>13, <1>16, <1>17, <2>2, ReplacedKeeps
  <2> QED
    BY <1>18, <1>19, <2>1, <2>3
<1> QED
  BY <1>7, <1>12, <1>15, <1>18, <1>19, <1>20, ArrivalKeeps

\* The loop ends, and the peers that are idle are dropped.
LEMMA EndsKeeps ==
    ASSUME UdpInv, NEW known, NEW owed, TableOK(known, owed), Udp!Ends(known, owed), opened,
           turn' \in Peers, \A r \in replies' : ReplyOK(r),
           submitted' \in [1..MaxUdpId -> {"unused", "pending"} \cup Udp!FinalStatus]
    PROVE  UdpInv'
<1>1. phase' = "between" /\ UNCHANGED <<opened, rtuMode, udpEpoch>>
  BY DEF Udp!Ends
<1>2. PICK idle \in SUBSET Udp!MayBeIdle(known) :
        peer' = Udp!Without(known, idle) /\ account' = Udp!Forgetting(known, idle, owed)
  BY DEF Udp!Ends
<1>3. PICK kept : kept = Udp!Without(known, idle)
  OBVIOUS
<1>4. PICK rest : rest = Udp!Forgetting(known, idle, owed)
  OBVIOUS
<1>5. TableOK(kept, rest)
  BY <1>3, <1>4, WithoutKeeps
<1>6. TableOK(peer, account)'
  BY <1>1, <1>2, <1>3, <1>4, <1>5, TableIs
<1> QED
  BY <1>1, <1>6 DEF UdpInv
\* The requests before a turn, and all that wait, are pending.
LEMMA WaitingIs ==
    ASSUME UdpInv
    PROVE  /\ Udp!Waiting \subseteq Peers
           /\ \A p \in Udp!Waiting : peer[p].pending /\ ~peer[p].submitted
           /\ \A p \in Peers : Udp!Before(p) \subseteq Udp!Waiting
BY DEF Udp!Waiting, Udp!Before, Udp!PeerIndex, Peers

\* The turn passes to the next peer.
LEMMA NextTurn ==
    ASSUME NEW p \in Peers
    PROVE  (p % PeerSlots) + 1 \in Peers
BY UdpBounds DEF Peers

\* All that waits is overdue.
LEMMA DispatchNoneKeeps ==
    ASSUME UdpInv, Udp!DispatchNone
    PROVE  UdpInv'
<1>1. PICK known : known = Udp!Overdue(Udp!Waiting)
  OBVIOUS
<1>2. PICK owed : owed = Udp!Done(Udp!Waiting)
  OBVIOUS
<1>3. /\ opened /\ Udp!Ends(known, owed) /\ replies' = Udp!ResponsesOf(known, Udp!Waiting)
      /\ UNCHANGED <<turn, submitted>>
  BY <1>1, <1>2 DEF Udp!DispatchNone
<1>4. TableOK(known, owed) /\ \A r \in Udp!ResponsesOf(known, Udp!Waiting) : ReplyOK(r)
  BY <1>1, <1>2, WaitingIs, FinishedKeeps DEF Udp!Overdue
<1>5. turn' \in Peers /\ submitted' \in [1..MaxUdpId -> {"unused", "pending"} \cup Udp!FinalStatus]
  BY <1>3 DEF UdpInv
<1> QED
  BY <1>3, <1>4, <1>5, EndsKeeps

\* The port does not take the request; those before it are overdue.
LEMMA DispatchRefusedKeeps ==
    ASSUME UdpInv, NEW p \in Peers, Udp!DispatchRefused(p)
    PROVE  UdpInv'
<1>1. PICK known : known = Udp!Overdue(Udp!Before(p))
  OBVIOUS
<1>2. PICK owed : owed = Udp!Done(Udp!Before(p))
  OBVIOUS
<1>3. /\ opened /\ Udp!Ends(known, owed) /\ replies' = Udp!ResponsesOf(known, Udp!Before(p))
      /\ turn' = (p % PeerSlots) + 1 /\ submitted' = submitted
  BY <1>1, <1>2 DEF Udp!DispatchRefused
<1>4. Udp!Before(p) \subseteq Peers /\ \A q \in Udp!Before(p) : peer[q].pending
  BY WaitingIs
<1>5. TableOK(known, owed) /\ \A r \in Udp!ResponsesOf(known, Udp!Before(p)) : ReplyOK(r)
  BY <1>1, <1>2, <1>4, FinishedKeeps DEF Udp!Overdue
<1>6. turn' \in Peers /\ submitted' \in [1..MaxUdpId -> {"unused", "pending"} \cup Udp!FinalStatus]
  BY <1>3, NextTurn DEF UdpInv
<1> QED
  BY <1>3, <1>5, <1>6, EndsKeeps

\* The record of a request that the port accepted.
LEMMA AcceptedIs ==
    ASSUME NEW x \in PeerType, NEW i \in Nat
    PROVE  LET r == [x EXCEPT !.submitted = TRUE, !.id = i]
           IN  /\ r \in PeerType /\ r.submitted /\ (r.used <=> x.used) /\ (r.pending <=> x.pending)
               /\ r.asked = x.asked /\ r.answer = x.answer
BY DEF PeerType

\* The port takes a request that it has not executed.
LEMMA DatagramAcceptedKeeps ==
    ASSUME UdpInv, NEW p \in Peers, Udp!DispatchAccepted(p)
    PROVE  UdpInv'
<1>1. PICK known : known = Udp!Overdue(Udp!Before(p))
  OBVIOUS
<1>2. PICK owed : owed = Udp!Done(Udp!Before(p))
  OBVIOUS
<1>3. PICK i \in 1..MaxUdpId :
        /\ Udp!Port!Accept(i)
        /\ Udp!Ends([known EXCEPT ![p].submitted = TRUE, ![p].id = i],
                    [owed EXCEPT ![peer[p].asked.source].times = @ + 1])
  BY <1>1, <1>2 DEF Udp!DispatchAccepted
<1>4. /\ opened /\ p \in Udp!Waiting /\ turn' = (p % PeerSlots) + 1
      /\ replies' = Udp!ResponsesOf(known, Udp!Before(p))
  BY <1>1 DEF Udp!DispatchAccepted
<1>5. Udp!Before(p) \subseteq Peers /\ \A q \in Udp!Before(p) : peer[q].pending
  BY WaitingIs
<1>6. /\ TableOK(known, owed) /\ \A r \in Udp!ResponsesOf(known, Udp!Before(p)) : ReplyOK(r)
      /\ \A q \in Peers : q \notin Udp!Before(p) => known[q] = peer[q]
  BY <1>1, <1>2, <1>5, FinishedKeeps DEF Udp!Overdue
<1>7. known[p] = peer[p] /\ peer[p].pending /\ ~peer[p].submitted
  BY <1>4, <1>6, WaitingIs, NotBeforeItself DEF UdpInv
<1>8. known \in [Peers -> PeerType] /\ owed \in [Udp!Sources -> AccountType] /\ RecordOK(known[p])
  BY <1>6 DEF TableOK
<1>9. PICK s : s = peer[p].asked.source
  OBVIOUS
<1>10. s \in Udp!Sources /\ known[p].used /\ known[p].asked.source = s
  BY <1>7, <1>8, <1>9 DEF RecordOK, Udp!Sources
<1>11. Accounted(known[p], owed[s])
  BY <1>6, <1>10 DEF TableOK
<1>12. PICK r : r = [known[p] EXCEPT !.submitted = TRUE, !.id = i]
  OBVIOUS
<1>13. PICK a : a = [owed[s] EXCEPT !.times = @ + 1]
  OBVIOUS
<1>14. /\ r \in PeerType /\ r.used /\ r.pending /\ r.submitted /\ r.asked = known[p].asked
       /\ r.answer = known[p].answer
  <2>1. known[p] \in PeerType /\ i \in Nat
    BY <1>8
  <2>2. /\ r \in PeerType /\ r.submitted
        /\ (r.used <=> known[p].used) /\ (r.pending <=> known[p].pending)
        /\ r.asked = known[p].asked /\ r.answer = known[p].answer
    BY <1>12, <2>1, AcceptedIs, Zenon
  <2>3. known[p].pending
    BY <1>7
  <2> QED
    BY <1>10, <2>2, <2>3, Zenon
<1>15. RecordOK(r)
  BY <1>8, <1>10, <1>14 DEF RecordOK
<1>16. a \in AccountType /\ a.times = 1 /\ a.done = owed[s].done /\ a.request = owed[s].request
  <2>1. owed[s] \in AccountType /\ owed[s].times = 0
    BY <1>7, <1>8, <1>10, <1>11 DEF Accounted
  <2> QED
    BY <1>13, <2>1 DEF AccountType
<1>17. Accounted(r, a)
  BY <1>7, <1>11, <1>14, <1>16 DEF Accounted
<1>18. \A q \in Peers \ {p} : known[q].used => known[q].asked.source # s
  BY <1>6, <1>10 DEF TableOK
<1>19. PICK made : made = [known EXCEPT ![p] = r]
  OBVIOUS
<1>20. PICK owes : owes = [owed EXCEPT ![s] = a]
  OBVIOUS
<1>21. TableOK(made, owes)
  <2>1. r.asked.source = s
    BY <1>10, <1>14
  <2>2. TableOK([known EXCEPT ![p] = r], [owed EXCEPT ![r.asked.source] = a])
    BY <1>6, <1>10, <1>14, <1>15, <1>16, <1>17, <1>18, <2>1, ReplacedKeeps
  <2> QED
    BY <1>19, <1>20, <2>1, <2>2
<1>22. Udp!Ends(made, owes)
  <2>1. made = [known EXCEPT ![p].submitted = TRUE, ![p].id = i]
    BY <1>8, <1>12, <1>19
  <2>2. owes = [owed EXCEPT ![peer[p].asked.source].times = @ + 1]
    BY <1>9, <1>13, <1>20
  <2> QED
    BY <1>3, <2>1, <2>2
<1>23. submitted' \in [1..MaxUdpId -> {"unused", "pending"} \cup Udp!FinalStatus]
  BY <1>3 DEF UdpInv, Udp!Port!Accept
<1>24. turn' \in Peers
  BY <1>4, NextTurn
<1> QED
  BY <1>4, <1>6, <1>21, <1>22, <1>23, <1>24, EndsKeeps

\* The port answers the peer that waits for it, if there is one.
LEMMA CompleteKeeps ==
    ASSUME UdpInv, NEW i \in 1..MaxUdpId, NEW status \in Udp!FinalStatus, NEW answered \in BOOLEAN,
           Udp!Complete(i, status, answered)
    PROVE  UdpInv'
<1>1. PICK S : S = Udp!PeerFor(i)
  OBVIOUS
<1>2. PICK known : known = Udp!Finished(peer, S, answered)
  OBVIOUS
<1>3. PICK owed : owed = Udp!Done(S)
  OBVIOUS
<1>4. /\ Udp!Port!Resolve({i}, status) /\ peer' = known /\ account' = owed
      /\ replies' = Udp!ResponsesOf(known, S)
      /\ UNCHANGED <<phase, opened, rtuMode, udpEpoch, turn>>
  BY <1>1, <1>2, <1>3 DEF Udp!Complete
<1>5. S \subseteq Peers /\ \A p \in S : opened /\ peer[p].pending
  BY <1>1 DEF UdpInv, TableOK, RecordOK, Udp!PeerFor, Udp!PeerIndex, Peers
<1>6. /\ TableOK(known, owed) /\ \A r \in Udp!ResponsesOf(known, S) : ReplyOK(r)
      /\ \A p \in Peers : p \notin S => known[p] = peer[p]
  BY <1>2, <1>3, <1>5, FinishedKeeps
<1>7. TableOK(peer, account)'
  BY <1>4, <1>6, TableIs
<1>8. submitted' \in [1..MaxUdpId -> {"unused", "pending"} \cup Udp!FinalStatus]
  BY <1>4 DEF UdpInv, Udp!Port!Resolve
<1>9. ~opened' => \A p \in Peers : ~peer'[p].used
  BY <1>4, <1>5, <1>6 DEF UdpInv
<1> QED
  BY <1>4, <1>6, <1>7, <1>8, <1>9 DEF UdpInv

\* Nobody is known, and nobody is owed anything.
LEMMA NoPeerIs ==
    TableOK([p \in Peers |-> Udp!Unused], [s \in Udp!Sources |-> Udp!Settled])
BY UnusedIs DEF TableOK

\* The listener closes.
LEMMA CloseKeeps ==
    ASSUME UdpInv, Udp!CloseListener
    PROVE  UdpInv'
<1>1. /\ opened' = FALSE /\ replies' = {} /\ UNCHANGED <<phase, rtuMode, udpEpoch, turn>>
      /\ peer' = [p \in Peers |-> Udp!Unused] /\ account' = [s \in Udp!Sources |-> Udp!Settled]
      /\ IF Udp!Port!Pending = {} THEN UNCHANGED submitted
         ELSE Udp!Port!Resolve(Udp!Port!Pending, "CANCELLED")
  BY DEF Udp!CloseListener, Udp!PeerIndex, Peers
<1>2. TableOK(peer, account)'
  BY <1>1, NoPeerIs, TableIs
<1>3. \A p \in Peers : ~peer'[p].used
  BY <1>1, UnusedIs
<1>4. submitted' \in [1..MaxUdpId -> {"unused", "pending"} \cup Udp!FinalStatus]
  <2>1. "CANCELLED" \in Udp!FinalStatus
    BY DEF Udp!FinalStatus
  <2> QED
    BY <1>1, <2>1 DEF UdpInv, Udp!Port!Resolve
<1> QED
  BY <1>1, <1>2, <1>3, <1>4 DEF UdpInv

\* The listener opens, for either framing.
LEMMA OpenKeeps ==
    ASSUME UdpInv, Udp!OpenListener
    PROVE  UdpInv'
<1>1. /\ ~opened /\ opened' = TRUE /\ rtuMode' \in BOOLEAN /\ udpEpoch' = 1 /\ turn' = 1
      /\ replies' = {} /\ UNCHANGED <<phase, peer, submitted, account>>
  BY DEF Udp!OpenListener
<1>2. \A p \in Peers : ~peer[p].used
  BY <1>1 DEF UdpInv
<1>3. TableOK(peer, account)'
  BY <1>1, <1>2 DEF UdpInv, TableOK
<1>4. udpEpoch' \in 1..MaxEpochs /\ turn' \in Peers
  BY <1>1, UdpBounds DEF Peers
<1> QED
  BY <1>1, <1>3, <1>4 DEF UdpInv

\* Every step preserves the invariant.
LEMMA UdpStep ==
    ASSUME UdpInv, [Next]_vars
    PROVE  UdpInv'
<1>1. CASE Udp!Next
  <2>1. CASE \E d \in Datagrams, idle \in SUBSET Udp!PeerIndex :
               \/ Udp!Drops(d, idle) \/ Udp!Repeats(d, idle) \/ Udp!Refuses(d, idle)
               \/ \E fresh \in BOOLEAN : Udp!Admits(d, idle, fresh)
    BY <2>1, DropsKeeps, RepeatsKeeps, RefusesKeeps, AdmitsKeeps
  <2>2. CASE \E p \in Udp!PeerIndex : Udp!DispatchAccepted(p) \/ Udp!DispatchRefused(p)
    BY <2>2, DatagramAcceptedKeeps, DispatchRefusedKeeps DEF Udp!PeerIndex, Peers
  <2>3. CASE \E i \in 1..MaxUdpId, status \in Udp!FinalStatus, answered \in BOOLEAN :
               Udp!Complete(i, status, answered)
    BY <2>3, CompleteKeeps
  <2> QED
    BY <1>1, <2>1, <2>2, <2>3, DispatchNoneKeeps, CloseKeeps, OpenKeeps DEF Udp!Next
<1>2. CASE ~Udp!Next
  <2>1. UNCHANGED udpVars
    BY <1>2 DEF Next, ServesTcp, ServesUdp, ServesRaw, vars
  <2> QED
    BY <2>1 DEF udpVars, UdpInv, TableOK, Accounted
<1> QED
  BY <1>1, <1>2

\* The inductive invariant of the UDP listener holds of every behaviour.
THEOREM UdpInvariance == Spec => []UdpInv
<1>1. Init => UdpInv
  <2> SUFFICES ASSUME Udp!Init PROVE UdpInv
    BY DEF Init
  <2>1. /\ phase = "between" /\ opened = TRUE /\ rtuMode \in BOOLEAN /\ udpEpoch = 1 /\ turn = 1
        /\ peer = [p \in Peers |-> Udp!Unused] /\ account = [s \in Udp!Sources |-> Udp!Settled]
        /\ replies = {} /\ submitted = [i \in 1..MaxUdpId |-> "unused"]
    BY DEF Udp!Init, Udp!Port!Init, Udp!PeerIndex, Peers
  <2>2. TableOK(peer, account)
    BY <2>1, NoPeerIs
  <2>3. udpEpoch \in 1..MaxEpochs /\ turn \in Peers
    BY <2>1, UdpBounds DEF Peers
  <2> QED
    BY <2>1, <2>2, <2>3 DEF UdpInv
<1>2. UdpInv /\ [Next]_vars => UdpInv'
  BY UdpStep
<1> QED
  BY <1>1, <1>2, PTL DEF Spec

\* What the UDP listener sends answers the datagram it is sent for, and goes to its source;
\* and no request goes to the line twice while it is served or its answer is remembered
\* (modbus_udp_listener_receive, dispatch_one, completion), whatever the network repeats.
THEOREM UdpAnswered == Spec => []UdpAnswersHold
<1>1. UdpInv => UdpAnswersHold
  <2> SUFFICES ASSUME UdpInv PROVE UdpAnswersHold
    OBVIOUS
  <2>1. Udp!TypeOK
    <3>1. ASSUME NEW p \in Peers
          PROVE  /\ peer[p].asked \in Datagrams \cup {Udp!Nothing}
                 /\ peer[p].answer \in {Udp!Nothing, peer[p].asked}
                 /\ peer[p].submitted => peer[p].pending /\ peer[p].used
      BY DEF UdpInv, TableOK, PeerType, RecordOK
    <3>2. \A i \in 1..MaxUdpId : submitted[i] \in {"unused", "pending"} \cup Udp!FinalStatus
      BY DEF UdpInv
    <3> QED
      BY <3>1, <3>2 DEF UdpInv, Udp!TypeOK, Udp!PeerIndex, Peers
  <2>2. Udp!AnswersTheRequest
    BY DEF UdpInv, ReplyOK, Udp!AnswersTheRequest
  <2>3. Udp!ExecutedOnce
    <3> SUFFICES ASSUME NEW s \in Udp!Sources PROVE account[s].times <= 1
      BY DEF Udp!ExecutedOnce
    <3>1. CASE \E p \in Peers : peer[p].used /\ peer[p].asked.source = s
      <4>1. account[s].times \in 0..1
        BY <3>1 DEF UdpInv, TableOK, Accounted
      <4> QED
        BY <4>1
    <3>2. CASE ~\E p \in Peers : peer[p].used /\ peer[p].asked.source = s
      <4>1. account[s] = Udp!Settled
        BY <3>2 DEF UdpInv, TableOK
      <4> QED
        BY <4>1, UnusedIs
    <3> QED
      BY <3>1, <3>2
  <2> QED
    BY <2>1, <2>2, <2>3 DEF UdpAnswersHold
<1> QED
  BY <1>1, UdpInvariance, PTL
=============================================================================
