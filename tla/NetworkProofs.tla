---------------------------- MODULE NetworkProofs ----------------------------
(***************************************************************************)
(* What TLAPS proves of the network's part of Services, for every value of *)
(* the constants: an address in use is leased (Dhcp); what the owner of    *)
(* the network calls settled is in the kernel (NetworkOwner); and a change *)
(* of the policy is called kept, or reverted, only with the ports bound to *)
(* the policy that is stored (NetworkBindings).  A part at rest keeps its  *)
(* state, so each invariant is one of Spec whichever part is looked at.    *)
(***************************************************************************)
EXTENDS Services, SequenceTheorems, TLAPS

-----------------------------------------------------------------------------
(* The lease of a LAN (Dhcp).                                                *)

Requests == {"requesting", "renewing", "rebinding"}

ClientType ==
    [state : {"off", "probing", "bound", "backoff"} \cup Lease!Asking,
     xid : 0 .. MaxXid + 1, session : Nat, own : BOOLEAN,
     server : DhcpServers \cup {Lease!Nothing}, address : Addresses \cup {Lease!Nothing},
     valid : BOOLEAN, asked : Int, renew : Int, rebind : Int, expires : Int,
     send : {Lease!Nothing, "discover", "request", "decline"}, probes : 0 .. 3]

DatagramType ==
    [type : {"discover", "request", "ack"}, xid : Nat, session : Nat,
     address : Addresses \cup {Lease!Nothing},
     server : DhcpServers \cup {Lease!Nothing}]

\* An address that is held, or probed, is granted for at least as long if it was
\* acknowledged in answer to a request of this session.
Held(c, g) ==
    /\ c.valid => c.state \in {"bound", "renewing", "rebinding"}
    /\ c.valid \/ c.state = "probing" =>
          c.address \in Addresses /\ (c.own => c.expires <= g[c.address])

\* A request is sent for an address, in a state that asks for it.
Requested(c) ==
    /\ c.state \in Requests \cup {"probing", "bound"} => c.address \in Addresses
    /\ c.send = "request" => c.state \in Requests

\* In a session no transaction is ahead of the client's, and that of now has made no
\* request before it counts from one; each acknowledgement to it was given, for a
\* lifetime, after that.  Of another session the address is known, and nothing else.
InTurn(c, m, g) ==
    /\ m.type # "discover" => m.address \in Addresses
    /\ m.session = c.session => m.xid <= c.xid
    /\ m.type # "discover" /\ m.session = c.session /\ m.xid = c.xid =>
          /\ c.state \notin {"off", "selecting"}
          /\ c.state # "backoff" => c.asked >= 0
    /\ m.type = "ack" /\ m.session = c.session /\ m.xid = c.xid /\ c.state # "backoff" =>
          c.asked + Lifetime <= g[m.address]

ClientSound(c, n, g, t, x) ==
    /\ c \in ClientType /\ c.asked <= t
    /\ c.state # "off" => c.xid <= MaxXid
    /\ c.session <= x
    /\ Held(c, g)
    /\ Requested(c)
    /\ \A m \in n : InTurn(c, m, g)

\* The owner's counter is not behind any session.
LeaseInv ==
    /\ now \in 0 .. MaxTime /\ nextXid \in 1 .. MaxXid
    /\ grant \in [Addresses -> Nat] /\ \A a \in Addresses : grant[a] <= now + Lifetime
    /\ net \subseteq DatagramType /\ \A m \in net : m.session <= nextXid
    /\ ClientSound(client, net, grant, now, nextXid)

\* What the servers and the clock are is not the client's step.
LEMMA LeaseBecomes ==
    ASSUME LeaseInv, NEW d, Lease!Becomes(d), ClientSound(d, net, grant, now, nextXid)
    PROVE  LeaseInv'
  BY DEF LeaseInv, Lease!Becomes

\* The bounds are numbers.
LEMMA LeaseBounds ==
    /\ Lifetime \in Nat /\ Lifetime > 0 /\ MaxTime \in Nat /\ MaxXid \in Nat /\ MaxXid >= 1
    /\ Lease!Nothing \notin Addresses
  BY ServicesAssumption DEF Lease!Nothing

\* A client that holds nothing, in a new transaction, is sound: nothing was sent in it
\* during this session.
LEMMA RestartedSound ==
    ASSUME LeaseInv, NEW d \in ClientType, d.xid = client.xid + 1, d.session = client.session,
           d.state # "off" => d.xid <= MaxXid, ~d.valid,
           d.state \in {"off", "selecting"}, d.send # "request", d.asked = 0 - 1
    PROVE  ClientSound(d, net, grant, now, nextXid)
<1>1. client.xid \in Nat /\ now \in Nat
  BY LeaseBounds DEF LeaseInv, ClientSound, ClientType
<1>2. \A m \in net : InTurn(d, m, grant)
  <2> TAKE m \in net
  <2>1. /\ m.xid \in Nat /\ (m.session = client.session => m.xid <= client.xid)
        /\ m.type # "discover" => m.address \in Addresses
    BY DEF LeaseInv, ClientSound, DatagramType, InTurn
  <2>2. m.session = d.session => m.xid <= d.xid /\ m.xid # d.xid
    BY <1>1, <2>1
  <2> QED
    BY <2>1, <2>2 DEF InTurn
<1> QED
  BY <1>1, <1>2 DEF LeaseInv, ClientSound, Held, Requested, Requests

\* A client that asks anew for the address that it holds is sound too.
LEMMA RenewedSound ==
    ASSUME LeaseInv, Lease!Room, NEW d \in ClientType, d.xid = client.xid + 1,
           d.session = client.session, d.own = client.own, client.state = "bound",
           d.state \in {"renewing", "rebinding"}, d.asked = 0 - 1,
           d.valid = client.valid, d.address = client.address, d.expires = client.expires
    PROVE  ClientSound(d, net, grant, now, nextXid)
<1>1. client.xid \in Nat /\ now \in Nat
  BY LeaseBounds DEF LeaseInv, ClientSound, ClientType
<1>2. \A m \in net : InTurn(d, m, grant)
  <2> TAKE m \in net
  <2>1. /\ m.xid \in Nat /\ (m.session = client.session => m.xid <= client.xid)
        /\ m.type # "discover" => m.address \in Addresses
    BY DEF LeaseInv, ClientSound, DatagramType, InTurn
  <2>2. m.session = d.session => m.xid <= d.xid /\ m.xid # d.xid
    BY <1>1, <2>1
  <2> QED
    BY <2>1, <2>2 DEF InTurn
<1>3. Held(d, grant) /\ Requested(d)
  BY DEF LeaseInv, ClientSound, Held, Requested, Requests
<1>4. d.xid <= MaxXid /\ d.session <= nextXid
  BY <1>1, LeaseBounds DEF LeaseInv, ClientSound, Lease!Room
<1> QED
  BY <1>1, <1>2, <1>3, <1>4 DEF ClientSound

\* In the transaction of now, a client that keeps its time and its lease is sound.
LEMMA WithinSound ==
    ASSUME LeaseInv, NEW d \in ClientType, d.xid = client.xid, d.asked = client.asked,
           d.session = client.session, d.own = client.own, client.state # "off",
           d.address = client.address, d.expires = client.expires,
           d.valid => d.state \in {"bound", "renewing", "rebinding"},
           d.valid \/ d.state = "probing" => client.valid \/ client.state = "probing",
           d.state \in Requests \cup {"probing", "bound"} =>
               client.state \in Requests \cup {"probing", "bound"},
           d.send = "request" => d.state \in Requests,
           client.state \notin {"off", "selecting"} => d.state \notin {"off", "selecting"},
           client.state = "backoff" => d.state = "backoff"
    PROVE  ClientSound(d, net, grant, now, nextXid)
<1>1. ClientSound(client, net, grant, now, nextXid)
  BY DEF LeaseInv
<1>2. \A m \in net : InTurn(d, m, grant)
  <2> TAKE m \in net
  <2>1. InTurn(client, m, grant)
    BY <1>1 DEF ClientSound
  <2> QED
    BY <2>1 DEF InTurn
<1>3. Held(d, grant) /\ Requested(d)
  BY <1>1 DEF ClientSound, Held, Requested
<1> QED
  BY <1>1, <1>2, <1>3 DEF ClientSound

\* A client that backs off holds nothing and asks for nothing.
LEMMA BackedSound ==
    ASSUME LeaseInv, NEW d \in ClientType, d.xid = client.xid, d.session = client.session,
           d.state = "backoff", ~d.valid,
           d.asked = client.asked \/ d.asked = 0 - 1, d.send # "request",
           client.state # "off"
    PROVE  ClientSound(d, net, grant, now, nextXid)
<1>1. ClientSound(client, net, grant, now, nextXid) /\ now \in Nat
  BY LeaseBounds DEF LeaseInv
<1>2. \A m \in net : InTurn(d, m, grant)
  <2> TAKE m \in net
  <2>1. InTurn(client, m, grant)
    BY <1>1 DEF ClientSound
  <2> QED
    BY <2>1 DEF InTurn
<1>3. d.asked <= now
  BY <1>1 DEF ClientSound, ClientType
<1> QED
  BY <1>1, <1>2, <1>3 DEF ClientSound, Held, Requested, Requests

\* The state of the client is typed.
LEMMA LeaseType ==
    ASSUME LeaseInv
    PROVE  /\ client \in ClientType /\ ClientSound(client, net, grant, now, nextXid)
           /\ now \in Nat /\ now <= MaxTime /\ client.xid \in Nat
           /\ client.state # "off" => client.xid <= MaxXid
  BY LeaseBounds DEF LeaseInv, ClientSound, ClientType

\* A lease that is given up (invalidate).
LEMMA InvalidIs ==
    ASSUME LeaseInv, NEW i, i = Lease!Invalid(client)
    PROVE  /\ i \in ClientType /\ i.xid = client.xid /\ i.session = client.session
           /\ i.asked = 0 - 1 /\ ~i.valid
<1>1. PICK never \in Int : never = 0 - 1
  OBVIOUS
<1>2. i = [client EXCEPT !.valid = FALSE, !.asked = never, !.address = Lease!Nothing]
  BY <1>1 DEF Lease!Invalid
<1> QED
  BY <1>1, <1>2, LeaseType DEF ClientType

\* A start is a new session, in which nothing was sent.
LEMMA StartLease == ASSUME LeaseInv, Lease!Start PROVE LeaseInv'
<1>1. PICK never \in Int : never = 0 - 1
  OBVIOUS
<1>2. PICK xid \in 1 .. MaxXid : xid = nextXid' /\ xid = nextXid + 1
  BY LeaseBounds DEF Lease!Start, Lease!Counts, LeaseInv
<1>3. PICK d : d = [state |-> "selecting", xid |-> xid, session |-> xid,
          server |-> Lease!Nothing, address |-> Lease!Nothing, valid |-> FALSE, own |-> FALSE,
          asked |-> never, renew |-> 0, rebind |-> 0, expires |-> 0, send |-> Lease!Nothing,
          probes |-> 0]
  OBVIOUS
<1>4. client' = d /\ UNCHANGED <<net, grant, now>>
  BY <1>1, <1>2, <1>3 DEF Lease!Start, Lease!Cleared
<1>5. d \in ClientType
  BY <1>3, LeaseBounds DEF ClientType, Lease!Asking
<1>6. /\ d.xid = xid /\ d.session = xid /\ d.state = "selecting" /\ d.asked = never /\ ~d.valid
      /\ d.send # "request"
  BY <1>3 DEF Lease!Nothing
<1>7. \A m \in net : m.session \in Nat /\ m.session <= nextXid /\ m.session < xid
  BY <1>2 DEF LeaseInv, DatagramType
<1>8. \A m \in net : InTurn(d, m, grant)
  BY <1>6, <1>7, LeaseType DEF ClientSound, InTurn
<1>9. ClientSound(d, net, grant, now, xid)
  BY <1>1, <1>5, <1>6, <1>8, LeaseType, LeaseBounds DEF ClientSound, Held, Requested, Requests
<1>10. \A m \in net : m.session <= xid
  BY <1>7
<1> QED
  BY <1>2, <1>4, <1>9, <1>10 DEF LeaseInv

\* The client of the other LAN only takes from the counter.
LEMMA OtherStartsLease == ASSUME LeaseInv, Lease!OtherStarts PROVE LeaseInv'
<1>1. /\ nextXid' \in 1 .. MaxXid /\ nextXid <= nextXid' /\ nextXid \in Nat
      /\ UNCHANGED <<client, net, grant, now>>
  BY LeaseBounds DEF Lease!OtherStarts, Lease!Counts, LeaseInv
<1>2. ClientSound(client, net, grant, now, nextXid')
  BY <1>1, LeaseType DEF ClientSound, ClientType
<1>3. \A m \in net : m.session <= nextXid'
  BY <1>1 DEF LeaseInv, DatagramType
<1> QED
  BY <1>1, <1>2, <1>3 DEF LeaseInv

\* gateway_dhcp_stop, the cable and a conflict.
LEMMA CommandsLease ==
    ASSUME LeaseInv, Lease!Stop \/ Lease!LinkLost \/ Lease!Conflict
    PROVE  LeaseInv'
<1>1. CASE Lease!Stop
  <2>5. PICK i : i = Lease!Invalid(client)
    OBVIOUS
  <2>1. PICK d : d = [i EXCEPT !.state = "off", !.send = Lease!Nothing, !.xid = @ + 1]
    OBVIOUS
  <2>2. client.xid + 1 \in 0 .. MaxXid + 1
    BY <1>1, LeaseType, LeaseBounds DEF Lease!Stop
  <2>3. /\ d \in ClientType /\ d.xid = client.xid + 1 /\ d.session = client.session
        /\ d.asked = 0 - 1 /\ d.state = "off" /\ ~d.valid /\ d.send # "request"
    <3>1. PICK next \in 0 .. MaxXid + 1 : next = client.xid + 1
      BY <2>2
    <3>2. /\ i \in ClientType /\ i.xid = client.xid /\ i.session = client.session
          /\ i.asked = 0 - 1 /\ ~i.valid
      BY <2>5, InvalidIs
    <3>3. d = [i EXCEPT !.state = "off", !.send = Lease!Nothing, !.xid = next]
      BY <2>1, <3>1, <3>2
    <3> QED
      BY <3>1, <3>2, <3>3 DEF ClientType, Lease!Nothing
  <2>4. ClientSound(d, net, grant, now, nextXid)
    BY <2>3, RestartedSound
  <2> QED
    BY <1>1, <2>1, <2>4, <2>5, LeaseBecomes DEF Lease!Stop
<1>2. CASE Lease!LinkLost
  <2>4. PICK i : i = Lease!Invalid(client)
    OBVIOUS
  <2>1. PICK d : d = Lease!Backs(i)
    OBVIOUS
  <2>2. /\ d \in ClientType /\ d.xid = client.xid /\ d.session = client.session
        /\ d.asked = 0 - 1 /\ d.state = "backoff" /\ ~d.valid /\ d.send # "request"
    <3>1. /\ i \in ClientType /\ i.xid = client.xid /\ i.session = client.session
          /\ i.asked = 0 - 1 /\ ~i.valid
      BY <2>4, InvalidIs
    <3> QED
      BY <2>1, <3>1 DEF ClientType, Lease!Backs, Lease!Nothing
  <2>3. ClientSound(d, net, grant, now, nextXid)
    BY <1>2, <2>2, BackedSound DEF Lease!LinkLost
  <2> QED
    BY <1>2, <2>1, <2>3, <2>4, LeaseBecomes DEF Lease!LinkLost
<1>3. CASE Lease!Conflict
  <2>1. PICK d : d = [client EXCEPT !.valid = FALSE, !.send = "decline", !.state = "backoff"]
    OBVIOUS
  <2>2. /\ d \in ClientType /\ d.xid = client.xid /\ d.session = client.session
        /\ d.asked = client.asked /\ d.state = "backoff" /\ ~d.valid /\ d.send # "request"
    BY <2>1, LeaseType DEF ClientType
  <2>3. ClientSound(d, net, grant, now, nextXid)
    BY <1>3, <2>2, BackedSound DEF Lease!Conflict, Lease!Asking
  <2> QED
    BY <1>3, <2>1, <2>3, LeaseBecomes DEF Lease!Conflict
<1> QED
  BY <1>1, <1>2, <1>3

\* What expires, or has backed off, begins again.
LEMMA RestartsLease ==
    ASSUME LeaseInv, Lease!Room, Lease!Becomes(Lease!Restarts(client))
    PROVE  LeaseInv'
<1>5. PICK i : i = Lease!Invalid(client)
  OBVIOUS
<1>1. PICK d : d = [i EXCEPT !.state = "selecting", !.xid = @ + 1, !.send = "discover"]
  OBVIOUS
<1>2. client.xid + 1 \in 1 .. MaxXid
  BY LeaseType, LeaseBounds DEF Lease!Room
<1>3. /\ d \in ClientType /\ d.xid = client.xid + 1 /\ d.session = client.session
      /\ d.xid <= MaxXid /\ d.asked = 0 - 1 /\ d.state = "selecting" /\ ~d.valid
      /\ d.send # "request"
  <2>1. PICK next \in 0 .. MaxXid + 1 : next = client.xid + 1
    BY <1>2, LeaseBounds
  <2>2. /\ i \in ClientType /\ i.xid = client.xid /\ i.session = client.session
        /\ i.asked = 0 - 1 /\ ~i.valid
    BY <1>5, InvalidIs
  <2>3. d = [i EXCEPT !.state = "selecting", !.xid = next, !.send = "discover"]
    BY <1>1, <2>1, <2>2
  <2>4. next <= MaxXid
    BY <1>2, <2>1, LeaseBounds
  <2>5. d \in ClientType
    BY <2>2, <2>3 DEF ClientType, Lease!Asking
  <2> QED
    BY <2>1, <2>2, <2>3, <2>4, <2>5 DEF ClientType
<1>4. ClientSound(d, net, grant, now, nextXid)
  BY <1>3, RestartedSound
<1> QED
  BY <1>1, <1>4, <1>5, LeaseBecomes DEF Lease!Restarts

\* Without an answer the client backs off.
LEMMA GiveUpLease == ASSUME LeaseInv, Lease!GiveUp PROVE LeaseInv'
<1>1. PICK d : d = Lease!Backs(client)
  OBVIOUS
<1>2. /\ d \in ClientType /\ d.xid = client.xid /\ d.session = client.session
      /\ d.asked = client.asked /\ d.state = "backoff" /\ ~d.valid /\ d.send # "request"
  BY <1>1, LeaseType DEF ClientType, Lease!Backs, Lease!Nothing, Lease!GiveUp
<1>3. ClientSound(d, net, grant, now, nextXid)
  BY <1>2, BackedSound DEF Lease!GiveUp
<1> QED
  BY <1>1, <1>3, LeaseBecomes DEF Lease!GiveUp

\* A request for the address that is held, in a transaction of its own.
LEMMA RenewsLease ==
    ASSUME LeaseInv, Lease!Room, client.state = "bound", NEW state1 \in {"renewing", "rebinding"},
           Lease!Becomes(Lease!Queued([Lease!NewRequest(client) EXCEPT !.state = state1]))
    PROVE  LeaseInv'
<1>7. PICK r : r = Lease!NewRequest(client)
  OBVIOUS
<1>1. PICK n : n = [r EXCEPT !.state = state1]
  OBVIOUS
<1>2. client.xid + 1 \in 1 .. MaxXid
  BY LeaseType, LeaseBounds DEF Lease!Room
<1>3. /\ n \in ClientType /\ n.xid = client.xid + 1 /\ n.session = client.session
      /\ n.own = client.own /\ n.asked = 0 - 1 /\ n.state = state1
      /\ n.valid = client.valid /\ n.address = client.address /\ n.expires = client.expires
  <2>1. /\ r \in ClientType /\ r.xid = client.xid + 1 /\ r.session = client.session
        /\ r.own = client.own /\ r.asked = 0 - 1
        /\ r.valid = client.valid /\ r.address = client.address /\ r.expires = client.expires
    <3>1. PICK never \in Int, next \in 0 .. MaxXid + 1 :
              never = 0 - 1 /\ next = client.xid + 1
      BY <1>2, LeaseBounds
    <3>2. r = [client EXCEPT !.xid = next, !.asked = never]
      BY <1>7, <3>1 DEF Lease!NewRequest
    <3> QED
      BY <3>1, <3>2, LeaseType DEF ClientType
  <2> QED
    BY <1>1, <2>1 DEF ClientType, Lease!Asking
<1>4. PICK d : d = Lease!Queued(n)
  OBVIOUS
<1>5. /\ d \in ClientType /\ d.xid = n.xid /\ d.session = n.session /\ d.own = n.own
      /\ d.asked = n.asked /\ d.state = n.state
      /\ d.valid = n.valid /\ d.address = n.address /\ d.expires = n.expires
  BY <1>3, <1>4 DEF ClientType, Lease!Queued
<1>6. ClientSound(d, net, grant, now, nextXid)
  BY <1>3, <1>5, RenewedSound
<1> QED
  BY <1>1, <1>4, <1>6, <1>7, LeaseBecomes

\* A request is sent again, in the transaction of now.
LEMMA QueuedSound ==
    ASSUME LeaseInv, NEW n \in ClientType, n.xid = client.xid, n.asked = client.asked,
           n.session = client.session, n.own = client.own,
           n.valid = client.valid, n.address = client.address, n.expires = client.expires,
           n.state \in Lease!Asking, client.state \in Lease!Asking,
           n.state = "selecting" <=> client.state = "selecting",
           n.valid => n.state \in {"bound", "renewing", "rebinding"},
           Lease!Becomes(Lease!Queued(n))
    PROVE  LeaseInv'
<1>1. PICK d : d = Lease!Queued(n)
  OBVIOUS
<1>2. /\ d \in ClientType /\ d.xid = n.xid /\ d.session = n.session /\ d.own = n.own
      /\ d.asked = n.asked /\ d.state = n.state
      /\ d.valid = n.valid /\ d.address = n.address /\ d.expires = n.expires
      /\ d.send = (IF n.state = "selecting" THEN "discover" ELSE "request")
  BY <1>1 DEF ClientType, Lease!Queued
<1>3. ClientSound(d, net, grant, now, nextXid)
  BY <1>2, WithinSound DEF Requests, Lease!Asking
<1> QED
  BY <1>1, <1>3, LeaseBecomes

\* The timers of a bound client, and the retransmission.
LEMMA TimersLease ==
    ASSUME LeaseInv, Lease!Renew \/ Lease!Rebind \/ Lease!Retransmit
    PROVE  LeaseInv'
<1>1. CASE Lease!Renew
  BY <1>1, RenewsLease DEF Lease!Renew
<1>2. CASE Lease!Rebind /\ client.state = "bound"
  BY <1>2, RenewsLease DEF Lease!Rebind
<1>3. CASE Lease!Rebind /\ client.state # "bound"
  <2>1. PICK n : n = [client EXCEPT !.state = "rebinding"]
    OBVIOUS
  <2>2. /\ n \in ClientType /\ n.xid = client.xid /\ n.asked = client.asked
        /\ n.session = client.session /\ n.own = client.own /\ n.state = "rebinding"
        /\ n.valid = client.valid /\ n.address = client.address
        /\ n.expires = client.expires
    BY <2>1, LeaseType DEF ClientType, Lease!Asking
  <2>3. client.state = "renewing" /\ Lease!Becomes(Lease!Queued(n))
    BY <1>3, <2>1 DEF Lease!Rebind
  <2> QED
    BY <2>2, <2>3, QueuedSound DEF Lease!Asking
<1>4. CASE Lease!Retransmit
  BY <1>4, QueuedSound, LeaseType DEF Lease!Retransmit, ClientSound, Held
<1> QED
  BY <1>1, <1>2, <1>3, <1>4

\* The first request of a transaction is remembered, with the time of it.
LEMMA SendLease == ASSUME LeaseInv, Lease!Send PROVE LeaseInv'
<1>1. PICK at \in Int :
          at = IF client.send = "request" /\ client.asked < 0 THEN now ELSE client.asked
  BY LeaseType DEF ClientType
<1>2. PICK d : d = [client EXCEPT !.send = Lease!Nothing, !.asked = at]
  OBVIOUS
<1>3. /\ d \in ClientType /\ d.xid = client.xid /\ d.state = client.state /\ d.asked = at
      /\ d.session = client.session /\ d.own = client.own
      /\ d.valid = client.valid /\ d.address = client.address /\ d.expires = client.expires
      /\ d.send # "request"
  BY <1>2, LeaseType DEF ClientType, Lease!Nothing
<1>4. client' = d /\ UNCHANGED <<nextXid, grant, now>>
  BY <1>1, <1>2 DEF Lease!Send
<1>5. client.send = "request" => client.state \in Requests /\ client.address \in Addresses
  BY LeaseType DEF ClientSound, Requested, Requests
<1>6. \A m \in net : InTurn(d, m, grant)
  <2> TAKE m \in net
  <2> DEFINE Present == /\ m.type # "discover" /\ m.session = client.session
                        /\ m.xid = client.xid /\ client.state # "backoff"
  <2>1. InTurn(client, m, grant)
    BY LeaseType DEF ClientSound
  <2>2. Present => at = client.asked
    BY <1>1, <2>1, LeaseType DEF InTurn, ClientType
  <2>3. Present => at >= 0
    BY <2>1, <2>2 DEF InTurn
  <2> QED
    BY <1>3, <2>1, <2>2, <2>3 DEF InTurn
<1>7. client.send \in {"request", "discover"} =>
          /\ Lease!Sent \in DatagramType /\ InTurn(d, Lease!Sent, grant)
          /\ Lease!Sent.session <= nextXid
  <2> SUFFICES ASSUME client.send \in {"request", "discover"}
               PROVE  /\ Lease!Sent \in DatagramType /\ InTurn(d, Lease!Sent, grant)
                      /\ Lease!Sent.session <= nextXid
    OBVIOUS
  <2>1. PICK m : m = Lease!Sent
    OBVIOUS
  <2>2. /\ m \in DatagramType /\ m.type = client.send /\ m.xid = client.xid
        /\ m.session = client.session /\ m.address = client.address
    BY <2>1, LeaseType DEF Lease!Sent, DatagramType, ClientType, Lease!Nothing
  <2>3. client.send = "request" => at >= 0
    BY <1>1, LeaseType DEF ClientType
  <2>4. m.xid <= d.xid /\ m.session <= nextXid
    BY <1>3, <2>2, LeaseType DEF ClientSound
  <2> QED
    BY <1>3, <1>5, <2>1, <2>2, <2>3, <2>4 DEF InTurn, Requests
<1>8. net' \subseteq DatagramType /\ \A m \in net' : InTurn(d, m, grant) /\ m.session <= nextXid
  <2>1. client.send \in {"request", "discover", "decline"}
    BY LeaseType DEF Lease!Send, ClientType
  <2>2. net \subseteq DatagramType /\ \A m \in net : m.session <= nextXid
    BY DEF LeaseInv
  <2> QED
    BY <1>6, <1>7, <2>1, <2>2 DEF Lease!Send
<1>9. at <= now
  BY <1>1, LeaseType DEF ClientSound
<1>10. Held(d, grant) /\ Requested(d)
  BY <1>3, LeaseType DEF ClientSound, Held, Requested
<1>11. (d.state # "off" => d.xid <= MaxXid) /\ d.session <= nextXid
  BY <1>3, LeaseType DEF ClientSound
<1> QED
  BY <1>3, <1>4, <1>8, <1>9, <1>10, <1>11 DEF LeaseInv, ClientSound

\* A grant is never shortened; an acknowledgement is given after the request was sent.
LEMMA ServeLease == ASSUME LeaseInv, Lease!Serve PROVE LeaseInv'
<1>1. PICK q \in net, s \in DhcpServers :
          /\ q.type = "request"
          /\ net' = net \cup {[q EXCEPT !.type = "ack", !.server = s]}
          /\ grant' = [grant EXCEPT ![q.address] = now + Lifetime]
          /\ UNCHANGED <<client, nextXid, now>>
  BY DEF Lease!Serve
<1>2. PICK n : n = [q EXCEPT !.type = "ack", !.server = s]
  OBVIOUS
<1>3. q \in DatagramType /\ InTurn(client, q, grant) /\ q.address \in Addresses
  BY <1>1, LeaseType DEF LeaseInv, ClientSound, InTurn
<1>4. /\ n \in DatagramType /\ n.type = "ack" /\ n.xid = q.xid /\ n.session = q.session
      /\ n.address = q.address
  BY <1>2, <1>3 DEF DatagramType
<1>5. /\ grant' \in [Addresses -> Nat] /\ grant'[q.address] = now + Lifetime
      /\ \A a \in Addresses : grant[a] <= grant'[a] /\ grant'[a] <= now + Lifetime
  <2>1. now + Lifetime \in Nat /\ grant \in [Addresses -> Nat]
        /\ \A a \in Addresses : grant[a] <= now + Lifetime
    BY LeaseType, LeaseBounds DEF LeaseInv
  <2>2. grant' \in [Addresses -> Nat]
    BY <1>1, <1>3, <2>1
  <2>3. \A a \in Addresses : grant'[a] = IF a = q.address THEN now + Lifetime ELSE grant[a]
    BY <1>1, <2>1
  <2> QED
    BY <1>3, <2>1, <2>2, <2>3
<1>6. client.asked + Lifetime <= now + Lifetime
  BY LeaseType, LeaseBounds DEF ClientSound, ClientType
<1>7. InTurn(client, n, grant')
  BY <1>1, <1>3, <1>4, <1>5, <1>6 DEF InTurn
<1>8. \A m \in net : InTurn(client, m, grant')
  <2> TAKE m \in net
  <2>1. InTurn(client, m, grant)
    BY LeaseType DEF ClientSound
  <2>2. m.type # "discover" => m.address \in Addresses /\ grant[m.address] <= grant'[m.address]
    BY <1>5, <2>1 DEF InTurn
  <2>3. m.type # "discover" => grant[m.address] \in Nat /\ grant'[m.address] \in Nat
    BY <1>5, <2>2 DEF LeaseInv
  <2>4. client.asked + Lifetime \in Int
    BY LeaseType, LeaseBounds DEF ClientType
  <2> QED
    BY <2>1, <2>2, <2>3, <2>4 DEF InTurn
<1>9. Held(client, grant')
  <2>1. Held(client, grant) /\ client.expires \in Int
    BY LeaseType DEF ClientSound, ClientType
  <2>2. \A a \in Addresses : grant[a] \in Nat /\ grant'[a] \in Nat
    BY <1>5 DEF LeaseInv
  <2> QED
    BY <1>5, <2>1, <2>2 DEF Held
<1>10. /\ net' \subseteq DatagramType
       /\ \A m \in net' : InTurn(client, m, grant') /\ m.session <= nextXid
  BY <1>1, <1>2, <1>4, <1>7, <1>8 DEF LeaseInv
<1>11. /\ client \in ClientType /\ client.asked <= now /\ Requested(client)
       /\ (client.state # "off" => client.xid <= MaxXid) /\ client.session <= nextXid
  BY LeaseType DEF ClientSound
<1> QED
  BY <1>1, <1>5, <1>9, <1>10, <1>11 DEF LeaseInv, ClientSound

\* An offer is taken before anything was requested in its transaction.
LEMMA OfferLease ==
    ASSUME LeaseInv, NEW m \in net, NEW s \in DhcpServers, NEW a \in Addresses,
           Lease!ReceiveOffer(m, s, a)
    PROVE  LeaseInv'
<1>1. PICK never \in Int : never = 0 - 1
  OBVIOUS
<1>2. PICK d : d = [client EXCEPT !.state = "requesting", !.address = a, !.server = s,
                                  !.asked = never, !.send = "request"]
  OBVIOUS
<1>3. /\ d \in ClientType /\ d.xid = client.xid /\ d.session = client.session
      /\ d.state = "requesting" /\ d.asked = never
      /\ d.valid = client.valid /\ d.address = a /\ d.expires = client.expires
  BY <1>2, LeaseType DEF ClientType, Lease!Asking
<1>4. client.state = "selecting" /\ Lease!Becomes(d)
  BY <1>1, <1>2 DEF Lease!ReceiveOffer
<1>5. \A n \in net : InTurn(d, n, grant)
  <2> TAKE n \in net
  <2>1. InTurn(client, n, grant)
    BY LeaseType DEF ClientSound
  <2> QED
    BY <1>3, <1>4, <2>1 DEF InTurn
<1>6. ~client.valid
  BY <1>4, LeaseType DEF ClientSound, Held
<1>7. Held(d, grant) /\ Requested(d)
  BY <1>3, <1>6 DEF Held, Requested, Requests
<1>8. d.asked <= now /\ d.xid <= MaxXid /\ d.session <= nextXid
  BY <1>1, <1>3, <1>4, LeaseType DEF ClientSound
<1>9. ClientSound(d, net, grant, now, nextXid)
  BY <1>3, <1>5, <1>7, <1>8 DEF ClientSound
<1> QED
  BY <1>4, <1>9, LeaseBecomes

\* A refusal takes the lease away.
LEMMA NakLease ==
    ASSUME LeaseInv, NEW m \in net, NEW s \in DhcpServers, Lease!ReceiveNak(m, s)
    PROVE  LeaseInv'
<1>1. PICK i : i = Lease!Invalid(client)
  OBVIOUS
<1>2. /\ i \in ClientType /\ i.xid = client.xid /\ i.session = client.session
      /\ i.asked = 0 - 1 /\ ~i.valid
  BY <1>1, InvalidIs
<1>3. PICK d : d = Lease!Backs(i)
  OBVIOUS
<1>4. /\ d \in ClientType /\ d.xid = client.xid /\ d.session = client.session
      /\ d.asked = 0 - 1 /\ d.state = "backoff" /\ ~d.valid /\ d.send # "request"
  BY <1>2, <1>3 DEF ClientType, Lease!Backs, Lease!Nothing
<1>5. client.state # "off" /\ Lease!Becomes(d)
  BY <1>1, <1>3 DEF Lease!ReceiveNak, Lease!Accepts, Lease!Asking
<1> QED
  BY <1>4, <1>5, BackedSound, LeaseBecomes

\* A lease counts from the first request of its transaction, which no acknowledgement
\* of it in this session precedes; of an acknowledgement that answers a request of
\* another session nothing is claimed.
LEMMA AckLease == ASSUME LeaseInv, NEW m \in net, Lease!ReceiveAck(m) PROVE LeaseInv'
<1>1. /\ m.type = "ack" /\ m.xid = client.xid /\ client.state \in Lease!Asking
      /\ client.state # "selecting"
  BY DEF Lease!ReceiveAck, Lease!Accepts
<1>2. m \in DatagramType /\ InTurn(client, m, grant) /\ m.address \in Addresses
  BY <1>1, LeaseType DEF LeaseInv, ClientSound, InTurn
<1>3. PICK base \in Int : base = Lease!Base
  BY LeaseType DEF ClientType, Lease!Base
<1>4. m.session = client.session => base + Lifetime <= grant[m.address]
  <2>1. m.session = client.session =>
            client.asked >= 0 /\ client.asked + Lifetime <= grant[m.address]
    BY <1>1, <1>2 DEF InTurn, Lease!Asking
  <2> QED
    BY <1>3, <2>1 DEF Lease!Base
<1>5. PICK same \in BOOLEAN, own \in BOOLEAN :
          /\ same = (client.valid /\ client.address = m.address)
          /\ own = (m.session = client.session)
  BY LeaseType DEF ClientType
<1>6. PICK renew \in Int, rebind \in Int, expires \in Int :
          /\ renew = base + Lease!RenewAfter /\ rebind = base + Lease!RebindAfter
          /\ expires = base + Lifetime
  BY <1>3, LeaseBounds DEF Lease!RenewAfter, Lease!RebindAfter
<1>7. PICK probes \in 0 .. 3 : probes = IF same THEN client.probes ELSE 0
  BY LeaseType DEF ClientType
<1>8. PICK state1 \in {"bound", "probing"} : state1 = IF same THEN "bound" ELSE "probing"
  OBVIOUS
<1>9. PICK d : d = [client EXCEPT !.state = state1, !.valid = same, !.own = own,
                        !.probes = probes, !.address = m.address, !.server = m.server,
                        !.send = Lease!Nothing, !.renew = renew, !.rebind = rebind,
                        !.expires = expires]
  OBVIOUS
<1>10. Lease!Becomes(d)
  BY <1>3, <1>5, <1>6, <1>7, <1>8, <1>9 DEF Lease!ReceiveAck
<1>11. d \in ClientType
  <2>1. PICK c : c = [client EXCEPT !.state = state1, !.valid = same, !.own = own,
                          !.probes = probes]
    OBVIOUS
  <2>2. c \in ClientType
    BY <1>8, <2>1, LeaseType DEF ClientType
  <2>3. d = [c EXCEPT !.address = m.address, !.server = m.server, !.send = Lease!Nothing,
                 !.renew = renew, !.rebind = rebind, !.expires = expires]
    BY <1>9, <2>1, LeaseType DEF ClientType
  <2>4. m.server \in DhcpServers \cup {Lease!Nothing}
    BY <1>2 DEF DatagramType
  <2> QED
    BY <1>2, <2>2, <2>3, <2>4 DEF ClientType
<1>12. /\ d.xid = client.xid /\ d.state = state1 /\ d.asked = client.asked /\ d.valid = same
       /\ d.session = client.session /\ d.own = own /\ d.address = m.address
       /\ d.expires = expires /\ d.send # "request"
  BY <1>9, LeaseType DEF ClientType, Lease!Nothing
<1>13. \A n \in net : InTurn(d, n, grant)
  <2> TAKE n \in net
  <2>1. InTurn(client, n, grant)
    BY LeaseType DEF ClientSound
  <2> QED
    BY <1>1, <1>8, <1>12, <2>1 DEF InTurn, Lease!Asking
<1>14. Held(d, grant)
  BY <1>2, <1>4, <1>5, <1>6, <1>8, <1>12 DEF Held
<1>15. d.xid <= MaxXid /\ d.session <= nextXid /\ d.asked <= now
  BY <1>1, <1>12, LeaseType DEF ClientSound, Lease!Asking
<1>16. ClientSound(d, net, grant, now, nextXid)
  BY <1>2, <1>11, <1>12, <1>13, <1>14, <1>15 DEF ClientSound, Requested
<1> QED
  BY <1>10, <1>16, LeaseBecomes

\* The probes of an address, and the end of them (gateway_dhcp_probed).
LEMMA ProbesLease == ASSUME LeaseInv, Lease!Probe \/ Lease!Probed PROVE LeaseInv'
<1>1. CASE Lease!Probe
  <2>1. PICK probes \in 0 .. 3 : probes = client.probes + 1
    BY <1>1, LeaseType DEF Lease!Probe, ClientType
  <2>2. PICK d : d = [client EXCEPT !.probes = probes]
    OBVIOUS
  <2>3. /\ d \in ClientType /\ d.xid = client.xid /\ d.asked = client.asked
        /\ d.session = client.session /\ d.own = client.own /\ d.state = client.state
        /\ d.address = client.address /\ d.expires = client.expires
        /\ d.valid = client.valid /\ d.send = client.send
    BY <2>2, LeaseType DEF ClientType
  <2>4. ClientSound(d, net, grant, now, nextXid)
    BY <1>1, <2>3, WithinSound, LeaseType DEF ClientSound, Held, Requested, Lease!Probe
  <2> QED
    BY <1>1, <2>1, <2>2, <2>4, LeaseBecomes DEF Lease!Probe
<1>2. CASE Lease!Probed
  <2>1. PICK d : d = [client EXCEPT !.state = "bound", !.valid = TRUE]
    OBVIOUS
  <2>2. /\ d \in ClientType /\ d.xid = client.xid /\ d.asked = client.asked
        /\ d.session = client.session /\ d.own = client.own
        /\ d.state = "bound" /\ d.address = client.address /\ d.expires = client.expires
        /\ d.valid = TRUE /\ d.send = client.send
    BY <2>1, LeaseType DEF ClientType
  <2>3. client.state = "probing" /\ client.send # "request" /\ Lease!Becomes(d)
    BY <1>2, <2>1, LeaseType DEF Lease!Probed, ClientSound, Requested, Requests
  <2>4. ClientSound(d, net, grant, now, nextXid)
    BY <2>2, <2>3, WithinSound DEF Requests
  <2> QED
    BY <2>3, <2>4, LeaseBecomes
<1> QED
  BY <1>1, <1>2

\* Time takes nothing back.
LEMMA TickLease == ASSUME LeaseInv, Lease!Tick PROVE LeaseInv'
<1>1. now' \in 0 .. MaxTime /\ now' = now + 1 /\ UNCHANGED <<client, nextXid, net, grant>>
  BY LeaseType, LeaseBounds DEF Lease!Tick
<1>2. \A a \in Addresses : grant'[a] <= now' + Lifetime
  BY <1>1, LeaseType, LeaseBounds DEF LeaseInv
<1>3. client.asked <= now'
  BY <1>1, LeaseType DEF ClientSound, ClientType
<1> QED
  BY <1>1, <1>2, <1>3 DEF LeaseInv, ClientSound

\* A client that is off has sent nothing.
LEMMA LeaseInit == Lease!Init => LeaseInv
<1> SUFFICES ASSUME Lease!Init PROVE LeaseInv
  OBVIOUS
<1>1. PICK never \in Int : never = 0 - 1
  OBVIOUS
<1>2. client = [state |-> "off", xid |-> 0, session |-> 0, server |-> Lease!Nothing,
                address |-> Lease!Nothing, valid |-> FALSE, own |-> FALSE, asked |-> never,
                renew |-> 0, rebind |-> 0, expires |-> 0, send |-> Lease!Nothing, probes |-> 0]
  BY <1>1 DEF Lease!Init, Lease!Cleared
<1>3. client \in ClientType
  BY <1>2, LeaseBounds DEF ClientType
<1>4. client.asked <= 0 /\ Held(client, grant) /\ Requested(client)
  BY <1>1, <1>2 DEF Held, Requested, Requests, Lease!Nothing
<1>5. net = {} /\ now = 0 /\ nextXid = 1 /\ grant = [a \in Addresses |-> 0]
  BY DEF Lease!Init
<1>6. /\ now \in 0 .. MaxTime /\ nextXid \in 1 .. MaxXid
      /\ \A a \in Addresses : grant[a] <= now + Lifetime
  BY <1>5, LeaseBounds
<1>7. client.state = "off" /\ client.session <= nextXid
  BY <1>2, <1>5
<1> QED
  BY <1>3, <1>4, <1>5, <1>6, <1>7 DEF LeaseInv, ClientSound

\* Each step of the client, its servers and the clock keeps the invariant.
LEMMA LeaseStep == ASSUME LeaseInv, Lease!Next \/ UNCHANGED dhcpVars PROVE LeaseInv'
<1>1. CASE UNCHANGED dhcpVars
  BY <1>1 DEF dhcpVars, LeaseInv
<1>2. CASE Lease!Expire \/ Lease!Resume
  BY <1>2, RestartsLease DEF Lease!Expire, Lease!Resume
<1>3. CASE Lease!Receive
  BY <1>3, NakLease, AckLease, OfferLease DEF Lease!Receive
<1> QED
  BY <1>1, <1>2, <1>3, StartLease, OtherStartsLease, CommandsLease, GiveUpLease,
     TimersLease, SendLease, ServeLease, ProbesLease, TickLease DEF Lease!Next

-----------------------------------------------------------------------------
(* The owner of the network and its guardian (NetworkOwner).                 *)

OwnerLeases == Leases \cup {Owner!NoLease}
Written == Owner!Targets \cup {Owner!Half}

OwnerType ==
    [process : {"none", "running", "dead"}, active : BOOLEAN,
     policy : OwnerPolicies \cup {"none"}, lease : OwnerLeases, observed : Written,
     writing : Written, job : BOOLEAN, canceling : BOOLEAN, stale : BOOLEAN, dirty : BOOLEAN,
     look : BOOLEAN, settled : BOOLEAN, refused : BOOLEAN, stopping : BOOLEAN]

GuardianType ==
    [state : {"none", "up", "gone"}, stopped : BOOLEAN, recovering : BOOLEAN,
     bootstrap : BOOLEAN, stopping : BOOLEAN]

JobType ==
    [kind : {"none", "write", "recover"}, target : Written,
     at : {"start", "half", "done", "failed"}, killed : BOOLEAN]

\* What the owner knows is what the kernel has, i, unless it is to look or to write
\* again; while it waits for a job it calls nothing settled.
OwnerSound(o, i) ==
    /\ o \in OwnerType
    /\ o.active => o.policy \in OwnerPolicies
    /\ o.canceling => o.job
    /\ o.active /\ ~o.job /\ ~o.look /\ ~o.dirty => o.observed = i
    /\ o.settled => o.active /\ ~o.job /\ i = Owner!Wanted(o)

OnlyCancels(q) == \A k \in 1 .. Len(q) : q[k] = Owner!Cancel
Canceled(o) == IF o.canceling THEN 1 ELSE 0

\* A write is with the owner, on its way to the guardian, with the process that writes,
\* or its end is on its way back; a cancel that came too late may precede the next one.
Idle(o, j, q, r) ==
    ~o.job /\ j.kind = "none" /\ r = <<>> /\ OnlyCancels(q) /\ Len(q) <= 1

Asks(o, j, q, r) ==
    /\ o.job /\ j.kind = "none" /\ r = <<>>
    /\ \E k \in {1, 2} :
          /\ k <= Len(q) /\ Len(q) <= k + Canceled(o) /\ q[k] \in Owner!Targets
          /\ \A l \in 1 .. Len(q) : l # k => q[l] = Owner!Cancel

Waits(o, j, q, r) ==
    /\ o.job /\ OnlyCancels(q) /\ Len(q) <= Canceled(o)
    /\ \/ j.kind = "write" /\ r = <<>>
       \/ j.kind = "none" /\ Len(r) = 1

Dead == [Owner!NoOwner EXCEPT !.process = "dead"]

\* The guardian starts an owner, or writes what is confirmed, only when nothing of the
\* last owner is left.
Supervised(g, o, j, q, r) ==
    /\ g.recovering <=> j.kind = "recover"
    /\ g.recovering => o.process = "none" /\ ~g.stopped
    /\ g.stopped => o.process = "dead" \/ (o.process = "none" /\ j.kind = "write")
    /\ g.state # "up" => o.process = "none" /\ j.kind = "none" /\ ~g.stopped
    /\ o.process = "none" => o = Owner!NoOwner
    /\ o.process = "dead" => o = Dead
    /\ o.process = "none" \/ g.stopped => q = <<>> /\ r = <<>>
    /\ o.process = "dead" => Len(q) <= 3 /\ Len(r) <= 1 /\ (j.kind # "none" => r = <<>>)
    /\ o.process = "running" => Idle(o, j, q, r) \/ Asks(o, j, q, r) \/ Waits(o, j, q, r)

OwnerInv ==
    /\ installed \in Written
    /\ store \in [confirmed : OwnerPolicies, candidate : OwnerPolicies]
    /\ request \in {"none", "idle", "apply", "confirmed", "closed"}
    /\ guardian \in GuardianType /\ job \in JobType
    /\ toGuardian \in Seq(Owner!Targets \cup {Owner!Cancel}) /\ toOwner \in Seq(BOOLEAN)
    /\ OwnerSound(owner, installed)
    /\ Supervised(guardian, owner, job, toGuardian, toOwner)

InStep(o, j, q, r) == Idle(o, j, q, r) \/ Asks(o, j, q, r) \/ Waits(o, j, q, r)

\* A policy with a lease, or with none, has a target, which is no cancel.
LEMMA TargetsAre ==
    /\ \A p \in OwnerPolicies, l \in OwnerLeases : Owner!Target(p, l) \in Owner!Targets
    /\ Owner!Cancel \notin Owner!Targets
    /\ Owner!NoLease \in OwnerLeases
<1>1. \A p \in OwnerPolicies, l \in OwnerLeases : Owner!Target(p, l) \in Owner!Targets
  BY DEF Owner!Targets, OwnerLeases
<1>2. Owner!Cancel \notin Owner!Targets
  <2> SUFFICES ASSUME NEW p \in OwnerPolicies, NEW l, Owner!Cancel = Owner!Target(p, l) PROVE FALSE
    BY DEF Owner!Targets
  <2>1. Owner!Cancel[1] = "cancel" /\ Owner!Target(p, l)[1] = p
    BY DEF Owner!Cancel, Owner!Target
  <2> QED
    BY <2>1, ServicesAssumption
<1> QED
  BY <1>1, <1>2 DEF OwnerLeases

\* What an active owner wants is a target.
LEMMA WantedIs ==
    ASSUME NEW o \in OwnerType, o.active, o.policy \in OwnerPolicies
    PROVE  Owner!Wanted(o) \in Owner!Targets
  BY TargetsAre DEF OwnerType, Owner!Wanted

\* What a step looks at and leaves alone.
Kept(p, o) ==
    /\ p.process = o.process /\ p.active = o.active /\ p.policy = o.policy /\ p.job = o.job
    /\ p.canceling = o.canceling /\ p.stale = o.stale /\ p.writing = o.writing
    /\ ~p.settled

\* A step begins with nothing settled.
LEMMA BegunSound ==
    ASSUME NEW i, NEW o, OwnerSound(o, i), NEW p, p = Owner!Begun(o)
    PROVE  OwnerSound(p, i) /\ Kept(p, o)
<1>1. /\ p \in OwnerType /\ Kept(p, o) /\ p.look = o.look /\ p.dirty = o.dirty
      /\ p.observed = o.observed
  BY DEF OwnerSound, OwnerType, Owner!Begun, Kept
<1> QED
  BY <1>1 DEF OwnerSound, Kept

\* A lease that expired is given up, and the network is to be written again.
LEMMA ExpiredSound ==
    ASSUME NEW i, NEW o, OwnerSound(o, i), ~o.settled, NEW p \in Owner!Expired(o)
    PROVE  OwnerSound(p, i) /\ Kept(p, o)
<1>1. CASE p = o
  BY <1>1 DEF Kept
<1>2. CASE p = [o EXCEPT !.lease = Owner!NoLease, !.dirty = TRUE]
  <2>1. /\ p \in OwnerType /\ p.process = o.process /\ p.active = o.active /\ p.policy = o.policy
        /\ p.job = o.job /\ p.canceling = o.canceling /\ p.stale = o.stale
        /\ p.writing = o.writing /\ p.settled = o.settled /\ p.dirty = TRUE
    BY <1>2, TargetsAre DEF OwnerSound, OwnerType
  <2> QED
    BY <2>1 DEF OwnerSound, Kept
<1> QED
  BY <1>1, <1>2 DEF Owner!Expired

\* An owner that looks knows what the kernel has; one that does not look need not.
LEMMA ObservedSound ==
    ASSUME installed \in Written, NEW o, OwnerSound(o, installed), ~o.settled,
           NEW p \in Owner!Observed(o)
    PROVE  OwnerSound(p, installed) /\ Kept(p, o) /\ ~p.look
<1>1. CASE p = o /\ ~o.look
  BY <1>1 DEF Kept
<1>2. CASE p = [o EXCEPT !.observed = installed, !.look = FALSE]
  <2>1. /\ p \in OwnerType /\ p.process = o.process /\ p.active = o.active /\ p.policy = o.policy
        /\ p.job = o.job /\ p.canceling = o.canceling /\ p.stale = o.stale
        /\ p.writing = o.writing /\ p.settled = o.settled /\ p.observed = installed
        /\ ~p.look
    BY <1>2 DEF OwnerSound, OwnerType
  <2> QED
    BY <2>1 DEF OwnerSound, Kept
<1> QED
  BY <1>1, <1>2 DEF Owner!Observed

\* The DHCP client gains a lease or loses it.
LEMMA LeasesSound ==
    ASSUME NEW i, NEW o, OwnerSound(o, i), ~o.settled, NEW p \in Owner!LeasesOf(o)
    PROVE  OwnerSound(p, i) /\ Kept(p, o) /\ p.look = o.look
<1> DEFINE Sets(l, dirty) == p = [o EXCEPT !.lease = l, !.dirty = dirty] /\ (o.dirty => dirty)
<1>1. \E l \in OwnerLeases, dirty \in BOOLEAN : Sets(l, dirty)
  <2>1. /\ o.lease \in OwnerLeases /\ o.dirty \in BOOLEAN
        /\ o = [o EXCEPT !.lease = o.lease, !.dirty = o.dirty]
    BY DEF OwnerSound, OwnerType
  <2>2. CASE p = o
    BY <2>1, <2>2
  <2>3. CASE \E l \in OwnerLeases : p = [o EXCEPT !.lease = l]
    <3>1. PICK l \in OwnerLeases : p = [o EXCEPT !.lease = l]
      BY <2>3
    <3>2. p = [o EXCEPT !.lease = l, !.dirty = o.dirty]
      BY <3>1 DEF OwnerSound, OwnerType
    <3> QED
      BY <2>1, <3>2
  <2>4. CASE p = [o EXCEPT !.lease = Owner!NoLease, !.dirty = TRUE]
    BY <2>4, TargetsAre
  <2> QED
    BY <2>2, <2>3, <2>4 DEF Owner!LeasesOf, OwnerLeases
<1>3. PICK l \in OwnerLeases, dirty \in BOOLEAN :
          p = [o EXCEPT !.lease = l, !.dirty = dirty] /\ (o.dirty => dirty)
  BY <1>1
<1>2. /\ p \in OwnerType /\ p.process = o.process /\ p.active = o.active /\ p.policy = o.policy
      /\ p.job = o.job /\ p.canceling = o.canceling /\ p.stale = o.stale /\ p.look = o.look
      /\ p.writing = o.writing /\ p.settled = o.settled /\ p.dirty = dirty
      /\ p.observed = o.observed
  BY <1>3 DEF OwnerSound, OwnerType
<1> QED
  BY <1>3, <1>2 DEF OwnerSound, Kept

\* What a step of the owner begins with (gateway_network_owner_step).
LEMMA PreparedSound ==
    ASSUME installed \in Written, OwnerSound(owner, installed), NEW p \in Owner!Prepared
    PROVE  OwnerSound(p, installed) /\ Kept(p, owner) /\ ~p.look
<1>1. PICK b : b = Owner!Begun(owner)
  OBVIOUS
<1>2. PICK e \in Owner!Expired(b) : \E s \in Owner!Observed(e) : p \in Owner!LeasesOf(s)
  BY <1>1 DEF Owner!Prepared
<1>7. PICK s \in Owner!Observed(e) : p \in Owner!LeasesOf(s)
  BY <1>2
<1>3. OwnerSound(b, installed) /\ Kept(b, owner)
  BY <1>1, BegunSound
<1>4. OwnerSound(e, installed) /\ Kept(e, b)
  BY <1>2, <1>3, ExpiredSound DEF Kept
<1>5. OwnerSound(s, installed) /\ Kept(s, e) /\ ~s.look
  BY <1>7, <1>4, ObservedSound DEF Kept
<1>6. OwnerSound(p, installed) /\ Kept(p, s) /\ ~p.look
  BY <1>7, <1>5, LeasesSound DEF Kept
<1> QED
  BY <1>3, <1>4, <1>5, <1>6 DEF Kept

Sendable == Owner!Targets \cup {Owner!Cancel}

\* What Append does to a sequence, in the form that the channel needs.
LEMMA AppendIs ==
    ASSUME NEW S, NEW q \in Seq(S), NEW x \in S, NEW a, a = Append(q, x)
    PROVE  /\ a \in Seq(S) /\ Len(a) = Len(q) + 1 /\ Len(q) \in Nat /\ Len(a) \in Nat
           /\ a[Len(q) + 1] = x /\ \A k \in 1 .. Len(q) : a[k] = q[k]
  BY AppendProperties, LenProperties

\* What Tail does to a sequence that is not empty.
LEMMA TailIs ==
    ASSUME NEW S, NEW q \in Seq(S), q # <<>>, NEW t, t = Tail(q)
    PROVE  /\ t \in Seq(S) /\ Len(t) = Len(q) - 1 /\ Len(q) \in Nat /\ Len(q) > 0 /\ Len(t) \in Nat
           /\ q[1] \in S /\ \A k \in 1 .. Len(t) : t[k] = q[k + 1]
<1>1. Len(q) \in Nat /\ Len(q) > 0
  BY EmptySeq, LenProperties
<1>2. /\ t \in Seq(S) /\ Len(t) = Len(q) - 1 /\ \A k \in 1 .. Len(t) : t[k] = q[k + 1]
  BY HeadTailProperties
<1>3. q[1] \in S
  BY <1>1, ElementOfSeq
<1> QED
  BY <1>1, <1>2, <1>3

\* The empty sequence is the one with nothing in it.
LEMMA EmptyIs ==
    ASSUME NEW S, NEW q \in Seq(S)
    PROVE  Len(q) \in Nat /\ (Len(q) = 0 <=> q = <<>>)
  BY EmptySeq, LenProperties

\* A cancel behind everything that was asked for.
LEMMA CancelInStep ==
    ASSUME NEW o, NEW p, NEW j, NEW q \in Seq(Sendable), NEW r, NEW a, InStep(o, j, q, r),
           o.canceling \in BOOLEAN, p.job = o.job, o.job, ~o.canceling, p.canceling,
           a = Append(q, Owner!Cancel)
    PROVE  InStep(p, j, a, r) /\ a \in Seq(Sendable)
<1>1. /\ a \in Seq(Sendable) /\ Len(a) = Len(q) + 1 /\ Len(q) \in Nat /\ Len(a) \in Nat
      /\ a[Len(q) + 1] = Owner!Cancel /\ \A k \in 1 .. Len(q) : a[k] = q[k]
  BY AppendIs DEF Sendable
<1>2. Canceled(o) = 0 /\ Canceled(p) = 1
  BY DEF Canceled
<1>3. CASE Asks(o, j, q, r)
  <2>1. PICK k \in {1, 2} : /\ k <= Len(q) /\ Len(q) <= k + Canceled(o) /\ q[k] \in Owner!Targets
                            /\ \A l \in 1 .. Len(q) : l # k => q[l] = Owner!Cancel
    BY <1>3 DEF Asks
  <2>2. k <= Len(a) /\ Len(a) <= k + Canceled(p) /\ a[k] \in Owner!Targets
    BY <1>1, <1>2, <2>1
  <2>3. \A l \in 1 .. Len(a) : l # k => a[l] = Owner!Cancel
    <3> TAKE l \in 1 .. Len(a)
    <3>1. CASE l = Len(q) + 1
      BY <1>1, <3>1
    <3>2. CASE l # Len(q) + 1
      <4>1. l \in 1 .. Len(q)
        BY <1>1, <3>2
      <4> QED
        BY <1>1, <2>1, <4>1
    <3> QED
      BY <3>1, <3>2
  <2> QED
    BY <1>1, <1>3, <2>2, <2>3 DEF Asks, InStep
<1>4. CASE Waits(o, j, q, r)
  <2>1. Len(a) <= 1 /\ OnlyCancels(a)
    <3>1. Len(q) = 0 /\ Len(a) = 1 /\ a[1] = Owner!Cancel
      BY <1>1, <1>2, <1>4 DEF Waits
    <3> QED
      BY <3>1 DEF OnlyCancels
  <2> QED
    BY <1>1, <1>2, <1>4, <2>1 DEF Waits, InStep
<1> QED
  BY <1>1, <1>3, <1>4 DEF InStep, Idle

\* What an owner adds to a write is a cancel.
LEMMA KeepsInStep ==
    ASSUME NEW o, NEW p, NEW j, NEW q, NEW r, InStep(o, j, q, r),
           p.job = o.job, p.canceling = o.canceling
    PROVE  InStep(p, j, q, r)
  BY DEF InStep, Idle, Asks, Waits, Canceled

\* The end of the job leaves at most a cancel behind.
LEMMA ReportedInStep ==
    ASSUME NEW o, NEW p, NEW j, NEW q \in Seq(Sendable), NEW r \in Seq(BOOLEAN), NEW a, NEW t,
           InStep(o, j, q, r), o.canceling \in BOOLEAN, r # <<>>, t = Tail(r), ~p.job,
           a = q \/ (~o.canceling /\ a = Append(q, Owner!Cancel))
    PROVE  /\ InStep(p, j, a, t) /\ a \in Seq(Sendable) /\ t \in Seq(BOOLEAN)
           /\ j.kind = "none" /\ t = <<>> /\ o.job
<1>1. Waits(o, j, q, r) /\ j.kind = "none" /\ Len(r) = 1
  BY DEF InStep, Idle, Asks, Waits
<1>2. t \in Seq(BOOLEAN) /\ t = <<>>
  BY <1>1, TailIs, EmptyIs
<1>3. a \in Seq(Sendable) /\ OnlyCancels(a) /\ Len(a) <= 1
  <2>1. CASE a = q
    BY <1>1, <2>1, EmptyIs DEF Waits, Canceled
  <2>2. CASE ~o.canceling /\ a = Append(q, Owner!Cancel)
    <3>1. Len(q) = 0
      BY <1>1, <2>2, EmptyIs DEF Waits, Canceled
    <3>2. a \in Seq(Sendable) /\ Len(a) = 1 /\ a[1] = Owner!Cancel
      BY <2>2, <3>1, AppendIs DEF Sendable
    <3> QED
      BY <3>2 DEF OnlyCancels
  <2> QED
    BY <2>1, <2>2
<1> QED
  BY <1>1, <1>2, <1>3 DEF InStep, Idle, Waits

\* A write is asked for behind at most one cancel.
LEMMA WriteInStep ==
    ASSUME NEW o, NEW p, NEW j, NEW q \in Seq(Sendable), NEW r, NEW w \in Owner!Targets, NEW a,
           InStep(o, j, q, r), ~o.job, p.job, ~p.canceling, a = Append(q, w)
    PROVE  InStep(p, j, a, r) /\ a \in Seq(Sendable)
<1>1. /\ a \in Seq(Sendable) /\ Len(a) = Len(q) + 1 /\ Len(q) \in Nat /\ Len(a) \in Nat
      /\ a[Len(q) + 1] = w /\ \A k \in 1 .. Len(q) : a[k] = q[k]
  BY AppendIs DEF Sendable
<1>2. Idle(o, j, q, r)
  BY DEF InStep, Asks, Waits
<1>3. Len(a) \in {1, 2} /\ Len(a) <= Len(a) + Canceled(p)
  BY <1>1, <1>2 DEF Idle, Canceled
<1>4. \A l \in 1 .. Len(a) : l # Len(a) => a[l] = Owner!Cancel
  BY <1>1, <1>2 DEF Idle, OnlyCancels
<1>5. Asks(p, j, a, r)
  BY <1>1, <1>2, <1>3, <1>4 DEF Idle, Asks
<1> QED
  BY <1>1, <1>5 DEF InStep

\* The guardian reads what was sent first.
LEMMA ReceiveInStep ==
    ASSUME NEW o, NEW j \in JobType, NEW n, NEW q \in Seq(Sendable), NEW r, NEW t,
           InStep(o, j, q, r), q # <<>>, t = Tail(q), o.canceling \in BOOLEAN,
           q[1] = Owner!Cancel => n.kind = j.kind,
           q[1] # Owner!Cancel => n.kind = "write"
    PROVE  InStep(o, n, t, r) /\ t \in Seq(Sendable) /\ (q[1] # Owner!Cancel => j.kind = "none")
<1>1. /\ t \in Seq(Sendable) /\ Len(t) = Len(q) - 1 /\ Len(q) \in Nat /\ Len(q) > 0
      /\ Len(t) \in Nat
      /\ \A k \in 1 .. Len(t) : t[k] = q[k + 1]
  BY TailIs
<1>2. ASSUME OnlyCancels(q) PROVE OnlyCancels(t) /\ q[1] = Owner!Cancel
  BY <1>1, <1>2 DEF OnlyCancels
<1>3. CASE Idle(o, j, q, r)
  <2>1. Len(t) <= 1
    BY <1>1, <1>3 DEF Idle
  <2> QED
    BY <1>1, <1>2, <1>3, <2>1 DEF Idle, InStep
<1>4. CASE Waits(o, j, q, r)
  <2>1. Len(t) <= Canceled(o)
    BY <1>1, <1>4 DEF Waits, Canceled
  <2> QED
    BY <1>1, <1>2, <1>4, <2>1 DEF Waits, InStep
<1>5. CASE Asks(o, j, q, r)
  <2>1. PICK k \in {1, 2} : /\ k <= Len(q) /\ Len(q) <= k + Canceled(o) /\ q[k] \in Owner!Targets
                            /\ \A l \in 1 .. Len(q) : l # k => q[l] = Owner!Cancel
    BY <1>5 DEF Asks
  <2>2. CASE k = 1
    <3>1. Len(t) <= Canceled(o) /\ OnlyCancels(t)
      BY <1>1, <2>1, <2>2 DEF OnlyCancels, Canceled
    <3>2. q[1] # Owner!Cancel
      BY <2>1, <2>2, TargetsAre
    <3> QED
      BY <1>1, <1>5, <3>1, <3>2 DEF Asks, Waits, InStep
  <2>3. CASE k = 2
    <3>1. q[1] = Owner!Cancel
      BY <1>1, <2>1, <2>3
    <3>2. 1 <= Len(t) /\ Len(t) <= 1 + Canceled(o) /\ t[1] \in Owner!Targets
      BY <1>1, <2>1, <2>3 DEF Canceled
    <3>3. \A l \in 1 .. Len(t) : l # 1 => t[l] = Owner!Cancel
      BY <1>1, <2>1, <2>3
    <3>4. Asks(o, n, t, r)
      BY <1>1, <1>5, <3>1, <3>2, <3>3 DEF Asks
    <3> QED
      BY <1>1, <3>1, <3>4 DEF InStep
  <2> QED
    BY <2>1, <2>2, <2>3
<1> QED
  BY <1>3, <1>4, <1>5 DEF InStep

\* Nothing more than three is on its way, nor more than one end of a job.
LEMMA InStepBounded ==
    ASSUME NEW o, NEW j, NEW q \in Seq(Sendable), NEW r \in Seq(BOOLEAN), InStep(o, j, q, r)
    PROVE  Len(q) <= 3 /\ Len(r) <= 1 /\ (j.kind # "none" => r = <<>>)
<1>1. Len(q) \in Nat /\ Len(r) \in Nat /\ (r = <<>> => Len(r) = 0)
  BY EmptyIs
<1>2. Canceled(o) \in {0, 1}
  BY DEF Canceled
<1>3. CASE Idle(o, j, q, r)
  BY <1>1, <1>3 DEF Idle
<1>4. CASE Asks(o, j, q, r)
  <2>1. PICK k \in {1, 2} : Len(q) <= k + Canceled(o)
    BY <1>4 DEF Asks
  <2>2. Len(q) <= 3
    BY <1>1, <1>2, <2>1
  <2> QED
    BY <1>1, <1>4, <2>2 DEF Asks
<1>5. CASE Waits(o, j, q, r)
  <2>1. Len(q) <= 3
    BY <1>1, <1>2, <1>5 DEF Waits
  <2>2. Len(r) = 1 \/ r = <<>>
    BY <1>5 DEF Waits
  <2>3. Len(r) <= 1
    <3>1. CASE Len(r) = 1
      BY <3>1
    <3>2. CASE r = <<>>
      <4>1. Len(r) = 0
        BY <1>1, <3>2
      <4> QED
        BY <4>1
    <3> QED
      BY <2>2, <3>1, <3>2
  <2>4. j.kind # "none" => r = <<>>
    BY <1>5 DEF Waits
  <2> QED
    BY <2>1, <2>3, <2>4
<1> QED
  BY <1>3, <1>4, <1>5 DEF InStep

\* The running owner's state, and what it changes of the channel.
LEMMA OwnerSteps ==
    ASSUME OwnerInv, Owner!Running, UNCHANGED <<installed, store, guardian, job>>,
           request' \in {"none", "idle", "apply", "confirmed", "closed"},
           OwnerSound(owner', installed), owner'.process = "running",
           toGuardian' \in Seq(Sendable), toOwner' \in Seq(BOOLEAN),
           InStep(owner', job, toGuardian', toOwner')
    PROVE  OwnerInv'
<1>1. Supervised(guardian, owner, job, toGuardian, toOwner) /\ owner.process = "running"
  BY DEF OwnerInv, Owner!Running
<1>2. Supervised(guardian, owner', job, toGuardian', toOwner')
  BY <1>1 DEF Supervised, InStep
<1> QED
  BY <1>2 DEF OwnerInv, Sendable

\* What is known of a running owner.
LEMMA OwnerRuns ==
    ASSUME OwnerInv, Owner!Running
    PROVE  /\ InStep(owner, job, toGuardian, toOwner) /\ owner \in OwnerType
           /\ OwnerSound(owner, installed) /\ owner.process = "running"
           /\ toGuardian \in Seq(Sendable) /\ toOwner \in Seq(BOOLEAN)
           /\ installed \in Written
  BY DEF OwnerInv, Owner!Running, Supervised, InStep, OwnerSound, Sendable

\* A policy is followed from now on; a job under way is cancelled.
LEMMA FollowsSound ==
    ASSUME NEW i, NEW o, OwnerSound(o, i), NEW p \in OwnerPolicies, NEW f, f = Owner!Follows(o, p)
    PROVE  /\ OwnerSound(f, i) /\ f.process = o.process /\ f.job = o.job
           /\ f.canceling = (o.canceling \/ o.job) /\ ~f.settled /\ f.active
<1>1. PICK canceling \in BOOLEAN : canceling = (o.canceling \/ o.job)
  BY DEF OwnerSound, OwnerType
<1>2. PICK c : c = Owner!Cancelled(o)
  OBVIOUS
<1>3. c = [o EXCEPT !.canceling = canceling]
  BY <1>1, <1>2 DEF Owner!Cancelled
<1>4. PICK l \in OwnerLeases :
          l = IF o.active /\ (o.policy \in Leased <=> p \in Leased) THEN c.lease ELSE Owner!NoLease
  BY <1>3, TargetsAre DEF OwnerSound, OwnerType
<1>5. f = [c EXCEPT !.lease = l, !.policy = p, !.active = TRUE, !.stopping = FALSE,
                    !.settled = FALSE, !.dirty = TRUE, !.stale = o.job, !.look = TRUE,
                    !.refused = FALSE]
  BY <1>2, <1>4 DEF Owner!Follows
<1>6. c \in OwnerType /\ c.process = o.process /\ c.job = o.job /\ c.canceling = canceling
  BY <1>3 DEF OwnerSound, OwnerType
<1>7. o.job \in BOOLEAN
  BY DEF OwnerSound, OwnerType
<1>8. f \in OwnerType
  BY ZenonT(60), <1>5, <1>6, <1>7 DEF OwnerType
<1>9. /\ f.process = c.process /\ f.job = c.job /\ f.canceling = c.canceling /\ f.policy = p
      /\ f.look = TRUE /\ f.settled = FALSE /\ f.active = TRUE
  BY <1>5, <1>6 DEF OwnerType
<1> QED
  BY <1>1, <1>6, <1>8, <1>9 DEF OwnerSound

\* The cancel of a job that is cancelled.
LEMMA CancelsInStep ==
    ASSUME OwnerInv, Owner!Running, NEW p, Owner!SendsCancel(owner),
           p.job = owner.job, p.canceling = (owner.canceling \/ owner.job)
    PROVE  InStep(p, job, toGuardian', toOwner) /\ toGuardian' \in Seq(Sendable)
<1>1. CASE owner.job /\ ~owner.canceling
  BY <1>1, OwnerRuns, CancelInStep DEF Owner!SendsCancel, Owner!Cancels, OwnerType
<1>2. CASE ~(owner.job /\ ~owner.canceling)
  <2>1. p.canceling = owner.canceling /\ toGuardian' = toGuardian
    BY <1>2, OwnerRuns DEF OwnerSound, OwnerType, Owner!SendsCancel, Owner!Cancels
  <2> QED
    BY <2>1, OwnerRuns, KeepsInStep
<1> QED
  BY <1>1, <1>2

\* A policy is read, or cannot be.
LEMMA ReadCommandOwner == ASSUME OwnerInv, Owner!ReadCommand PROVE OwnerInv'
<1>1. /\ Owner!Running /\ request' = "idle"
      /\ UNCHANGED <<installed, store, guardian, job, toOwner>>
  BY DEF Owner!ReadCommand
<1>2. CASE /\ owner' = Owner!Follows(owner, IF request = "apply" THEN store.candidate
                                                                ELSE store.confirmed)
           /\ Owner!SendsCancel(owner)
  <2>1. PICK p \in OwnerPolicies :
            p = IF request = "apply" THEN store.candidate ELSE store.confirmed
    BY DEF OwnerInv
  <2>2. /\ OwnerSound(owner', installed) /\ owner'.process = owner.process
        /\ owner'.job = owner.job /\ owner'.canceling = (owner.canceling \/ owner.job)
    BY <1>1, <1>2, <2>1, OwnerRuns, FollowsSound
  <2>3. InStep(owner', job, toGuardian', toOwner) /\ toGuardian' \in Seq(Sendable)
    BY <1>1, <1>2, <2>2, CancelsInStep
  <2> QED
    BY <1>1, <2>2, <2>3, OwnerRuns, OwnerSteps
<1>3. CASE owner' = [owner EXCEPT !.refused = TRUE, !.settled = FALSE] /\ UNCHANGED toGuardian
  <2>1. /\ owner' \in OwnerType /\ owner'.process = owner.process /\ owner'.job = owner.job
        /\ owner'.canceling = owner.canceling /\ owner'.settled = FALSE
        /\ owner'.active = owner.active /\ owner'.policy = owner.policy
        /\ owner'.look = owner.look /\ owner'.dirty = owner.dirty
        /\ owner'.observed = owner.observed
    BY <1>1, <1>3, OwnerRuns DEF OwnerType
  <2>2. OwnerSound(owner', installed)
    BY <1>1, <2>1, OwnerRuns DEF OwnerSound
  <2>3. InStep(owner', job, toGuardian, toOwner)
    BY <1>1, <2>1, OwnerRuns, KeepsInStep
  <2> QED
    BY <1>1, <1>3, <2>1, <2>2, <2>3, OwnerRuns, OwnerSteps
<1> QED
  BY <1>2, <1>3 DEF Owner!ReadCommand

\* An owner that ends leaves its channel to the guardian.
LEMMA DeadIs ==
    ASSUME OwnerInv, Owner!Running, NEW i
    PROVE  /\ OwnerSound(Dead, i) /\ Dead.process = "dead"
           /\ Len(toGuardian) <= 3 /\ Len(toOwner) <= 1 /\ (job.kind # "none" => toOwner = <<>>)
<1>1. Dead.process = "dead"
  BY DEF Dead, Owner!NoOwner
<1>2. OwnerSound(Dead, i)
  BY TargetsAre DEF Dead, Owner!NoOwner, OwnerSound, OwnerType, Written
<1> QED
  BY <1>1, <1>2, OwnerRuns, InStepBounded

\* The client has left: the confirmed policy is followed, or the owner ends.
LEMMA ReadHangUpOwner == ASSUME OwnerInv, Owner!ReadHangUp PROVE OwnerInv'
<1>1. /\ Owner!Running /\ request' = "none"
      /\ UNCHANGED <<installed, store, guardian, job, toOwner>>
  BY DEF Owner!ReadHangUp
<1>2. CASE owner' = Owner!Follows(owner, store.confirmed) /\ Owner!SendsCancel(owner)
  <2>1. PICK p \in OwnerPolicies : p = store.confirmed
    BY DEF OwnerInv
  <2>2. /\ OwnerSound(owner', installed) /\ owner'.process = owner.process
        /\ owner'.job = owner.job /\ owner'.canceling = (owner.canceling \/ owner.job)
    BY <1>1, <1>2, <2>1, OwnerRuns, FollowsSound
  <2>3. InStep(owner', job, toGuardian', toOwner) /\ toGuardian' \in Seq(Sendable)
    BY <1>1, <1>2, <2>2, CancelsInStep
  <2> QED
    BY <1>1, <2>2, <2>3, OwnerRuns, OwnerSteps
<1>3. CASE owner' = [Owner!NoOwner EXCEPT !.process = "dead"] /\ UNCHANGED toGuardian
  <2>1. owner' = Dead
    BY <1>3 DEF Dead
  <2>2. Supervised(guardian, owner, job, toGuardian, toOwner) /\ owner.process = "running"
    BY <1>1 DEF OwnerInv, Owner!Running
  <2>3. Supervised(guardian, owner', job, toGuardian, toOwner)
    BY <1>1, <2>1, <2>2, DeadIs DEF Supervised
  <2> QED
    BY <1>1, <1>3, <2>1, <2>3, DeadIs DEF OwnerInv
<1> QED
  BY <1>2, <1>3 DEF Owner!ReadHangUp

\* A step that cannot look: the job is cancelled, and its end leaves all open.
LEMMA StepBlindOwner == ASSUME OwnerInv, Owner!StepBlind PROVE OwnerInv'
<1>1. /\ Owner!Running /\ owner.active /\ UNCHANGED <<installed, store, request, guardian, job>>
  BY DEF Owner!StepBlind
<1>2. PICK o \in Owner!Expired(Owner!Begun(owner)) :
          IF o.job
          THEN /\ Owner!SendsCancel(o)
               /\ toOwner' = IF Owner!Reported THEN Tail(toOwner) ELSE toOwner
               /\ owner' = IF Owner!Reported
                           THEN [o EXCEPT !.job = FALSE, !.canceling = FALSE, !.dirty = TRUE]
                           ELSE Owner!Cancelled(o)
          ELSE owner' = o /\ UNCHANGED <<toGuardian, toOwner>>
  BY DEF Owner!StepBlind
<1>3. OwnerSound(o, installed) /\ Kept(o, owner) /\ o \in OwnerType /\ o.process = "running"
  <2>1. PICK b : b = Owner!Begun(owner)
    OBVIOUS
  <2>2. OwnerSound(b, installed) /\ Kept(b, owner)
    BY <1>1, <2>1, OwnerRuns, BegunSound
  <2>3. OwnerSound(o, installed) /\ Kept(o, b)
    BY <1>2, <2>1, <2>2, ExpiredSound DEF Kept
  <2> QED
    BY <1>1, <2>2, <2>3, OwnerRuns DEF Kept, OwnerSound
<1>4. o.canceling \in BOOLEAN /\ o.job \in BOOLEAN /\ InStep(o, job, toGuardian, toOwner)
  BY <1>1, <1>3, OwnerRuns, KeepsInStep DEF Kept, OwnerType
<1>5. CASE ~o.job
  BY <1>1, <1>2, <1>3, <1>4, <1>5, OwnerRuns, OwnerSteps DEF OwnerInv
<1>6. CASE o.job /\ Owner!Reported
  <2>1. owner' = [o EXCEPT !.job = FALSE, !.canceling = FALSE, !.dirty = TRUE]
    BY <1>2, <1>6
  <2>2. /\ owner' \in OwnerType /\ owner'.process = "running" /\ ~owner'.job
        /\ ~owner'.canceling /\ owner'.dirty /\ owner'.active = o.active
        /\ owner'.policy = o.policy /\ ~owner'.settled
    BY <1>3, <2>1 DEF OwnerType, Kept
  <2>3. OwnerSound(owner', installed)
    BY <1>3, <2>2 DEF OwnerSound
  <2>4. toGuardian' = toGuardian \/ (~o.canceling /\ toGuardian' = Append(toGuardian, Owner!Cancel))
    BY <1>2, <1>6 DEF Owner!SendsCancel, Owner!Cancels
  <2>5. /\ InStep(owner', job, toGuardian', toOwner') /\ toGuardian' \in Seq(Sendable)
        /\ toOwner' \in Seq(BOOLEAN)
    BY <1>1, <1>2, <1>4, <1>6, <2>2, <2>4, OwnerRuns, ReportedInStep DEF Owner!Reported
  <2> QED
    BY <1>1, <2>2, <2>3, <2>5, OwnerSteps DEF OwnerInv
<1>7. CASE o.job /\ ~Owner!Reported
  <2>1. PICK canceling \in BOOLEAN : canceling = (o.canceling \/ o.job)
    OBVIOUS
  <2>2. owner' = [o EXCEPT !.canceling = canceling] /\ canceling
    BY <1>2, <1>7, <2>1 DEF Owner!Cancelled
  <2>3. /\ owner' \in OwnerType /\ owner'.process = "running" /\ owner'.job /\ owner'.canceling
        /\ owner'.active = o.active /\ owner'.policy = o.policy /\ ~owner'.settled
    BY <1>3, <1>7, <2>2 DEF OwnerType, Kept
  <2>4. OwnerSound(owner', installed)
    BY <1>3, <2>3 DEF OwnerSound
  <2>5. toOwner' = toOwner
    BY <1>2, <1>7
  <2>6. InStep(owner', job, toGuardian', toOwner) /\ toGuardian' \in Seq(Sendable)
    <3>1. CASE o.canceling
      <4>1. toGuardian' = toGuardian
        BY <1>2, <1>7, <3>1 DEF Owner!SendsCancel, Owner!Cancels
      <4> QED
        BY <1>1, <1>4, <1>7, <2>3, <3>1, <4>1, OwnerRuns, KeepsInStep
    <3>2. CASE ~o.canceling
      <4>1. toGuardian' = Append(toGuardian, Owner!Cancel)
        BY <1>2, <1>7, <3>2 DEF Owner!SendsCancel, Owner!Cancels
      <4> QED
        BY <1>1, <1>4, <1>7, <2>3, <3>2, <4>1, OwnerRuns, CancelInStep
    <3> QED
      BY <3>1, <3>2
  <2> QED
    BY <1>1, <2>3, <2>4, <2>5, <2>6, OwnerRuns, OwnerSteps DEF OwnerInv
<1> QED
  BY <1>4, <1>5, <1>6, <1>7

\* The job is awaited, cancelled, or its end is read.
LEMMA StepJobOwner == ASSUME OwnerInv, Owner!StepJob PROVE OwnerInv'
<1>1. /\ Owner!Running /\ owner.active /\ owner.job
      /\ UNCHANGED <<installed, store, request, guardian, job>>
  BY DEF Owner!StepJob
<1>8. PICK o \in Owner!Prepared, cancels \in BOOLEAN : \E p :
          /\ p = IF cancels THEN Owner!Cancelled(o) ELSE o
          /\ cancels => ~o.canceling
          /\ toGuardian' = IF cancels THEN Append(toGuardian, Owner!Cancel) ELSE toGuardian
          /\ toOwner' = IF Owner!Reported THEN Tail(toOwner) ELSE toOwner
          /\ owner' = IF Owner!Reported THEN Owner!JobReported(p, Owner!Answer) ELSE p
  <2>1. PICK o \in Owner!Prepared, late \in BOOLEAN :
          LET cancels == (o.stale \/ o.writing # Owner!Wanted(o) \/ late) /\ ~o.canceling
              p == IF cancels THEN Owner!Cancelled(o) ELSE o
          IN  /\ toGuardian' = IF cancels THEN Append(toGuardian, Owner!Cancel) ELSE toGuardian
              /\ toOwner' = IF Owner!Reported THEN Tail(toOwner) ELSE toOwner
              /\ owner' = IF Owner!Reported THEN Owner!JobReported(p, Owner!Answer) ELSE p
    BY DEF Owner!StepJob
  <2>2. PICK cancels \in BOOLEAN :
          cancels = ((o.stale \/ o.writing # Owner!Wanted(o) \/ late) /\ ~o.canceling)
    OBVIOUS
  <2>3. PICK p : p = IF cancels THEN Owner!Cancelled(o) ELSE o
    OBVIOUS
  <2> QED
    BY <2>1, <2>2, <2>3
<1>2. PICK p :
          /\ p = IF cancels THEN Owner!Cancelled(o) ELSE o
          /\ cancels => ~o.canceling
          /\ toGuardian' = IF cancels THEN Append(toGuardian, Owner!Cancel) ELSE toGuardian
          /\ toOwner' = IF Owner!Reported THEN Tail(toOwner) ELSE toOwner
          /\ owner' = IF Owner!Reported THEN Owner!JobReported(p, Owner!Answer) ELSE p
  BY <1>8
<1>3. OwnerSound(o, installed) /\ Kept(o, owner) /\ o \in OwnerType /\ o.process = "running"
  BY <1>1, OwnerRuns, PreparedSound DEF Kept, OwnerSound
<1>4. o.canceling \in BOOLEAN /\ o.job /\ InStep(o, job, toGuardian, toOwner)
  BY <1>1, <1>3, OwnerRuns, KeepsInStep DEF Kept, OwnerType
<1>5. /\ p \in OwnerType /\ p.process = "running" /\ p.job /\ p.canceling = (o.canceling \/ cancels)
      /\ ~p.settled /\ p.active = o.active /\ p.policy = o.policy
  <2>1. CASE cancels
    <3>1. PICK canceling \in BOOLEAN : canceling = (o.canceling \/ o.job)
      OBVIOUS
    <3>2. p = [o EXCEPT !.canceling = canceling] /\ canceling
      BY <1>2, <1>4, <2>1, <3>1 DEF Owner!Cancelled
    <3> QED
      BY <1>3, <1>4, <2>1, <3>2 DEF OwnerType, Kept
  <2>2. CASE ~cancels
    BY <1>2, <1>3, <1>4, <2>2 DEF Kept
  <2> QED
    BY <2>1, <2>2
<1>6. CASE Owner!Reported
  <2>1. PICK dirty \in BOOLEAN :
            dirty = (p.canceling \/ p.stale \/ p.writing # Owner!Wanted(p))
    OBVIOUS
  <2>2. owner' = [p EXCEPT !.job = FALSE, !.dirty = dirty, !.look = TRUE, !.canceling = FALSE]
    BY <1>2, <1>6, <2>1 DEF Owner!JobReported
  <2>3. /\ owner' \in OwnerType /\ owner'.process = "running" /\ ~owner'.job
        /\ ~owner'.canceling /\ owner'.look /\ owner'.active = o.active
        /\ owner'.policy = o.policy /\ ~owner'.settled
    BY ZenonT(60), <1>5, <2>2 DEF OwnerType
  <2>4. OwnerSound(owner', installed)
    BY <1>3, <2>3 DEF OwnerSound
  <2>5. toGuardian' = toGuardian \/ (~o.canceling /\ toGuardian' = Append(toGuardian, Owner!Cancel))
    BY <1>2
  <2>6. /\ InStep(owner', job, toGuardian', toOwner') /\ toGuardian' \in Seq(Sendable)
        /\ toOwner' \in Seq(BOOLEAN)
    BY <1>1, <1>2, <1>4, <1>6, <2>3, <2>5, OwnerRuns, ReportedInStep DEF Owner!Reported
  <2> QED
    BY <1>1, <2>3, <2>4, <2>6, OwnerSteps DEF OwnerInv
<1>7. CASE ~Owner!Reported
  <2>1. owner' = p /\ toOwner' = toOwner
    BY <1>2, <1>7
  <2>2. OwnerSound(owner', installed)
    BY <1>3, <1>5, <2>1 DEF OwnerSound
  <2>3. InStep(owner', job, toGuardian', toOwner) /\ toGuardian' \in Seq(Sendable)
    <3>1. CASE cancels
      BY <1>1, <1>2, <1>4, <1>5, <2>1, <3>1, OwnerRuns, CancelInStep
    <3>2. CASE ~cancels
      BY <1>1, <1>2, <1>4, <1>5, <2>1, <3>2, OwnerRuns, KeepsInStep
    <3> QED
      BY <3>1, <3>2
  <2> QED
    BY <1>1, <1>5, <2>1, <2>2, <2>3, OwnerRuns, OwnerSteps DEF OwnerInv
<1> QED
  BY <1>6, <1>7

\* A target is handed to the guardian.
LEMMA StepWriteOwner == ASSUME OwnerInv, Owner!StepWrite PROVE OwnerInv'
<1>1. /\ Owner!Running /\ owner.active /\ ~owner.job
      /\ UNCHANGED <<installed, store, request, guardian, job, toOwner>>
  BY DEF Owner!StepWrite
<1>2. PICK o \in Owner!Prepared :
          \/ /\ toGuardian' = Append(toGuardian, Owner!Wanted(o))
             /\ owner' = [o EXCEPT !.writing = Owner!Wanted(o), !.stale = FALSE, !.job = TRUE,
                                   !.dirty = FALSE]
          \/ owner' = o /\ UNCHANGED toGuardian
  BY DEF Owner!StepWrite
<1>3. OwnerSound(o, installed) /\ Kept(o, owner) /\ o \in OwnerType /\ o.process = "running"
  BY <1>1, OwnerRuns, PreparedSound DEF Kept, OwnerSound
<1>4. o.active /\ ~o.job /\ ~o.canceling /\ InStep(o, job, toGuardian, toOwner)
  BY <1>1, <1>3, OwnerRuns, KeepsInStep DEF Kept, OwnerSound
<1>5. CASE owner' = o /\ UNCHANGED toGuardian
  BY <1>1, <1>3, <1>4, <1>5, OwnerRuns, OwnerSteps DEF OwnerInv
<1>6. CASE /\ toGuardian' = Append(toGuardian, Owner!Wanted(o))
           /\ owner' = [o EXCEPT !.writing = Owner!Wanted(o), !.stale = FALSE, !.job = TRUE,
                                 !.dirty = FALSE]
  <2>1. PICK w \in Owner!Targets : w = Owner!Wanted(o)
    BY <1>3, <1>4, WantedIs DEF OwnerSound
  <2>2. w \in Written
    BY DEF Written
  <2>3. owner' = [o EXCEPT !.writing = w, !.stale = FALSE, !.job = TRUE, !.dirty = FALSE]
    BY <1>6, <2>1
  <2>4. /\ owner' \in OwnerType /\ owner'.process = "running" /\ owner'.job
        /\ owner'.canceling = o.canceling /\ owner'.active = o.active
        /\ owner'.policy = o.policy /\ ~owner'.settled
    BY <1>3, <2>2, <2>3 DEF OwnerType, Kept
  <2>5. OwnerSound(owner', installed)
    BY <1>3, <1>4, <2>4 DEF OwnerSound
  <2>6. InStep(owner', job, toGuardian', toOwner) /\ toGuardian' \in Seq(Sendable)
    BY <1>1, <1>4, <1>6, <2>1, <2>4, OwnerRuns, WriteInStep
  <2> QED
    BY <1>1, <2>4, <2>5, <2>6, OwnerRuns, OwnerSteps DEF OwnerInv
<1> QED
  BY <1>2, <1>5, <1>6

\* What is wanted was observed, and nothing is under way.
LEMMA StepSettledOwner == ASSUME OwnerInv, Owner!StepSettled PROVE OwnerInv'
<1>1. /\ Owner!Running /\ owner.active /\ ~owner.job
      /\ UNCHANGED <<installed, store, request, guardian, job, toGuardian, toOwner>>
  BY DEF Owner!StepSettled
<1>2. PICK o \in Owner!Prepared :
          ~o.dirty /\ o.observed = Owner!Wanted(o) /\ owner' = [o EXCEPT !.settled = TRUE]
  BY DEF Owner!StepSettled
<1>3. OwnerSound(o, installed) /\ Kept(o, owner) /\ o \in OwnerType /\ o.process = "running"
  BY <1>1, OwnerRuns, PreparedSound DEF Kept, OwnerSound
<1>4. o.active /\ ~o.job /\ ~o.canceling /\ InStep(o, job, toGuardian, toOwner)
  BY <1>1, <1>3, OwnerRuns, KeepsInStep DEF Kept, OwnerSound
<1>5. /\ owner' \in OwnerType /\ owner'.process = "running" /\ owner'.job = o.job
      /\ owner'.canceling = o.canceling /\ owner'.active = o.active
      /\ owner'.policy = o.policy /\ owner'.lease = o.lease /\ owner'.look = o.look
      /\ owner'.dirty = o.dirty /\ owner'.observed = o.observed
  BY <1>2, <1>3 DEF OwnerType
<1>6. o.observed = installed
  <2>1. ~o.look
    BY <1>1, OwnerRuns, PreparedSound
  <2> QED
    BY <1>2, <1>3, <1>4, <2>1 DEF OwnerSound
<1>7. OwnerSound(owner', installed)
  BY <1>2, <1>3, <1>4, <1>5, <1>6 DEF OwnerSound, Owner!Wanted
<1>8. InStep(owner', job, toGuardian, toOwner)
  BY <1>4, <1>5, KeepsInStep
<1> QED
  BY <1>1, <1>5, <1>7, <1>8, OwnerRuns, OwnerSteps DEF OwnerInv

\* No lease is looked for any more: a job under way is cancelled.
LEMMA StopLeasesOwner == ASSUME OwnerInv, Owner!StopLeases PROVE OwnerInv'
<1>1. Owner!Running /\ UNCHANGED <<installed, store, request, guardian, job, toOwner>>
  BY DEF Owner!StopLeases
<1>2. PICK canceling \in BOOLEAN : canceling = (owner.canceling \/ owner.job)
  OBVIOUS
<1>3. PICK c : c = Owner!Cancelled(owner)
  OBVIOUS
<1>4. c = [owner EXCEPT !.canceling = canceling]
  BY <1>2, <1>3 DEF Owner!Cancelled
<1>5. /\ c \in OwnerType /\ c.process = "running" /\ c.job = owner.job /\ c.canceling = canceling
      /\ c.active = owner.active /\ c.policy = owner.policy /\ owner.job \in BOOLEAN
  BY <1>1, <1>4, OwnerRuns DEF OwnerType
<1>6. owner' = [c EXCEPT !.lease = Owner!NoLease, !.settled = FALSE, !.stopping = TRUE,
                         !.dirty = TRUE, !.stale = owner.job]
  BY <1>3 DEF Owner!StopLeases
<1>7. /\ owner' \in OwnerType /\ owner'.process = "running" /\ owner'.job = owner.job
      /\ owner'.canceling = canceling /\ owner'.active = owner.active
      /\ owner'.policy = owner.policy /\ ~owner'.settled /\ owner'.dirty
  BY <1>5, <1>6, TargetsAre DEF OwnerType
<1>8. OwnerSound(owner', installed)
  <2>1. canceling => owner.job
    BY <1>1, <1>2, OwnerRuns DEF OwnerSound
  <2> QED
    BY <1>1, <1>7, <2>1, OwnerRuns DEF OwnerSound
<1>9. InStep(owner', job, toGuardian', toOwner) /\ toGuardian' \in Seq(Sendable)
  <2>1. owner'.job = owner.job /\ owner'.canceling = (owner.canceling \/ owner.job)
    BY <1>2, <1>7
  <2>2. Owner!SendsCancel(owner)
    BY DEF Owner!StopLeases
  <2> QED
    BY <1>1, <2>1, <2>2, CancelsInStep
<1> QED
  BY <1>1, <1>7, <1>8, <1>9, OwnerRuns, OwnerSteps DEF OwnerInv

\* The process that writes, the guardian and the client leave the owner alone.
LEMMA ConnectOwner == ASSUME OwnerInv, Owner!Connect PROVE OwnerInv'
<1>1. UNCHANGED <<installed, store, owner, job, toGuardian, toOwner>>
  BY DEF Owner!Connect
<1>2. CASE UNCHANGED guardian /\ request' = "idle"
  BY <1>1, <1>2 DEF OwnerInv
<1>3. CASE /\ guardian.state \in {"none", "gone"} /\ UNCHANGED request
           /\ guardian' = [state |-> "up", stopped |-> FALSE, recovering |-> FALSE,
                           bootstrap |-> FALSE, stopping |-> FALSE]
  <2>1. guardian' \in GuardianType
    BY <1>3 DEF GuardianType
  <2>2. Supervised(guardian', owner, job, toGuardian, toOwner)
    BY <1>3 DEF OwnerInv, Supervised, Owner!NoOwner
  <2> QED
    BY <1>1, <1>3, <2>1, <2>2 DEF OwnerInv
<1> QED
  BY <1>2, <1>3 DEF Owner!Connect

\* The client writes a candidate, confirms it, or leaves.
LEMMA ClientOwner ==
    ASSUME OwnerInv, Owner!Command \/ Owner!Commit \/ Owner!HangUp
    PROVE  OwnerInv'
<1>1. UNCHANGED <<installed, owner, guardian, job, toGuardian, toOwner>>
  BY DEF Owner!Command, Owner!Commit, Owner!HangUp
<1>2. /\ request' \in {"none", "idle", "apply", "confirmed", "closed"}
      /\ store' \in [confirmed : OwnerPolicies, candidate : OwnerPolicies]
  BY DEF OwnerInv, Owner!Command, Owner!Commit, Owner!HangUp
<1> QED
  BY <1>1, <1>2 DEF OwnerInv

\* What is written is the target of a job, which the owner waits for when it runs.
LEMMA JobWritesOwner == ASSUME OwnerInv, Owner!JobWrites PROVE OwnerInv'
<1>1. /\ job.kind # "none" /\ UNCHANGED <<store, request, owner, guardian, toGuardian, toOwner>>
      /\ \E at1 \in {"half", "done", "failed"} : job' = [job EXCEPT !.at = at1]
      /\ installed' \in {installed, Owner!Half, job.target}
  BY DEF Owner!JobWrites
<1>2. job' \in JobType /\ job'.kind = job.kind /\ installed' \in Written
  BY <1>1 DEF OwnerInv, JobType, Written
<1>3. OwnerSound(owner, installed')
  <2>1. ~(owner.active /\ ~owner.job) /\ ~owner.settled
    <3>1. CASE owner.process = "running"
      BY <1>1, <3>1 DEF OwnerInv, Supervised, Idle, Asks, Waits, OwnerSound
    <3>2. CASE owner.process \in {"none", "dead"}
      BY <3>2 DEF OwnerInv, Supervised, Dead, Owner!NoOwner
    <3> QED
      BY <3>1, <3>2 DEF OwnerInv, OwnerSound, OwnerType
  <2> QED
    BY <2>1 DEF OwnerInv, OwnerSound
<1>4. Supervised(guardian, owner, job', toGuardian, toOwner)
  BY <1>2 DEF OwnerInv, Supervised, Idle, Asks, Waits
<1> QED
  BY <1>1, <1>2, <1>3, <1>4 DEF OwnerInv

\* A job is told to end.
LEMMA KilledIs ==
    ASSUME NEW j \in JobType, NEW k, k = Owner!Killed(j)
    PROVE  k \in JobType /\ k.kind = j.kind
  BY DEF JobType, Owner!Killed

\* A job of the same kind is as good as the other.
LEMMA SupervisedKind ==
    ASSUME NEW g, NEW o, NEW j, NEW k, NEW q, NEW r, Supervised(g, o, j, q, r), k.kind = j.kind
    PROVE  Supervised(g, o, k, q, r)
  BY DEF Supervised, Idle, Asks, Waits

\* A new process writes a target.
LEMMA StartedIs ==
    ASSUME NEW kind \in {"write", "recover"}, NEW target \in Owner!Targets,
           NEW j, j = Owner!Started(kind, target)
    PROVE  j \in JobType /\ j.kind = kind
  BY DEF JobType, Owner!Started, Owner!NoJob, Written

\* The first of the cancels and writes is read.
LEMMA ReceiveOwner == ASSUME OwnerInv, Owner!Receive PROVE OwnerInv'
<1>1. /\ Owner!Running /\ toGuardian # <<>> /\ toGuardian' = Tail(toGuardian)
      /\ UNCHANGED <<installed, store, request, owner, guardian, toOwner>>
  BY DEF Owner!Receive
<1>2. job \in JobType
  BY DEF OwnerInv
<1>3. toGuardian[1] \in Sendable
  BY <1>1, OwnerRuns, TailIs
<1>4. /\ job' \in JobType
      /\ toGuardian[1] = Owner!Cancel => job'.kind = job.kind
      /\ toGuardian[1] # Owner!Cancel => job'.kind = "write"
  <2>1. CASE toGuardian[1] = Owner!Cancel
    BY <1>2, <2>1, KilledIs DEF Owner!Receive
  <2>2. CASE toGuardian[1] # Owner!Cancel /\ job.kind = "none"
    BY <1>3, <2>2, StartedIs DEF Owner!Receive, Sendable
  <2>3. CASE toGuardian[1] # Owner!Cancel /\ job.kind # "none"
    <3>1. Len(toGuardian) \in Nat /\ 1 <= Len(toGuardian)
      BY <1>1, OwnerRuns, TailIs
    <3>2. ~OnlyCancels(toGuardian)
      BY <2>3, <3>1 DEF OnlyCancels
    <3>3. Asks(owner, job, toGuardian, toOwner)
      BY <1>1, <3>2, OwnerRuns DEF InStep, Idle, Waits
    <3>4. job.kind = "none"
      BY <3>3 DEF Asks
    <3> QED
      BY <2>3, <3>4
  <2> QED
    BY <2>1, <2>2, <2>3
<1>5. InStep(owner, job', toGuardian', toOwner) /\ toGuardian' \in Seq(Sendable)
  BY <1>1, <1>2, <1>4, OwnerRuns, ReceiveInStep DEF OwnerType
<1>6. Supervised(guardian, owner, job, toGuardian, toOwner) /\ owner.process = "running"
  BY <1>1 DEF OwnerInv, Owner!Running
<1>7. job'.kind # "recover"
  BY <1>5, <1>6 DEF InStep, Idle, Asks, Waits
<1>8. Supervised(guardian, owner, job', toGuardian', toOwner)
  BY <1>5, <1>6, <1>7 DEF Supervised, InStep
<1> QED
  BY <1>1, <1>4, <1>5, <1>8 DEF OwnerInv, Sendable

\* The process that writes takes too long.
LEMMA OverdueOwner == ASSUME OwnerInv, Owner!Overdue PROVE OwnerInv'
<1>1. /\ job' = Owner!Killed(job)
      /\ UNCHANGED <<installed, store, request, owner, guardian, toGuardian, toOwner>>
  BY DEF Owner!Overdue
<1>2. job' \in JobType /\ job'.kind = job.kind
  BY <1>1, KilledIs DEF OwnerInv
<1> QED
  BY <1>1, <1>2, SupervisedKind DEF OwnerInv

\* A guardian starts an owner when nothing of the last one is left.
LEMMA StartOwnerOwner == ASSUME OwnerInv, Owner!StartOwner PROVE OwnerInv'
<1>1. /\ guardian.state = "up" /\ owner.process = "none" /\ job.kind = "none"
      /\ ~guardian.recovering /\ toGuardian' = <<>> /\ toOwner' = <<>>
      /\ UNCHANGED <<installed, store, request, guardian, job>>
  BY DEF Owner!StartOwner
<1>2. ~guardian.stopped /\ owner = Owner!NoOwner
  BY <1>1 DEF OwnerInv, Supervised
<1>3. PICK n : n = [Owner!NoOwner EXCEPT !.process = "running"]
  OBVIOUS
<1>4. /\ OwnerSound(n, installed) /\ n.process = "running" /\ ~n.job /\ ~n.canceling
  <2>1. /\ n \in OwnerType /\ n.process = "running" /\ ~n.job /\ ~n.canceling /\ ~n.active
        /\ ~n.settled
    BY <1>3, TargetsAre DEF Owner!NoOwner, OwnerType, Written
  <2> QED
    BY <2>1 DEF OwnerSound
<1>5. CASE owner' \in {n, Owner!Follows(n, store.confirmed)}
  <2>1. OwnerSound(owner', installed) /\ owner'.process = "running" /\ ~owner'.job
    <3>1. PICK p \in OwnerPolicies : p = store.confirmed
      BY DEF OwnerInv
    <3> QED
      BY <1>4, <1>5, <3>1, FollowsSound
  <2>2. Idle(owner', job, toGuardian', toOwner')
    BY <1>1, <2>1, EmptyIs DEF Idle, OnlyCancels
  <2>3. Supervised(guardian, owner', job, toGuardian', toOwner')
    BY <1>1, <1>2, <2>1, <2>2 DEF OwnerInv, Supervised
  <2> QED
    BY <1>1, <2>1, <2>3, EmptyIs DEF OwnerInv
<1>6. CASE owner' = [Owner!NoOwner EXCEPT !.process = "dead"]
  <2>1. owner' = Dead /\ Dead.process = "dead" /\ ~Dead.active /\ ~Dead.settled
        /\ ~Dead.canceling /\ Dead \in OwnerType
    BY <1>6, TargetsAre DEF Dead, Owner!NoOwner, OwnerType, Written
  <2>2. OwnerSound(owner', installed)
    BY <2>1 DEF OwnerSound
  <2>3. Supervised(guardian, owner', job, toGuardian', toOwner')
    BY <1>1, <1>2, <2>1, EmptyIs DEF OwnerInv, Supervised
  <2> QED
    BY <1>1, <2>2, <2>3, EmptyIs DEF OwnerInv
<1> QED
  BY <1>3, <1>5, <1>6 DEF Owner!StartOwner

\* In its turn the guardian writes what is confirmed once its owner is gone, or exits.
LEMMA TurnsOwner ==
    ASSUME OwnerInv, NEW g \in GuardianType, NEW o, NEW j \in JobType, Owner!Turns(g, o, j),
           request' \in {"none", "idle", "apply", "confirmed", "closed"},
           toGuardian' \in Seq(Sendable), toOwner' \in Seq(BOOLEAN), OwnerSound(o, installed),
           g.recovering <=> j.kind = "recover",
           g.recovering => o.process = "none" /\ ~g.stopped,
           g.stopped => o.process \in {"none", "dead"},
           g.state # "up" => o.process = "none" /\ j.kind = "none" /\ ~g.stopped,
           o.process = "none" => o = Owner!NoOwner,
           o.process = "dead" => o = Dead,
           o.process = "none" \/ g.stopped => toGuardian' = <<>> /\ toOwner' = <<>>,
           o.process = "dead" => /\ Len(toGuardian') <= 3 /\ Len(toOwner') <= 1
                                 /\ j.kind # "none" => toOwner' = <<>>,
           o.process = "running" => InStep(o, j, toGuardian', toOwner')
    PROVE  OwnerInv'
<1>1. owner' = o /\ UNCHANGED <<installed, store>>
  BY DEF Owner!Turns
<1>2. CASE g.stopped /\ o.process = "none" /\ j.kind = "none" /\ ~g.recovering
  <2>1. /\ job' = Owner!Started("recover", Owner!Target(store.confirmed, Owner!NoLease))
        /\ guardian' = [g EXCEPT !.recovering = TRUE, !.stopped = FALSE]
    BY <1>2 DEF Owner!Turns
  <2>2. job' \in JobType /\ job'.kind = "recover"
    <3>1. PICK p \in OwnerPolicies : p = store.confirmed
      BY DEF OwnerInv
    <3>2. PICK w \in Owner!Targets : w = Owner!Target(store.confirmed, Owner!NoLease)
      BY <3>1, TargetsAre
    <3> QED
      BY <2>1, <3>2, StartedIs
  <2>3. /\ guardian' \in GuardianType /\ guardian'.recovering /\ ~guardian'.stopped
        /\ guardian'.state = g.state
    BY <2>1 DEF GuardianType
  <2>4. Supervised(guardian', o, job', toGuardian', toOwner')
    BY <1>2, <2>2, <2>3 DEF Supervised
  <2> QED
    BY <1>1, <2>2, <2>3, <2>4 DEF OwnerInv, Sendable
<1>3. CASE ~(g.stopped /\ o.process = "none" /\ j.kind = "none" /\ ~g.recovering)
  <2>1. /\ job' = j
        /\ \/ guardian' = g
           \/ /\ guardian' = [g EXCEPT !.state = "gone"]
              /\ o.process = "none" /\ j.kind = "none" /\ ~g.recovering
    BY <1>3 DEF Owner!Turns
  <2>2. /\ guardian' \in GuardianType /\ guardian'.recovering = g.recovering
        /\ guardian'.stopped = g.stopped
        /\ guardian'.state = g.state \/ (o.process = "none" /\ j.kind = "none" /\ ~g.recovering)
    BY <2>1 DEF GuardianType
  <2>3. g.stopped => o.process = "dead" \/ (o.process = "none" /\ j.kind = "write")
    BY <1>3 DEF JobType
  <2>4. guardian'.state # "up" => o.process = "none" /\ j.kind = "none" /\ ~g.stopped
    BY <1>3, <2>2
  <2>5. Supervised(guardian', o, j, toGuardian', toOwner')
    BY <2>2, <2>3, <2>4 DEF Supervised, InStep
  <2> QED
    BY <1>1, <2>1, <2>2, <2>5 DEF OwnerInv, Sendable
<1> QED
  BY <1>2, <1>3

\* The parts of the invariant.
LEMMA OwnerTypes ==
    ASSUME OwnerInv
    PROVE  /\ Supervised(guardian, owner, job, toGuardian, toOwner) /\ guardian \in GuardianType
           /\ job \in JobType /\ OwnerSound(owner, installed) /\ owner \in OwnerType
           /\ toGuardian \in Seq(Sendable) /\ toOwner \in Seq(BOOLEAN)
  BY DEF OwnerInv, OwnerSound, Sendable

\* There is no job.
LEMMA NoJobIs == Owner!NoJob \in JobType /\ Owner!NoJob.kind = "none"
  BY DEF Owner!NoJob, JobType, Written

\* Neither no owner nor a dead one claims anything.
LEMMA NobodyIs ==
    /\ \A i : OwnerSound(Owner!NoOwner, i) /\ OwnerSound(Dead, i)
    /\ Owner!NoOwner.process = "none" /\ Dead.process = "dead"
<1>1. /\ Owner!NoOwner \in OwnerType /\ ~Owner!NoOwner.active /\ ~Owner!NoOwner.settled
      /\ ~Owner!NoOwner.canceling /\ Owner!NoOwner.process = "none"
  BY TargetsAre DEF Owner!NoOwner, OwnerType, Written
<1>2. /\ Dead \in OwnerType /\ ~Dead.active /\ ~Dead.settled /\ ~Dead.canceling
      /\ Dead.process = "dead"
  BY <1>1 DEF Dead, OwnerType
<1> QED
  BY <1>1, <1>2 DEF OwnerSound

\* The process that writes has ended, and its end is told to an owner that waits for it.
LEMMA ReapJobOwner == ASSUME OwnerInv, Owner!ReapJob PROVE OwnerInv'
<1>1. /\ job.kind # "none" /\ UNCHANGED <<request, toGuardian>>
      /\ request' \in {"none", "idle", "apply", "confirmed", "closed"}
  BY DEF Owner!ReapJob, OwnerInv
<1>2. PICK ok \in BOOLEAN :
          /\ ok = (job.at = "done")
          /\ toOwner' = IF guardian.recovering \/ guardian.stopped \/ owner.process = "none"
                        THEN toOwner ELSE Append(toOwner, ok)
  BY DEF Owner!ReapJob
<1>3. CASE guardian.recovering
  <2>1. PICK gone \in {"gone", guardian.state} :
          Owner!Turns([guardian EXCEPT !.recovering = FALSE, !.bootstrap = TRUE, !.state = gone],
                      owner, Owner!NoJob)
    <3>1. PICK r : r = [guardian EXCEPT !.recovering = FALSE, !.bootstrap = TRUE]
      OBVIOUS
    <3>2. \/ Owner!Turns(r, owner, Owner!NoJob)
          \/ Owner!Turns([r EXCEPT !.state = "gone"], owner, Owner!NoJob)
      BY <1>3, <3>1 DEF Owner!ReapJob
    <3>3. /\ r = [guardian EXCEPT !.recovering = FALSE, !.bootstrap = TRUE,
                                  !.state = guardian.state]
          /\ [r EXCEPT !.state = "gone"] = [guardian EXCEPT !.recovering = FALSE,
                                                !.bootstrap = TRUE, !.state = "gone"]
      BY <3>1, OwnerTypes DEF GuardianType
    <3> QED
      BY <3>2, <3>3
  <2>2. PICK g : g = [guardian EXCEPT !.recovering = FALSE, !.bootstrap = TRUE, !.state = gone]
    OBVIOUS
  <2>3. g \in GuardianType /\ ~g.recovering /\ g.stopped = guardian.stopped
    BY <2>2, OwnerTypes DEF GuardianType
  <2>4. /\ owner.process = "none" /\ ~g.stopped /\ owner = Owner!NoOwner
        /\ toGuardian' = <<>> /\ toOwner' = <<>>
    BY <1>1, <1>2, <1>3, <2>3, OwnerTypes DEF Supervised
  <2>5. toGuardian' \in Seq(Sendable) /\ toOwner' \in Seq(BOOLEAN)
    BY <2>4, EmptySeq
  <2>6. Owner!Turns(g, owner, Owner!NoJob)
    BY <2>1, <2>2
  <2>7. OwnerSound(owner, installed)
    BY OwnerTypes
  <2> QED
    BY <1>1, <2>3, <2>4, <2>5, <2>6, <2>7, NoJobIs, TurnsOwner
<1>4. CASE ~guardian.recovering
  <2>1. Owner!Turns(guardian, owner, Owner!NoJob)
    BY <1>4 DEF Owner!ReapJob
  <2>2. job.kind = "write"
    BY <1>1, <1>4, OwnerTypes DEF Supervised, JobType
  <2>3. guardian.state = "up"
    BY <1>1, OwnerTypes DEF Supervised
  <2>4. CASE guardian.stopped \/ owner.process = "none"
    <3>1. toGuardian' = <<>> /\ toOwner' = <<>> /\ owner.process \in {"none", "dead"}
      BY <1>1, <1>2, <2>4, OwnerTypes DEF Supervised
    <3>2. Len(toGuardian') <= 3 /\ Len(toOwner') <= 1
      <4>1. Len(toGuardian') = 0 /\ Len(toOwner') = 0
        BY <3>1
      <4> QED
        BY <4>1
    <3>3. /\ toGuardian' \in Seq(Sendable) /\ toOwner' \in Seq(BOOLEAN)
          /\ owner.process = "none" => owner = Owner!NoOwner
          /\ owner.process = "dead" => owner = Dead
      BY <3>1, OwnerTypes DEF Supervised
    <3> QED
      BY <1>1, <1>4, <2>1, <2>3, <3>1, <3>2, <3>3, OwnerTypes, NoJobIs, TurnsOwner
  <2>5. CASE ~guardian.stopped /\ owner.process # "none"
    <3>1. toOwner = <<>>
      BY <2>2, <2>5, OwnerTypes DEF Supervised, Idle, Asks, Waits, OwnerType
    <3>2. toOwner' = Append(toOwner, ok) /\ toOwner' \in Seq(BOOLEAN) /\ Len(toOwner') = 1
      <4>1. toOwner' = Append(toOwner, ok) /\ Len(toOwner) = 0
        BY <1>2, <1>4, <2>5, <3>1
      <4> QED
        BY <4>1, OwnerTypes, AppendIs
    <3>3. owner.process = "running" => InStep(owner, Owner!NoJob, toGuardian', toOwner')
      BY <1>1, <2>2, <3>2, OwnerTypes, NoJobIs DEF Supervised, Idle, Asks, Waits, InStep
    <3>4. owner.process = "dead" => owner = Dead /\ Len(toGuardian') <= 3 /\ Len(toOwner') <= 1
      BY <1>1, <3>2, OwnerTypes DEF Supervised
    <3>5. toGuardian' \in Seq(Sendable)
      BY <1>1, OwnerTypes
    <3> QED
      BY <1>1, <1>4, <2>1, <2>3, <2>5, <3>2, <3>3, <3>4, <3>5, OwnerTypes, NoJobIs, TurnsOwner
  <2> QED
    BY <2>4, <2>5
<1> QED
  BY <1>3, <1>4

\* The owner is killed, and what it started with it.
LEMMA StopOwnerOwner == ASSUME OwnerInv, Owner!StopOwner PROVE OwnerInv'
<1>1. /\ owner.process # "none" /\ ~guardian.stopped
      /\ guardian' = [guardian EXCEPT !.stopped = TRUE]
      /\ owner' = [Owner!NoOwner EXCEPT !.process = "dead"] /\ job' = Owner!Killed(job)
      /\ request' = "none" /\ toGuardian' = <<>> /\ toOwner' = <<>>
      /\ UNCHANGED <<installed, store>>
  BY DEF Owner!StopOwner
<1>2. owner' = Dead
  BY <1>1 DEF Dead
<1>3. job' \in JobType /\ job'.kind = job.kind
  BY <1>1, KilledIs, OwnerTypes
<1>4. /\ guardian' \in GuardianType /\ guardian'.stopped /\ guardian'.state = guardian.state
      /\ guardian'.recovering = guardian.recovering
  BY <1>1, OwnerTypes DEF GuardianType
<1>5. ~guardian.recovering /\ job.kind # "recover" /\ guardian.state = "up"
  BY <1>1, OwnerTypes DEF Supervised
<1>6. Len(toGuardian') <= 3 /\ Len(toOwner') <= 1
  <2>1. Len(toGuardian') = 0 /\ Len(toOwner') = 0
    BY <1>1
  <2> QED
    BY <2>1
<1>7. Supervised(guardian', owner', job', toGuardian', toOwner')
  BY <1>1, <1>2, <1>3, <1>4, <1>5, <1>6, NobodyIs DEF Supervised
<1> QED
  BY <1>1, <1>2, <1>3, <1>4, <1>7, NobodyIs, EmptySeq DEF OwnerInv

\* The owner that was killed is gone.
LEMMA ReapOwnerOwner == ASSUME OwnerInv, Owner!ReapOwner PROVE OwnerInv'
<1>1. /\ owner.process = "dead" /\ guardian.stopped
      /\ Owner!Turns(guardian, Owner!NoOwner, Owner!Killed(job))
      /\ UNCHANGED <<request, toGuardian, toOwner>>
  BY DEF Owner!ReapOwner
<1>2. PICK k \in JobType : k = Owner!Killed(job) /\ k.kind = job.kind
  BY KilledIs, OwnerTypes
<1>3. /\ ~guardian.recovering /\ job.kind # "recover" /\ guardian.state = "up"
      /\ toGuardian = <<>> /\ toOwner = <<>>
  BY <1>1, OwnerTypes DEF Supervised
<1>4. request' \in {"none", "idle", "apply", "confirmed", "closed"}
  BY <1>1 DEF OwnerInv
<1> QED
  BY <1>1, <1>2, <1>3, <1>4, OwnerTypes, NobodyIs, TurnsOwner

\* The guardian is told to end.
LEMMA TerminateOwner == ASSUME OwnerInv, Owner!Terminate PROVE OwnerInv'
<1>1. /\ guardian.state = "up" /\ UNCHANGED <<request, toGuardian, toOwner>>
      /\ Owner!Turns([guardian EXCEPT !.stopping = TRUE], owner, job)
  BY DEF Owner!Terminate
<1>2. PICK g : g = [guardian EXCEPT !.stopping = TRUE]
  OBVIOUS
<1>3. /\ g \in GuardianType /\ g.state = guardian.state /\ g.stopped = guardian.stopped
      /\ g.recovering = guardian.recovering
  BY <1>2, OwnerTypes DEF GuardianType
<1>4. request' \in {"none", "idle", "apply", "confirmed", "closed"}
  BY <1>1 DEF OwnerInv
<1>5. owner.process = "running" => InStep(owner, job, toGuardian, toOwner)
  BY OwnerTypes DEF Supervised, InStep
<1>6. /\ g.recovering <=> job.kind = "recover"
      /\ g.recovering => owner.process = "none" /\ ~g.stopped
      /\ g.stopped => owner.process \in {"none", "dead"}
      /\ owner.process = "none" => owner = Owner!NoOwner
      /\ owner.process = "dead" => owner = Dead
      /\ owner.process = "none" \/ g.stopped => toGuardian' = <<>> /\ toOwner' = <<>>
  BY <1>1, <1>3, OwnerTypes DEF Supervised
<1>7. owner.process = "dead" => /\ Len(toGuardian') <= 3 /\ Len(toOwner') <= 1
                                /\ job.kind # "none" => toOwner' = <<>>
  BY <1>1, OwnerTypes DEF Supervised
<1>8. toGuardian' \in Seq(Sendable) /\ toOwner' \in Seq(BOOLEAN)
  BY <1>1, OwnerTypes
<1> QED
  BY <1>1, <1>2, <1>3, <1>4, <1>5, <1>6, <1>7, <1>8, OwnerTypes, TurnsOwner

\* With no guardian there is no owner and no job.
LEMMA OwnerInit == Owner!Init => OwnerInv
<1> SUFFICES ASSUME Owner!Init PROVE OwnerInv
  OBVIOUS
<1>1. installed \in Written /\ store \in [confirmed : OwnerPolicies, candidate : OwnerPolicies]
  BY TargetsAre DEF Owner!Init, Written
<1>2. /\ guardian \in GuardianType /\ guardian.state = "none" /\ ~guardian.stopped
      /\ ~guardian.recovering
  BY DEF Owner!Init, GuardianType
<1>3. owner = Owner!NoOwner /\ job = Owner!NoJob /\ toGuardian = <<>> /\ toOwner = <<>>
      /\ request = "none"
  BY DEF Owner!Init
<1>4. Supervised(guardian, owner, job, toGuardian, toOwner)
  BY <1>2, <1>3, NoJobIs, NobodyIs DEF Supervised
<1> QED
  BY <1>1, <1>2, <1>3, <1>4, NoJobIs, NobodyIs, EmptySeq DEF OwnerInv

\* Each step of the client, the owner, the guardian and its process keeps the invariant.
LEMMA OwnerStep == ASSUME OwnerInv, Owner!Next \/ UNCHANGED ownerVars PROVE OwnerInv'
<1>1. CASE UNCHANGED ownerVars
  BY <1>1 DEF ownerVars, OwnerInv
<1>2. CASE Owner!Next
  BY <1>2, ConnectOwner, ClientOwner, ReadCommandOwner, ReadHangUpOwner, StepBlindOwner,
     StepJobOwner, StepWriteOwner, StepSettledOwner, StopLeasesOwner, JobWritesOwner,
     StartOwnerOwner, ReceiveOwner, OverdueOwner, ReapJobOwner, StopOwnerOwner, ReapOwnerOwner,
     TerminateOwner DEF Owner!Next
<1> QED
  BY <1>1, <1>2

-----------------------------------------------------------------------------
(* The bindings of the ports (NetworkBindings).                              *)

Moves ==
    {"APPLYING", "WAIT_BINDINGS", "WAIT_CONFIRM", "COMMITTING", "KEPT", "ROLLING_BACK",
     "ROLLBACK_BINDINGS", "REVERTED", "ROLLBACK_FAILED", "FAILED"}
Places == LanLeases \cup {"nowhere"}
Homes == Networks \cup Places

LanWorld ==
    [policy : Networks, lease : Places, stored : Networks, late : BOOLEAN, had : SUBSET Homes]
Changer ==
    [alive : BOOLEAN, state : Moves \cup {"none"}, sent : Seq(Moves), bindings : BOOLEAN,
     keep : BOOLEAN, revert : BOOLEAN]
Runtime ==
    [status : Moves \cup {"IDLE"}, confirmed : Networks, candidate : Networks,
     pid : BOOLEAN, recovering : BOOLEAN, kept : BOOLEAN, affinity : SUBSET Bound,
     index : Nat \ {0}, wait : BOOLEAN, ack : BOOLEAN]
Sight == [valid : BOOLEAN, error : BOOLEAN, lease : Places]
SightFrame == [policy : Networks, settled : BOOLEAN, lease : Places, generation : 0 .. 2]
Spy == [running : BOOLEAN, stale : BOOLEAN, frame : SightFrame \cup {Bindings!NoFrame},
        recovering : BOOLEAN]
BoundPort ==
    [life : {"READY", "WAIT", "CHANGING", "ERROR"}, current : Homes, staged : Homes,
     selected : Homes, wait : BOOLEAN]

\* A worker may tell y some time after x.
Earlier(x, y) ==
    \/ x = "APPLYING" /\ y \in Moves \ {"APPLYING"}
    \/ x = "WAIT_BINDINGS" /\ y \in Moves \ {"APPLYING", "WAIT_BINDINGS", "FAILED"}
    \/ x = "WAIT_CONFIRM" /\ y \in {"COMMITTING", "KEPT", "ROLLING_BACK", "ROLLBACK_BINDINGS",
                                    "REVERTED", "ROLLBACK_FAILED"}
    \/ x = "COMMITTING" /\ y = "KEPT"
    \/ x = "ROLLING_BACK" /\ y \in {"ROLLBACK_BINDINGS", "REVERTED", "ROLLBACK_FAILED"}
    \/ x = "ROLLBACK_BINDINGS" /\ y \in {"REVERTED", "ROLLBACK_FAILED"}

\* What worker k has sent leads from what application a has read to where k is; that the
\* ports were bound was read before.
Trail(k, a) ==
    IF ~a.pid THEN k = Bindings!NoWorker
    ELSE /\ k.state = IF k.sent = <<>> THEN a.status ELSE k.sent[Len(k.sent)]
         /\ \A i \in 1 .. Len(k.sent) :
               /\ Earlier(a.status, k.sent[i])
               /\ \A j \in 1 .. Len(k.sent) : i < j => Earlier(k.sent[i], k.sent[j])
               /\ k.sent[i] = "WAIT_CONFIRM" => a.status = "WAIT_BINDINGS"

\* The policy that the application takes for the one that stays is the one that is stored, or
\* will be when the end of the change is read, or found.
StoredSound(w, k, a) ==
    /\ a.pid => w.stored = IF k.state \in {"COMMITTING", "KEPT"} THEN a.candidate
                           ELSE a.confirmed
    /\ a.pid /\ a.status = "KEPT" => a.confirmed = a.candidate
    /\ a.recovering => /\ ~a.pid /\ a.status = "ROLLBACK_BINDINGS"
                       /\ w.stored \in {a.confirmed, a.candidate}
    /\ ~a.pid /\ ~a.recovering =>
          /\ a.status \in {"IDLE"} \cup Bindings!Terminal
          /\ a.status # "ROLLBACK_FAILED" => a.confirmed = w.stored

\* A recovery binds no port before it has seen what is stored.
SeenSound(w, a, n, o) ==
    a.recovering =>
        /\ a.confirmed # w.stored => ~n.valid /\ a.index = 1
        /\ o.running /\ ~o.stale /\ o.frame # Bindings!NoFrame =>
              /\ o.frame.generation = 1 => a.confirmed = w.stored
              /\ o.frame.generation = 2 => a.candidate = w.stored

\* While the ports are bound to the new policy, what is seen of the LAN was so under it.
LanSound(w, k, a, n, o) ==
    /\ IF w.policy \in LeasedNetworks THEN w.lease \in w.had ELSE w.policy \in w.had
    /\ k.alive /\ k.state \in {"WAIT_BINDINGS", "WAIT_CONFIRM", "COMMITTING"} =>
          w.policy = a.candidate /\ ~w.late
    /\ (/\ k.alive /\ k.state = "WAIT_BINDINGS" /\ a.status = "WAIT_BINDINGS"
        /\ a.candidate \in LeasedNetworks) =>
          /\ n.valid => n.lease \in w.had
          /\ o.running /\ ~o.stale /\ o.frame # Bindings!NoFrame => o.frame.lease \in w.had

\* A port q that serves, serves at x; or where the LAN w is under policy c.
AtHome(q, x) == q.life \in {"READY", "ERROR"} /\ (q.life = "READY" => q.current = x)
Fits(q, w, c) ==
    /\ q.life \in {"READY", "ERROR"}
    /\ q.life = "READY" => IF c \in LeasedNetworks THEN q.current \in w.had ELSE q.current = c

\* The ports before the index are bound, and all are when the worker is told so.
PortsSound(w, k, a, p) ==
    /\ k.state \in {"none", "APPLYING", "ROLLING_BACK"} => ~k.bindings
    /\ (a.pid \/ a.recovering) /\ a.status # "KEPT" => a.affinity = Bound
    /\ k.alive /\ k.state = "WAIT_BINDINGS" /\ a.status = "WAIT_BINDINGS" =>
          \A i \in Bound : i < a.index => Fits(p[i], w, a.candidate)
    /\ (/\ k.alive
        /\ \/ k.state \in {"WAIT_CONFIRM", "COMMITTING"}
           \/ k.state = "WAIT_BINDINGS" /\ k.bindings) =>
          /\ a.status \in {"WAIT_BINDINGS", "WAIT_CONFIRM", "COMMITTING"}
          /\ a.status = "WAIT_BINDINGS" => a.ack
          /\ \A i \in Bound : Fits(p[i], w, a.candidate)
    /\ a.pid /\ k.state = "KEPT" =>
          /\ a.status \in {"WAIT_BINDINGS", "WAIT_CONFIRM", "COMMITTING", "KEPT"}
          /\ a.status = "WAIT_BINDINGS" => a.ack
          /\ a.candidate \notin LeasedNetworks => \A i \in Bound : AtHome(p[i], a.candidate)
    /\ (/\ a.pid \/ a.recovering
        /\ a.status = "ROLLBACK_BINDINGS" /\ a.confirmed \notin LeasedNetworks) =>
          \A i \in Bound : i < a.index => AtHome(p[i], a.confirmed)
    /\ (/\ a.pid
        /\ (k.alive /\ k.state = "ROLLBACK_BINDINGS" /\ k.bindings) \/ k.state = "REVERTED") =>
          /\ a.status \in {"ROLLBACK_BINDINGS", "REVERTED"}
          /\ a.status = "ROLLBACK_BINDINGS" => a.ack
          /\ a.confirmed \notin LeasedNetworks => \A i \in Bound : AtHome(p[i], a.confirmed)
    /\ (/\ ~a.pid /\ ~a.recovering /\ a.status \in {"KEPT", "REVERTED"}
        /\ a.confirmed \notin LeasedNetworks) =>
          \A i \in Bound : AtHome(p[i], a.confirmed)

\* What the LAN, the worker, the application, its observer and the ports can be at all.
BoundTyped(w, k, a, n, o, p) ==
    /\ w \in LanWorld /\ k \in Changer /\ a \in Runtime /\ n \in Sight /\ o \in Spy
    /\ p \in [Ports -> BoundPort]

\* They are in step with each other.
BoundSound(w, k, a, n, o, p) ==
    /\ BoundTyped(w, k, a, n, o, p) /\ Trail(k, a) /\ StoredSound(w, k, a)
    /\ SeenSound(w, a, n, o) /\ LanSound(w, k, a, n, o) /\ PortsSound(w, k, a, p)

BindingsInv == BoundSound(world, worker, runtime, seen, observer, port)

\* The ports are numbered from one.
LEMMA PortsAre == \A i \in Bound : i \in Nat /\ i >= 1 /\ ~(i < 1)
<1> SUFFICES ASSUME NEW i \in Bound PROVE i \in Nat /\ i >= 1 /\ ~(i < 1)
  OBVIOUS
<1>1. i \in Nat \ {0}
  BY ServicesAssumption
<1> QED
  BY <1>1

\* The order of what is told.
LEMMA EarlierIs ==
    /\ \A x, y, z : Earlier(x, y) /\ Earlier(y, z) => Earlier(x, z)
    /\ \A x, y : Earlier(x, y) => x # y /\ y \in Moves /\ y # "APPLYING"
    /\ \A x, y : Earlier(x, y) => x \notin {"IDLE", "none"} \cup Bindings!Terminal
<1>1. ASSUME NEW x, NEW y, NEW z, Earlier(x, y), Earlier(y, z) PROVE Earlier(x, z)
  BY <1>1 DEF Earlier, Moves
<1>2. ASSUME NEW x, NEW y, Earlier(x, y) PROVE x # y /\ y \in Moves /\ y # "APPLYING"
  BY <1>2 DEF Earlier, Moves
<1>3. ASSUME NEW x, NEW y, Earlier(x, y)
      PROVE  x \notin {"IDLE", "none"} \cup Bindings!Terminal
  BY <1>3 DEF Earlier, Bindings!Terminal
<1> QED
  BY <1>1, <1>2, <1>3

\* Where the worker is, the application is, or comes to be when all is read.
LEMMA TrailEnd ==
    ASSUME NEW k \in Changer, NEW a \in Runtime, Trail(k, a), a.pid
    PROVE  /\ k.state = a.status \/ Earlier(a.status, k.state)
           /\ \A i \in 1 .. Len(k.sent) : k.sent[i] = k.state \/ Earlier(k.sent[i], k.state)
           /\ k.sent = <<>> => k.state = a.status
<1>1. k.sent \in Seq(Moves)
  BY DEF Changer
<1>2. CASE k.sent = <<>>
  BY <1>2 DEF Trail
<1>3. CASE k.sent # <<>>
  <2>1. Len(k.sent) \in 1 .. Len(k.sent) /\ Len(k.sent) \in Nat
    BY <1>1, <1>3, LenProperties, EmptySeq
  <2>2. k.state = k.sent[Len(k.sent)] /\ Earlier(a.status, k.state)
    BY <1>3, <2>1 DEF Trail
  <2>3. ASSUME NEW i \in 1 .. Len(k.sent)
        PROVE  k.sent[i] = k.state \/ Earlier(k.sent[i], k.state)
    <3>1. CASE i = Len(k.sent)
      BY <2>2, <3>1
    <3>2. CASE i < Len(k.sent)
      BY <2>1, <2>2, <3>2 DEF Trail
    <3> QED
      BY <2>1, <3>1, <3>2
  <2> QED
    BY <1>3, <2>2, <2>3
<1> QED
  BY <1>2, <1>3

\* The worker tells what comes next.
LEMMA TellsTrail ==
    ASSUME NEW k \in Changer, NEW a \in Runtime, Trail(k, a), a.pid, NEW y,
           Earlier(k.state, y), y = "WAIT_CONFIRM" => a.status = "WAIT_BINDINGS",
           NEW c, c.state = y, c.sent = Append(k.sent, y)
    PROVE  Trail(c, a) /\ c.sent \in Seq(Moves)
<1>1. k.sent \in Seq(Moves) /\ y \in Moves /\ Len(k.sent) \in Nat
  BY EarlierIs, LenProperties DEF Changer
<1>2. PICK n : n = Len(k.sent)
  OBVIOUS
<1>3. /\ c.sent \in Seq(Moves) /\ Len(c.sent) = n + 1 /\ c.sent[n + 1] = y
      /\ \A i \in 1 .. n : c.sent[i] = k.sent[i]
      /\ n \in Nat
  BY <1>1, <1>2, AppendProperties
<1>4. c.sent # <<>>
  <2>1. PICK d : d = c.sent
    OBVIOUS
  <2>2. d \in Seq(Moves) /\ Len(d) = n + 1 /\ n \in Nat
    BY <1>3, <2>1
  <2> QED
    BY <2>1, <2>2, EmptySeq
<1>5. Earlier(a.status, y) /\ \A i \in 1 .. n : Earlier(k.sent[i], y)
  BY <1>2, TrailEnd, EarlierIs
<1>6. ASSUME NEW i \in 1 .. n + 1
      PROVE  /\ Earlier(a.status, c.sent[i])
             /\ \A j \in 1 .. n + 1 : i < j => Earlier(c.sent[i], c.sent[j])
             /\ c.sent[i] = "WAIT_CONFIRM" => a.status = "WAIT_BINDINGS"
  <2>1. CASE i = n + 1
    BY <1>3, <1>5, <2>1
  <2>2. CASE i \in 1 .. n
    <3>1. /\ c.sent[i] = k.sent[i] /\ Earlier(a.status, k.sent[i])
          /\ k.sent[i] = "WAIT_CONFIRM" => a.status = "WAIT_BINDINGS"
          /\ \A j \in 1 .. n : i < j => Earlier(k.sent[i], k.sent[j])
      BY <1>2, <1>3, <2>2 DEF Trail
    <3>2. ASSUME NEW j \in 1 .. n + 1, i < j PROVE Earlier(c.sent[i], c.sent[j])
      <4>1. CASE j = n + 1
        BY <1>3, <1>5, <2>2, <3>1, <4>1
      <4>2. CASE j \in 1 .. n
        BY <1>3, <3>1, <3>2, <4>2
      <4> QED
        BY <1>3, <4>1, <4>2
    <3> QED
      BY <3>1, <3>2
  <2> QED
    BY <1>3, <2>1, <2>2
<1>7. Trail(c, a)
  BY <1>3, <1>4, <1>6 DEF Trail
<1> QED
  BY <1>3, <1>7

\* The application reads the next of what was told.
LEMMA ReadsTrail ==
    ASSUME NEW k \in Changer, NEW a \in Runtime, Trail(k, a), a.pid, k.sent # <<>>,
           NEW c, c.state = k.state, c.sent = Tail(k.sent),
           NEW b, b.pid, b.status = Head(k.sent)
    PROVE  /\ Trail(c, b) /\ c.sent \in Seq(Moves) /\ b.status \in Moves
           /\ Earlier(a.status, b.status)
           /\ b.status = k.state \/ Earlier(b.status, k.state)
           /\ b.status = "WAIT_CONFIRM" => a.status = "WAIT_BINDINGS"
<1>1. k.sent \in Seq(Moves)
  BY DEF Changer
<1>2. PICK n : n = Len(k.sent)
  OBVIOUS
<1>3. /\ c.sent \in Seq(Moves) /\ Len(c.sent) = n - 1 /\ n \in Nat /\ n >= 1
      /\ \A i \in 1 .. n - 1 : c.sent[i] = k.sent[i + 1]
      /\ b.status = k.sent[1] /\ b.status \in Moves
  BY <1>1, <1>2, HeadTailProperties, LenProperties, EmptySeq
<1>4. /\ Earlier(a.status, b.status)
      /\ b.status = "WAIT_CONFIRM" => a.status = "WAIT_BINDINGS"
      /\ \A j \in 2 .. n : Earlier(b.status, k.sent[j])
  BY <1>2, <1>3 DEF Trail
<1>5. b.status = k.state \/ Earlier(b.status, k.state)
  BY <1>2, <1>3, TrailEnd
<1>6. c.state = IF c.sent = <<>> THEN b.status ELSE c.sent[Len(c.sent)]
  <2>1. k.state = k.sent[n]
    BY <1>2 DEF Trail
  <2>2. PICK d : d = c.sent
    OBVIOUS
  <2>3. d \in Seq(Moves) /\ Len(d) = n - 1 /\ n \in Nat /\ n >= 1
    <3>1. c.sent \in Seq(Moves) /\ Len(c.sent) = n - 1
      BY <1>3
    <3> QED
      BY <1>3, <2>2, <3>1
  <2>4. CASE n = 1
    <3>1. d = <<>>
      BY <2>3, <2>4, EmptySeq
    <3> QED
      BY <1>3, <2>1, <2>2, <2>4, <3>1
  <2>5. CASE n > 1
    <3>1. d # <<>>
      BY <2>3, <2>5, EmptySeq
    <3>2. n - 1 \in 1 .. n - 1 /\ (n - 1) + 1 = n
      BY <2>3, <2>5
    <3>3. d[n - 1] = k.sent[n]
      BY <1>3, <2>2, <3>2
    <3>4. d[Len(d)] = k.sent[n]
      BY <2>3, <3>3
    <3> QED
      BY <2>1, <2>2, <3>1, <3>4
  <2>6. n = 1 \/ n > 1
    BY <2>3
  <2> QED
    BY <2>4, <2>5, <2>6
<1>7. ASSUME NEW i \in 1 .. n - 1
      PROVE  /\ Earlier(b.status, c.sent[i])
             /\ \A j \in 1 .. n - 1 : i < j => Earlier(c.sent[i], c.sent[j])
             /\ c.sent[i] = "WAIT_CONFIRM" => b.status = "WAIT_BINDINGS"
  <2>1. i + 1 \in 2 .. n /\ c.sent[i] = k.sent[i + 1]
    BY <1>3
  <2>2. Earlier(b.status, c.sent[i])
    BY <1>4, <2>1
  <2>3. ASSUME NEW j \in 1 .. n - 1, i < j PROVE Earlier(c.sent[i], c.sent[j])
    <3>1. j + 1 \in 1 .. n /\ i + 1 \in 1 .. n /\ i + 1 < j + 1 /\ c.sent[j] = k.sent[j + 1]
      BY <1>3, <2>3
    <3> QED
      BY <1>2, <2>1, <3>1 DEF Trail
  <2>4. c.sent[i] # "WAIT_CONFIRM"
    <3>1. ASSUME c.sent[i] = "WAIT_CONFIRM" PROVE FALSE
      <4>1. a.status = "WAIT_BINDINGS"
        <5>1. i + 1 \in 1 .. n
          BY <1>3
        <5> QED
          BY <1>2, <2>1, <3>1, <5>1 DEF Trail
      <4> QED
        BY <1>4, <2>2, <3>1, <4>1 DEF Earlier
    <3> QED
      BY <3>1
  <2> QED
    BY <2>2, <2>3, <2>4
<1> QED
  BY <1>3, <1>4, <1>5, <1>6, <1>7 DEF Trail

\* At most four frames wait to be read: a trail of five would begin with both of the two that
\* the application must have read one after the other.
LEMMA TrailIsShort ==
    ASSUME NEW k \in Changer, NEW a \in Runtime, Trail(k, a)
    PROVE  Len(k.sent) <= 4
<1>1. CASE ~a.pid
  <2>1. k.sent = <<>>
    BY <1>1 DEF Trail, Bindings!NoWorker
  <2> QED
    BY <2>1
<1>2. CASE a.pid /\ Len(k.sent) > 4
  <2>1. Len(k.sent) \in Nat
    BY LenProperties DEF Changer
  <2>2. 1 \in 1 .. Len(k.sent) /\ 2 \in 1 .. Len(k.sent) /\ 3 \in 1 .. Len(k.sent)
        /\ 4 \in 1 .. Len(k.sent) /\ 5 \in 1 .. Len(k.sent)
    BY <1>2, <2>1
  <2>3. PICK u : u = k.sent[1]
    OBVIOUS
  <2>4. PICK v : v = k.sent[2]
    OBVIOUS
  <2>5. PICK x : x = k.sent[3]
    OBVIOUS
  <2>6. PICK y : y = k.sent[4]
    OBVIOUS
  <2>7. PICK z : z = k.sent[5]
    OBVIOUS
  <2>8. /\ Earlier(a.status, u) /\ Earlier(u, v) /\ Earlier(v, x) /\ Earlier(x, y)
        /\ Earlier(y, z)
        /\ v = "WAIT_CONFIRM" => a.status = "WAIT_BINDINGS"
        /\ u = "WAIT_CONFIRM" => a.status = "WAIT_BINDINGS"
    BY <1>2, <2>2, <2>3, <2>4, <2>5, <2>6, <2>7 DEF Trail
  <2>9. y \in {"ROLLBACK_BINDINGS", "COMMITTING", "ROLLING_BACK", "WAIT_CONFIRM"}
    BY <2>8 DEF Earlier, Moves
  <2>10. x \in {"ROLLING_BACK", "WAIT_CONFIRM", "WAIT_BINDINGS"}
    BY <2>8, <2>9 DEF Earlier, Moves
  <2>11. v \in {"WAIT_CONFIRM", "WAIT_BINDINGS"}
    BY <2>8, <2>10 DEF Earlier, Moves
  <2>12. u \in {"WAIT_BINDINGS"}
    BY <2>8, <2>11 DEF Earlier, Moves
  <2>13. v = "WAIT_CONFIRM"
    BY <2>8, <2>11, <2>12 DEF Earlier, Moves
  <2> QED
    BY <2>8, <2>12, <2>13 DEF Earlier, Moves
<1>3. Len(k.sent) \in Nat
  BY LenProperties DEF Changer
<1> QED
  BY <1>1, <1>2, <1>3

\* What the invariant says of each.
LEMMA BoundParts ==
    ASSUME BindingsInv
    PROVE  /\ world \in LanWorld /\ worker \in Changer /\ runtime \in Runtime /\ seen \in Sight
           /\ observer \in Spy /\ port \in [Ports -> BoundPort]
           /\ Trail(worker, runtime) /\ StoredSound(world, worker, runtime)
           /\ SeenSound(world, runtime, seen, observer)
           /\ LanSound(world, worker, runtime, seen, observer)
           /\ PortsSound(world, worker, runtime, port)
  BY DEF BindingsInv, BoundSound, BoundTyped

\* The LAN under another policy.
LEMMA UnderIs ==
    ASSUME NEW w \in LanWorld, NEW p \in Networks
    PROVE  LET v == Bindings!Under(w, p)
           IN  /\ v \in LanWorld /\ v.policy = p /\ v.stored = w.stored /\ ~v.late
               /\ IF p \in LeasedNetworks THEN v.lease \in v.had ELSE v.policy \in v.had
<1>1. PICK l : l = IF w.policy \in LeasedNetworks /\ p \in LeasedNetworks THEN w.lease
                   ELSE "nowhere"
  OBVIOUS
<1>2. l \in Places
  BY <1>1 DEF LanWorld, Places
<1>3. PICK v : v = [w EXCEPT !.policy = p, !.late = FALSE, !.lease = l]
  OBVIOUS
<1>4. /\ v \in LanWorld /\ v.policy = p /\ v.stored = w.stored /\ ~v.late /\ v.lease = l
  BY <1>2, <1>3 DEF LanWorld
<1>5. PICK x : x = Bindings!Address(v)
  OBVIOUS
<1>6. x = IF p \in LeasedNetworks THEN l ELSE p
  BY <1>4, <1>5 DEF Bindings!Address
<1>7. Bindings!Under(w, p) = [v EXCEPT !.had = {x}]
  <2>1. v = [w EXCEPT !.policy = p, !.late = FALSE,
                      !.lease = IF w.policy \in LeasedNetworks /\ p \in LeasedNetworks THEN @
                                ELSE Bindings!Nowhere]
    BY <1>1, <1>3 DEF LanWorld, Bindings!Nowhere
  <2> QED
    BY <1>5, <2>1 DEF Bindings!Under
<1>8. x \in Homes
  BY <1>2, <1>6 DEF Homes
<1> QED
  BY <1>4, <1>6, <1>7, <1>8 DEF LanWorld

\* A worker that lives is that of a change that the application follows.
LEMMA AliveIs ==
    ASSUME BindingsInv, worker.alive
    PROVE  /\ runtime.pid /\ ~runtime.recovering
           /\ worker.state = runtime.status \/ Earlier(runtime.status, worker.state)
           /\ worker.state = "APPLYING" => runtime.status = "APPLYING"
           /\ worker.state = "WAIT_BINDINGS" =>
                 runtime.status \in {"APPLYING", "WAIT_BINDINGS"}
<1>1. runtime.pid
  BY BoundParts DEF Trail, Bindings!NoWorker
<1>2. worker.state = runtime.status \/ Earlier(runtime.status, worker.state)
  BY <1>1, BoundParts, TrailEnd
<1> QED
  BY <1>1, <1>2, BoundParts DEF StoredSound, Earlier, Moves

\* What the worker tells.
LEMMA ToldIs ==
    ASSUME NEW k \in Changer, NEW y \in Moves
    PROVE  LET t == Bindings!Tells(k, y)  e == Bindings!Ends(k, y)
           IN  /\ t \in Changer /\ t.state = y /\ t.sent = Append(k.sent, y) /\ t.alive = k.alive
               /\ t.bindings = k.bindings
               /\ e \in Changer /\ e.state = y /\ e.sent = Append(k.sent, y) /\ ~e.alive
               /\ e.bindings = k.bindings
<1>1. k.sent \in Seq(Moves)
  BY DEF Changer
<1>2. PICK s : s = Append(k.sent, y)
  OBVIOUS
<1>3. s \in Seq(Moves)
  BY <1>1, <1>2, AppendProperties
<1>4. PICK t : t = [k EXCEPT !.state = y, !.sent = s]
  OBVIOUS
<1>5. t = Bindings!Tells(k, y)
  BY <1>2, <1>4 DEF Bindings!Tells, Changer
<1>6. /\ t \in Changer /\ t.state = y /\ t.sent = s /\ t.alive = k.alive
      /\ t.bindings = k.bindings
  BY <1>3, <1>4 DEF Changer
<1>7. PICK e : e = [t EXCEPT !.alive = FALSE]
  OBVIOUS
<1>8. e = Bindings!Ends(k, y)
  BY <1>5, <1>7 DEF Bindings!Ends
<1>9. /\ e \in Changer /\ e.state = y /\ e.sent = s /\ ~e.alive
      /\ e.bindings = k.bindings
  BY <1>6, <1>7 DEF Changer
<1> QED
  BY <1>2, <1>5, <1>6, <1>8, <1>9

\* The worker applies the new policy.
LEMMA AppliesBound ==
    ASSUME BindingsInv, Bindings!WorkerApplies
    PROVE  BindingsInv'
<1>1. /\ worker.alive /\ worker.state = "APPLYING"
      /\ runtime' = runtime /\ seen' = seen /\ observer' = observer /\ port' = port
  BY DEF Bindings!WorkerApplies, Bindings!Alive
<1>2. runtime.pid /\ ~runtime.recovering /\ runtime.status = "APPLYING" /\ ~worker.bindings
      /\ world.stored = runtime.confirmed /\ runtime.candidate \in Networks
  BY <1>1, AliveIs, BoundParts DEF PortsSound, StoredSound, Runtime
<1>3. CASE worker' = Bindings!Tells(worker, "WAIT_BINDINGS")
           /\ world' = Bindings!Under(world, runtime.candidate)
  <2>1. /\ worker' \in Changer /\ worker'.state = "WAIT_BINDINGS" /\ worker'.alive
        /\ worker'.sent = Append(worker.sent, "WAIT_BINDINGS") /\ ~worker'.bindings
    BY <1>1, <1>2, <1>3, ToldIs, BoundParts DEF Moves
  <2>2. /\ world' \in LanWorld /\ world'.policy = runtime.candidate
        /\ world'.stored = world.stored /\ ~world'.late
        /\ IF runtime.candidate \in LeasedNetworks THEN world'.lease \in world'.had
           ELSE world'.policy \in world'.had
    BY <1>2, <1>3, UnderIs, BoundParts
  <2>3. Trail(worker', runtime')
    BY <1>1, <1>2, <2>1, TellsTrail, BoundParts DEF Earlier, Moves
  <2>4. StoredSound(world', worker', runtime')
    BY <1>1, <1>2, <2>1, <2>2, BoundParts DEF StoredSound
  <2>5. SeenSound(world', runtime', seen', observer')
    BY <1>1, <1>2 DEF SeenSound
  <2>6. LanSound(world', worker', runtime', seen', observer')
    BY <1>1, <1>2, <2>1, <2>2 DEF LanSound
  <2>7. PortsSound(world', worker', runtime', port')
    BY <1>1, <1>2, <2>1, BoundParts DEF PortsSound
  <2> QED
    BY <1>1, <2>1, <2>2, <2>3, <2>4, <2>5, <2>6, <2>7, BoundParts
    DEF BindingsInv, BoundSound, BoundTyped
<1>4. CASE worker' = Bindings!Ends(worker, "FAILED") /\ world' = world
  <2>1. /\ worker' \in Changer /\ worker'.state = "FAILED" /\ ~worker'.alive
        /\ worker'.sent = Append(worker.sent, "FAILED") /\ ~worker'.bindings
    BY <1>1, <1>2, <1>4, ToldIs, BoundParts DEF Moves
  <2>2. Trail(worker', runtime')
    BY <1>1, <1>2, <2>1, TellsTrail, BoundParts DEF Earlier, Moves
  <2>3. StoredSound(world', worker', runtime')
    BY <1>1, <1>2, <1>4, <2>1, BoundParts DEF StoredSound
  <2>4. LanSound(world', worker', runtime', seen', observer')
    BY <1>1, <1>2, <1>4, <2>1, BoundParts DEF LanSound
  <2>5. PortsSound(world', worker', runtime', port')
    BY <1>1, <1>2, <2>1, BoundParts DEF PortsSound
  <2>6. SeenSound(world', runtime', seen', observer')
    BY <1>1, <1>2 DEF SeenSound
  <2> QED
    BY <1>1, <1>4, <2>1, <2>2, <2>3, <2>4, <2>5, <2>6, BoundParts
    DEF BindingsInv, BoundSound, BoundTyped
<1> QED
  BY <1>3, <1>4 DEF Bindings!WorkerApplies

\* The worker knows that the ports are bound, and waits for the user.
LEMMA WaitsBound ==
    ASSUME BindingsInv, Bindings!WorkerWaits
    PROVE  BindingsInv'
<1>1. /\ worker.alive /\ worker.state = "WAIT_BINDINGS" /\ worker.bindings
      /\ worker' = Bindings!Tells(worker, "WAIT_CONFIRM")
      /\ world' = world /\ runtime' = runtime /\ seen' = seen /\ observer' = observer
      /\ port' = port
  BY DEF Bindings!WorkerWaits, Bindings!Alive
<1>2. /\ runtime.pid /\ ~runtime.recovering
      /\ runtime.status \in {"WAIT_BINDINGS", "WAIT_CONFIRM", "COMMITTING"}
      /\ runtime.status = "WAIT_BINDINGS" => runtime.ack
      /\ \A i \in Bound : Fits(port[i], world, runtime.candidate)
  BY <1>1, AliveIs, BoundParts DEF PortsSound
<1>3. runtime.status = "WAIT_BINDINGS"
  BY <1>1, <1>2, AliveIs
<1>4. /\ worker' \in Changer /\ worker'.state = "WAIT_CONFIRM" /\ worker'.alive
      /\ worker'.sent = Append(worker.sent, "WAIT_CONFIRM") /\ worker'.bindings
  BY <1>1, ToldIs, BoundParts DEF Moves
<1>5. Trail(worker', runtime')
  BY <1>1, <1>2, <1>3, <1>4, TellsTrail, BoundParts DEF Earlier, Moves
<1>6. StoredSound(world', worker', runtime')
  BY <1>1, <1>2, <1>4, BoundParts DEF StoredSound
<1>7. LanSound(world', worker', runtime', seen', observer')
  BY <1>1, <1>2, <1>4, BoundParts DEF LanSound
<1>8. PortsSound(world', worker', runtime', port')
  BY <1>1, <1>2, <1>3, <1>4, BoundParts DEF PortsSound
<1>9. SeenSound(world', runtime', seen', observer')
  BY <1>1, <1>2 DEF SeenSound
<1> QED
  BY <1>1, <1>4, <1>5, <1>6, <1>7, <1>8, <1>9, BoundParts DEF BindingsInv, BoundSound, BoundTyped

\* The user keeps the change: what is stored is the candidate.
LEMMA CommitsBound ==
    ASSUME BindingsInv, Bindings!WorkerCommits
    PROVE  BindingsInv'
<1>1. /\ worker.alive /\ worker.state = "WAIT_CONFIRM"
      /\ worker' = Bindings!Tells(worker, "COMMITTING")
      /\ world' = [world EXCEPT !.stored = runtime.candidate]
      /\ runtime' = runtime /\ seen' = seen /\ observer' = observer /\ port' = port
  BY DEF Bindings!WorkerCommits, Bindings!Alive
<1>2. /\ runtime.pid /\ ~runtime.recovering /\ runtime.candidate \in Networks
      /\ runtime.status \in {"WAIT_BINDINGS", "WAIT_CONFIRM", "COMMITTING"}
      /\ runtime.status = "WAIT_BINDINGS" => runtime.ack
      /\ \A i \in Bound : Fits(port[i], world, runtime.candidate)
  BY <1>1, AliveIs, BoundParts DEF PortsSound, Runtime
<1>3. /\ worker' \in Changer /\ worker'.state = "COMMITTING" /\ worker'.alive
      /\ worker'.sent = Append(worker.sent, "COMMITTING")
  BY <1>1, ToldIs, BoundParts DEF Moves
<1>4. /\ world' \in LanWorld /\ world'.stored = runtime.candidate /\ world'.had = world.had
      /\ world'.policy = world.policy /\ world'.lease = world.lease /\ world'.late = world.late
  BY <1>1, <1>2, BoundParts DEF LanWorld
<1>5. Trail(worker', runtime')
  BY <1>1, <1>2, <1>3, TellsTrail, BoundParts DEF Earlier, Moves
<1>6. StoredSound(world', worker', runtime')
  BY <1>1, <1>2, <1>3, <1>4, BoundParts DEF StoredSound
<1>7. LanSound(world', worker', runtime', seen', observer')
  BY <1>1, <1>2, <1>3, <1>4, BoundParts DEF LanSound
<1>8. PortsSound(world', worker', runtime', port')
  BY <1>1, <1>2, <1>3, <1>4, BoundParts DEF PortsSound, Fits
<1>9. SeenSound(world', runtime', seen', observer')
  BY <1>1, <1>2 DEF SeenSound
<1> QED
  BY <1>1, <1>3, <1>4, <1>5, <1>6, <1>7, <1>8, <1>9, BoundParts
  DEF BindingsInv, BoundSound, BoundTyped

\* The new policy, or its lease, does not please: the worker puts back what is stored.
LEMMA RestoresBound ==
    ASSUME BindingsInv, Bindings!WorkerRestores
    PROVE  BindingsInv'
<1>1. PICK t : t = Bindings!Tells(worker, "ROLLING_BACK")
  OBVIOUS
<1>2. /\ worker.alive /\ worker.state \in {"APPLYING", "WAIT_BINDINGS", "WAIT_CONFIRM"}
      /\ worker' = [t EXCEPT !.bindings = FALSE, !.keep = FALSE, !.revert = FALSE]
      /\ world' = Bindings!Under(world, world.stored)
      /\ runtime' = runtime /\ seen' = seen /\ observer' = observer /\ port' = port
  BY <1>1 DEF Bindings!WorkerRestores
<1>3. runtime.pid /\ ~runtime.recovering /\ world.stored \in Networks
  BY <1>2, AliveIs, BoundParts DEF LanWorld
<1>4. /\ t \in Changer /\ t.state = "ROLLING_BACK" /\ t.alive
      /\ t.sent = Append(worker.sent, "ROLLING_BACK")
  BY <1>1, <1>2, ToldIs, BoundParts DEF Moves
<1>5. /\ worker' \in Changer /\ worker'.state = "ROLLING_BACK" /\ worker'.alive
      /\ worker'.sent = t.sent /\ ~worker'.bindings
  BY <1>2, <1>4 DEF Changer
<1>6. /\ world' \in LanWorld /\ world'.stored = world.stored
      /\ IF world'.policy \in LeasedNetworks THEN world'.lease \in world'.had
         ELSE world'.policy \in world'.had
  BY <1>2, <1>3, UnderIs, BoundParts
<1>7. Trail(worker', runtime')
  <2>1. Earlier(worker.state, "ROLLING_BACK")
    BY <1>2 DEF Earlier, Moves
  <2> QED
    BY <1>2, <1>3, <1>4, <1>5, <2>1, TellsTrail, BoundParts
<1>8. StoredSound(world', worker', runtime')
  BY <1>2, <1>3, <1>5, <1>6, BoundParts DEF StoredSound
<1>9. LanSound(world', worker', runtime', seen', observer')
  BY <1>5, <1>6 DEF LanSound
<1>10. PortsSound(world', worker', runtime', port')
  BY <1>2, <1>3, <1>5, BoundParts DEF PortsSound
<1>11. SeenSound(world', runtime', seen', observer')
  BY <1>2, <1>3 DEF SeenSound
<1> QED
  BY <1>2, <1>5, <1>6, <1>7, <1>8, <1>9, <1>10, <1>11, BoundParts
  DEF BindingsInv, BoundSound, BoundTyped

\* The worker goes on by itself, or ends.
LEMMA GoesOnBound ==
    ASSUME BindingsInv, Bindings!WorkerGoesOn
    PROVE  BindingsInv'
<1>1. PICK y \in {"ROLLBACK_BINDINGS", "KEPT", "REVERTED", "ROLLBACK_FAILED"} :
        /\ worker' = IF y = "ROLLBACK_BINDINGS" THEN Bindings!Tells(worker, y)
                     ELSE Bindings!Ends(worker, y)
        /\ worker.alive
        /\ y = "ROLLBACK_BINDINGS" => worker.state = "ROLLING_BACK"
        /\ y = "KEPT" => worker.state = "COMMITTING"
        /\ y = "REVERTED" => worker.state = "ROLLBACK_BINDINGS" /\ worker.bindings
        /\ y = "ROLLBACK_FAILED" => worker.state \in {"ROLLING_BACK", "ROLLBACK_BINDINGS"}
  BY DEF Bindings!WorkerGoesOn, Bindings!Alive
<1>2. /\ world' = world /\ runtime' = runtime /\ seen' = seen /\ observer' = observer
      /\ port' = port
  BY DEF Bindings!WorkerGoesOn
<1>3. runtime.pid /\ ~runtime.recovering /\ y \in Moves
  BY <1>1, AliveIs DEF Moves
<1>4. /\ worker' \in Changer /\ worker'.state = y /\ worker'.sent = Append(worker.sent, y)
      /\ worker'.bindings = worker.bindings /\ (worker'.alive => y = "ROLLBACK_BINDINGS")
  BY <1>1, <1>3, ToldIs, BoundParts
<1>5. Trail(worker', runtime')
  <2>1. Earlier(worker.state, y)
    BY <1>1 DEF Earlier, Moves
  <2>2. y # "WAIT_CONFIRM"
    BY <1>1
  <2> QED
    BY <1>2, <1>3, <1>4, <2>1, <2>2, TellsTrail, BoundParts
<1>6. StoredSound(world', worker', runtime')
  BY <1>1, <1>2, <1>3, <1>4, BoundParts DEF StoredSound
<1>7. LanSound(world', worker', runtime', seen', observer')
  BY <1>1, <1>2, <1>4, BoundParts DEF LanSound
<1>8. PortsSound(world', worker', runtime', port')
  <2>1. CASE y = "KEPT"
    <3>1. /\ runtime.status \in {"WAIT_BINDINGS", "WAIT_CONFIRM", "COMMITTING"}
          /\ runtime.status = "WAIT_BINDINGS" => runtime.ack
          /\ \A i \in Bound : Fits(port[i], world, runtime.candidate)
      BY <1>1, <2>1, BoundParts DEF PortsSound
    <3>2. runtime.candidate \notin LeasedNetworks =>
             \A i \in Bound : AtHome(port[i], runtime.candidate)
      BY <3>1 DEF Fits, AtHome
    <3> QED
      BY <1>1, <1>2, <1>3, <1>4, <2>1, <3>1, <3>2, BoundParts DEF PortsSound
  <2>2. CASE y = "REVERTED"
    BY <1>1, <1>2, <1>3, <1>4, <2>2, BoundParts DEF PortsSound
  <2>3. CASE y = "ROLLBACK_BINDINGS"
    BY <1>1, <1>2, <1>3, <1>4, <2>3, BoundParts DEF PortsSound
  <2>4. CASE y = "ROLLBACK_FAILED"
    BY <1>1, <1>2, <1>3, <1>4, <2>4, BoundParts DEF PortsSound
  <2> QED
    BY <1>1, <2>1, <2>2, <2>3, <2>4
<1>9. SeenSound(world', runtime', seen', observer')
  BY <1>2, <1>3 DEF SeenSound
<1> QED
  BY <1>2, <1>4, <1>5, <1>6, <1>7, <1>8, <1>9, BoundParts DEF BindingsInv, BoundSound, BoundTyped

\* The worker dies; what it has sent stays.
LEMMA DiesBound ==
    ASSUME BindingsInv, Bindings!WorkerDies
    PROVE  BindingsInv'
<1>1. /\ worker.alive /\ worker' = [worker EXCEPT !.alive = FALSE]
      /\ world' = [world EXCEPT !.late = TRUE]
      /\ runtime' = runtime /\ seen' = seen /\ observer' = observer /\ port' = port
  BY DEF Bindings!WorkerDies
<1>2. runtime.pid /\ ~runtime.recovering
  BY <1>1, AliveIs
<1>3. /\ worker' \in Changer /\ worker'.state = worker.state /\ worker'.sent = worker.sent
      /\ ~worker'.alive /\ worker'.bindings = worker.bindings
      /\ world' \in LanWorld /\ world'.stored = world.stored /\ world'.policy = world.policy
      /\ world'.lease = world.lease /\ world'.had = world.had
  BY <1>1, BoundParts DEF Changer, LanWorld
<1>4. Trail(worker', runtime')
  BY <1>1, <1>2, <1>3, BoundParts DEF Trail
<1>5. StoredSound(world', worker', runtime')
  BY <1>1, <1>2, <1>3, BoundParts DEF StoredSound
<1>6. LanSound(world', worker', runtime', seen', observer')
  BY <1>3, BoundParts DEF LanSound
<1>7. PortsSound(world', worker', runtime', port')
  BY <1>1, <1>2, <1>3, BoundParts DEF PortsSound
<1>8. SeenSound(world', runtime', seen', observer')
  BY <1>1, <1>2 DEF SeenSound
<1> QED
  BY <1>1, <1>3, <1>4, <1>5, <1>6, <1>7, <1>8, BoundParts DEF BindingsInv, BoundSound, BoundTyped

\* The owner takes the policy that is stored; no worker is between the two then.
LEMMA FollowsBound ==
    ASSUME BindingsInv, Bindings!OwnerFollows
    PROVE  BindingsInv'
<1>1. /\ world.late /\ world' = Bindings!Under(world, world.stored) /\ worker' = worker
      /\ runtime' = runtime /\ seen' = seen /\ observer' = observer /\ port' = port
  BY DEF Bindings!OwnerFollows
<1>2. /\ world' \in LanWorld /\ world'.stored = world.stored
      /\ IF world'.policy \in LeasedNetworks THEN world'.lease \in world'.had
         ELSE world'.policy \in world'.had
  BY <1>1, UnderIs, BoundParts DEF LanWorld
<1>3. ~(worker.alive /\ worker.state \in {"WAIT_BINDINGS", "WAIT_CONFIRM", "COMMITTING"})
  BY <1>1, BoundParts DEF LanSound
<1>4. Trail(worker', runtime')
  BY <1>1, BoundParts
<1>5. StoredSound(world', worker', runtime')
  BY <1>1, <1>2, BoundParts DEF StoredSound
<1>6. LanSound(world', worker', runtime', seen', observer')
  BY <1>1, <1>2, <1>3 DEF LanSound
<1>7. PortsSound(world', worker', runtime', port')
  BY <1>1, <1>3, BoundParts DEF PortsSound
<1>8. SeenSound(world', runtime', seen', observer')
  BY <1>1, <1>2, BoundParts DEF SeenSound
<1> QED
  BY <1>1, <1>2, <1>4, <1>5, <1>6, <1>7, <1>8, BoundParts DEF BindingsInv, BoundSound, BoundTyped

\* What the LAN had under its policy it has had when the lease moves.
LEMMA MovesBound ==
    ASSUME BindingsInv, Bindings!LeaseMoves
    PROVE  BindingsInv'
<1>1. PICK l : /\ l \in Places /\ world' = [world EXCEPT !.lease = l, !.had = @ \cup {l}]
               /\ world.policy \in LeasedNetworks
  BY DEF Bindings!LeaseMoves, Bindings!Nowhere, Places
<1>2. /\ worker' = worker /\ runtime' = runtime /\ seen' = seen /\ observer' = observer
      /\ port' = port
  BY DEF Bindings!LeaseMoves
<1>3. /\ world' \in LanWorld /\ world'.stored = world.stored /\ world'.policy = world.policy
      /\ world'.lease = l /\ l \in world'.had /\ world.had \subseteq world'.had
      /\ world'.late = world.late
  BY <1>1, BoundParts DEF LanWorld, Homes
<1>4. Trail(worker', runtime')
  BY <1>2, BoundParts
<1>5. StoredSound(world', worker', runtime')
  BY <1>2, <1>3, BoundParts DEF StoredSound
<1>6. LanSound(world', worker', runtime', seen', observer')
  BY <1>1, <1>2, <1>3, BoundParts DEF LanSound
<1>7. PortsSound(world', worker', runtime', port')
  <2>1. \A q, c : Fits(q, world, c) => Fits(q, world', c)
    BY <1>3 DEF Fits
  <2> QED
    BY <1>2, <2>1, BoundParts DEF PortsSound
<1>8. SeenSound(world', runtime', seen', observer')
  BY <1>2, <1>3, BoundParts DEF SeenSound
<1> QED
  BY <1>2, <1>3, <1>4, <1>5, <1>6, <1>7, <1>8, BoundParts DEF BindingsInv, BoundSound, BoundTyped

\* A port that is neither bound nor out of use may become anything.
LEMMA PortsKeep ==
    ASSUME NEW w, NEW k, NEW a, NEW p, PortsSound(w, k, a, p), NEW q,
           \A i \in Bound : /\ \A x : AtHome(p[i], x) => AtHome(q[i], x)
                            /\ \A c : Fits(p[i], w, c) => Fits(q[i], w, c)
    PROVE  PortsSound(w, k, a, q)
  BY DEF PortsSound

\* A change of the bindings of one port.
LEMMA PortBound ==
    ASSUME BindingsInv, NEW i \in Ports, NEW q \in BoundPort, port' = [port EXCEPT ![i] = q],
           \/ port[i].life = "CHANGING"
           \/ port[i].life = "READY" /\ q.life = "ERROR",
           world' = world, worker' = worker, runtime' = runtime, seen' = seen,
           observer' = observer
    PROVE  BindingsInv'
<1>1. port' \in [Ports -> BoundPort]
  BY BoundParts
<1>2. \A j \in Bound : /\ \A x : AtHome(port[j], x) => AtHome(port'[j], x)
                       /\ \A c : Fits(port[j], world, c) => Fits(port'[j], world, c)
  <2> SUFFICES ASSUME NEW j \in Bound
               PROVE  /\ \A x : AtHome(port[j], x) => AtHome(port'[j], x)
                      /\ \A c : Fits(port[j], world, c) => Fits(port'[j], world, c)
    OBVIOUS
  <2>1. port'[j] = IF j = i THEN q ELSE port[j]
    BY BoundParts, ServicesAssumption
  <2> QED
    BY <2>1 DEF AtHome, Fits
<1>3. PortsSound(world', worker', runtime', port')
  <2>1. PortsSound(world, worker, runtime, port')
    BY <1>2, PortsKeep, BoundParts
  <2> QED
    BY <2>1
<1> QED
  BY <1>1, <1>3, BoundParts DEF BindingsInv, BoundSound, BoundTyped

\* A port that changes comes to serve where it was to, or does not.
LEMMA PortEndsBound ==
    ASSUME BindingsInv, NEW i \in Ports, Bindings!PortEnds(i)
    PROVE  BindingsInv'
<1>1. /\ port[i].life = "CHANGING" /\ world' = world /\ worker' = worker /\ runtime' = runtime
      /\ seen' = seen /\ observer' = observer
  BY DEF Bindings!PortEnds
<1>2. port[i] \in BoundPort /\ port \in [Ports -> BoundPort]
  BY BoundParts
<1>3. PICK l \in {"WAIT", "READY", "ERROR"}, x \in {port[i].current, port[i].staged} :
        port' = [port EXCEPT ![i].life = l, ![i].current = x]
  <2>1. CASE port' = [port EXCEPT ![i].life = "READY", ![i].current = port[i].staged]
    BY <2>1
  <2>2. ASSUME NEW l \in {"WAIT", "READY", "ERROR"}, port' = [port EXCEPT ![i].life = l]
        PROVE  port' = [port EXCEPT ![i].life = l, ![i].current = port[i].current]
    <3>1. [port[i] EXCEPT !.life = l] = [port[i] EXCEPT !.life = l, !.current = port[i].current]
      BY <1>2 DEF BoundPort
    <3> QED
      BY <1>2, <2>2, <3>1
  <2> QED
    BY <2>1, <2>2 DEF Bindings!PortEnds
<1>4. PICK q : q = [port[i] EXCEPT !.life = l, !.current = x]
  OBVIOUS
<1>5. q \in BoundPort /\ port' = [port EXCEPT ![i] = q]
  <2>1. q \in BoundPort
    BY <1>2, <1>4 DEF BoundPort
  <2>2. port' = [port EXCEPT ![i] = q]
    BY <1>2, <1>3, <1>4
  <2> QED
    BY <2>1, <2>2
<1> QED
  BY <1>1, <1>5, PortBound

\* A port that serves fails.
LEMMA PortFailsBound ==
    ASSUME BindingsInv, NEW i \in Ports, Bindings!PortFails(i)
    PROVE  BindingsInv'
<1>1. /\ port[i].life = "READY" /\ world' = world /\ worker' = worker /\ runtime' = runtime
      /\ seen' = seen /\ observer' = observer
      /\ port' = [port EXCEPT ![i].life = "ERROR"]
  BY DEF Bindings!PortFails
<1>2. PICK q : q = [port[i] EXCEPT !.life = "ERROR"]
  OBVIOUS
<1>3. q \in BoundPort /\ q.life = "ERROR"
  BY <1>2, BoundParts DEF BoundPort
<1>4. port' = [port EXCEPT ![i] = q]
  BY <1>1, <1>2
<1> QED
  BY <1>1, <1>3, <1>4, PortBound

\* The observer reads the network and the store.
LEMMA ReadsBound ==
    ASSUME BindingsInv, Bindings!ObserverReads
    PROVE  BindingsInv'
<1>1. PICK g : g = IF ~observer.recovering THEN 0
                   ELSE IF world.stored = runtime.confirmed THEN 1 ELSE 2
  OBVIOUS
<1>2. PICK f : f = [policy |-> world.policy, settled |-> ~world.late, lease |-> world.lease,
                    generation |-> g]
  OBVIOUS
<1>3. /\ observer' = [observer EXCEPT !.frame = f]
      /\ world' = world /\ worker' = worker /\ runtime' = runtime /\ seen' = seen
      /\ port' = port
  BY <1>1, <1>2 DEF Bindings!ObserverReads
<1>4. f \in SightFrame /\ f.lease = world.lease /\ f.generation = g
  <2>1. g \in 0 .. 2
    BY <1>1
  <2>2. PICK y \in BOOLEAN : y = ~world.late
    OBVIOUS
  <2>3. f = [policy |-> world.policy, settled |-> y, lease |-> world.lease, generation |-> g]
    BY <1>2, <2>2
  <2> QED
    BY <2>1, <2>3, BoundParts DEF SightFrame, LanWorld
<1>5. /\ observer' \in Spy /\ observer'.frame = f /\ observer'.running = observer.running
      /\ observer'.stale = observer.stale
  BY <1>3, <1>4, BoundParts DEF Spy
<1>6. LanSound(world', worker', runtime', seen', observer')
  BY <1>3, <1>4, <1>5, BoundParts DEF LanSound
<1>7. SeenSound(world', runtime', seen', observer')
  BY <1>1, <1>3, <1>4, <1>5, BoundParts DEF SeenSound, StoredSound
<1> QED
  BY <1>3, <1>5, <1>6, <1>7, BoundParts DEF BindingsInv, BoundSound, BoundTyped

\* The lease that was seen expires; no change is under way.
LEMMA ExpiresBound ==
    ASSUME BindingsInv, Bindings!LeaseExpires
    PROVE  BindingsInv'
<1>1. /\ ~runtime.pid /\ ~runtime.recovering /\ seen' = [seen EXCEPT !.lease = "nowhere"]
      /\ world' = world /\ worker' = worker /\ runtime' = runtime /\ observer' = observer
      /\ port' = port
  BY DEF Bindings!LeaseExpires, Bindings!Busy, Bindings!Nowhere
<1>2. seen' \in Sight /\ seen'.valid = seen.valid
  BY <1>1, BoundParts DEF Sight, Places
<1>3. ~worker.alive
  BY <1>1, AliveIs
<1>4. LanSound(world', worker', runtime', seen', observer')
  BY <1>1, <1>3, BoundParts DEF LanSound
<1>5. SeenSound(world', runtime', seen', observer')
  BY <1>1 DEF SeenSound
<1> QED
  BY <1>1, <1>2, <1>4, <1>5, BoundParts DEF BindingsInv, BoundSound, BoundTyped

\* A change begins.
LEMMA ApplyBound ==
    ASSUME BindingsInv, Bindings!Apply
    PROVE  BindingsInv'
<1>1. PICK p \in Networks :
        runtime' = [runtime EXCEPT !.pid = TRUE, !.status = "APPLYING", !.candidate = p,
                             !.affinity = Bound, !.index = 1, !.wait = FALSE, !.ack = FALSE]
  BY DEF Bindings!Apply
<1>2. /\ ~runtime.pid /\ ~runtime.recovering
      /\ runtime.status \in {"IDLE", "KEPT", "REVERTED", "FAILED"}
      /\ worker' = [Bindings!NoWorker EXCEPT !.alive = TRUE, !.state = "APPLYING"]
      /\ world' = world /\ seen' = seen /\ observer' = observer /\ port' = port
  BY DEF Bindings!Apply, Bindings!Busy
<1>3. /\ worker' = [alive |-> TRUE, state |-> "APPLYING", sent |-> <<>>, bindings |-> FALSE,
                    keep |-> FALSE, revert |-> FALSE]
  BY <1>2 DEF Bindings!NoWorker
<1>4. worker' \in Changer
  BY <1>3, EmptySeq DEF Changer, Moves
<1>5. /\ runtime' \in Runtime /\ runtime'.pid /\ ~runtime'.recovering
      /\ runtime'.status = "APPLYING" /\ runtime'.candidate = p
      /\ runtime'.confirmed = runtime.confirmed /\ runtime'.affinity = Bound
  <2>1. 1 \in Nat \ {0} /\ "APPLYING" \in Moves
    BY DEF Moves
  <2> QED
    BY <1>1, <1>2, <2>1, BoundParts DEF Runtime
<1>6. Trail(worker', runtime')
  <2>1. Len(worker'.sent) = 0 /\ worker'.sent = <<>>
    BY <1>3, EmptySeq
  <2> QED
    BY <1>3, <1>5, <2>1 DEF Trail
<1>7. runtime.confirmed = world.stored
  BY <1>2, BoundParts DEF StoredSound, Bindings!Terminal
<1>8. StoredSound(world', worker', runtime')
  BY <1>2, <1>3, <1>5, <1>7 DEF StoredSound
<1>9. LanSound(world', worker', runtime', seen', observer')
  BY <1>2, <1>3, BoundParts DEF LanSound
<1>10. PortsSound(world', worker', runtime', port')
  <2>1. worker'.state = "APPLYING" /\ ~worker'.bindings
    BY <1>3
  <2> QED
    BY <1>5, <2>1 DEF PortsSound
<1>11. SeenSound(world', runtime', seen', observer')
  BY <1>5 DEF SeenSound
<1> QED
  BY <1>2, <1>4, <1>5, <1>6, <1>8, <1>9, <1>10, <1>11, BoundParts
  DEF BindingsInv, BoundSound, BoundTyped

\* What the worker was asked by the user is of no account to the rest.
LEMMA AskedKeeps ==
    ASSUME NEW w, NEW k, NEW a, NEW n, NEW o, NEW p, BoundSound(w, k, a, n, o, p),
           NEW c \in Changer, c.state = k.state, c.sent = k.sent, c.alive = k.alive,
           c.bindings = k.bindings, a.pid
    PROVE  BoundSound(w, c, a, n, o, p)
<1>1. Trail(c, a)
  BY DEF BoundSound, Trail
<1>2. StoredSound(w, c, a) /\ SeenSound(w, a, n, o)
  BY DEF BoundSound, StoredSound
<1>3. LanSound(w, c, a, n, o)
  BY DEF BoundSound, LanSound
<1>4. PortsSound(w, c, a, p)
  BY DEF BoundSound, PortsSound
<1> QED
  BY <1>1, <1>2, <1>3, <1>4 DEF BoundSound, BoundTyped

\* The user keeps the change, or reverts it.
LEMMA UserBound ==
    ASSUME BindingsInv, Bindings!Keep \/ Bindings!Revert
    PROVE  BindingsInv'
<1>1. /\ worker.alive
      /\ worker' = [worker EXCEPT !.keep = TRUE] \/ worker' = [worker EXCEPT !.revert = TRUE]
      /\ world' = world /\ runtime' = runtime /\ seen' = seen /\ observer' = observer
      /\ port' = port
  BY DEF Bindings!Keep, Bindings!Revert
<1>2. runtime.pid
  BY <1>1, AliveIs
<1>3. /\ worker' \in Changer /\ worker'.state = worker.state /\ worker'.sent = worker.sent
      /\ worker'.alive = worker.alive /\ worker'.bindings = worker.bindings
  BY <1>1, BoundParts DEF Changer
<1>4. BoundSound(world, worker, runtime, seen, observer, port)
  BY DEF BindingsInv
<1>5. BoundSound(world, worker', runtime, seen, observer, port)
  BY <1>2, <1>3, <1>4, AskedKeeps
<1> QED
  BY <1>1, <1>5 DEF BindingsInv

\* The ports are started where the LAN is.
LEMMA BoundStarts == Bindings!Init => BindingsInv
<1> SUFFICES ASSUME Bindings!Init PROVE BindingsInv
  OBVIOUS
<1>1. PICK p \in Networks, l \in LanLeases :
        LET w == [policy |-> p, lease |-> IF p \in LeasedNetworks THEN l ELSE "nowhere",
                  stored |-> p, late |-> FALSE, had |-> {}]
        IN  /\ world = [w EXCEPT !.had = {Bindings!Address(w)}]
            /\ port = [i \in Ports |->
                  [life |-> "READY", current |-> Bindings!Address(w),
                   staged |-> Bindings!Address(w), selected |-> Bindings!Address(w),
                   wait |-> FALSE]]
            /\ runtime = [status |-> "IDLE", confirmed |-> p, candidate |-> p, pid |-> FALSE,
                          recovering |-> FALSE, kept |-> FALSE, affinity |-> {}, index |-> 1,
                          wait |-> FALSE, ack |-> FALSE]
  BY DEF Bindings!Init, Bindings!Nowhere
<1>2. PICK x : x = IF p \in LeasedNetworks THEN l ELSE "nowhere"
  OBVIOUS
<1>3. PICK w : w = [policy |-> p, lease |-> x, stored |-> p, late |-> FALSE, had |-> {}]
  OBVIOUS
<1>4. PICK h : h = Bindings!Address(w)
  OBVIOUS
<1>5. h = IF p \in LeasedNetworks THEN x ELSE p
  BY <1>3, <1>4 DEF Bindings!Address
<1>6. x \in Places /\ h \in Homes
  BY <1>2, <1>5 DEF Places, Homes
<1>7. /\ world = [w EXCEPT !.had = {h}]
      /\ port = [i \in Ports |-> [life |-> "READY", current |-> h, staged |-> h,
                                  selected |-> h, wait |-> FALSE]]
  BY <1>1, <1>2, <1>3, <1>4
<1>8. /\ runtime \in Runtime /\ ~runtime.pid /\ ~runtime.recovering
      /\ runtime.status = "IDLE" /\ runtime.confirmed = p
  BY <1>1 DEF Runtime
<1>9. /\ world \in LanWorld /\ world.policy = p /\ world.lease = x /\ world.stored = p
      /\ world.had = {h}
  BY <1>3, <1>6, <1>7 DEF LanWorld
<1>10. port \in [Ports -> BoundPort]
  BY <1>6, <1>7 DEF BoundPort
<1>11. /\ worker = Bindings!NoWorker /\ observer = Bindings!NoObserver /\ seen = Bindings!Blind
  BY DEF Bindings!Init
<1>12. worker \in Changer /\ ~worker.alive /\ worker.state = "none" /\ ~worker.bindings
  BY <1>11, EmptySeq DEF Changer, Bindings!NoWorker
<1>13. observer \in Spy /\ seen \in Sight
  BY <1>11 DEF Spy, Sight, Places, Bindings!NoObserver, Bindings!Blind, Bindings!Nowhere
<1>14. Trail(worker, runtime)
  BY <1>8, <1>11 DEF Trail
<1>15. StoredSound(world, worker, runtime)
  BY <1>8, <1>9 DEF StoredSound
<1>16. LanSound(world, worker, runtime, seen, observer)
  BY <1>5, <1>9, <1>12 DEF LanSound
<1>17. PortsSound(world, worker, runtime, port)
  BY <1>8, <1>12 DEF PortsSound
<1>18. SeenSound(world, runtime, seen, observer)
  BY <1>8 DEF SeenSound
<1> QED
  BY <1>8, <1>9, <1>10, <1>12, <1>13, <1>14, <1>15, <1>16, <1>17, <1>18
  DEF BindingsInv, BoundSound, BoundTyped

\* What a tick works on.
Stage ==
    [worker : Changer, app : Runtime, seen : Sight, observer : Spy, port : [Ports -> BoundPort]]
Sound(s) == s \in Stage /\ BoundSound(world, s.worker, s.app, s.seen, s.observer, s.port)

\* What a tick works on, part by part.
LEMMA StageIs ==
    ASSUME NEW s \in Stage
    PROVE  /\ s.worker \in Changer /\ s.app \in Runtime /\ s.seen \in Sight /\ s.observer \in Spy
           /\ s.port \in [Ports -> BoundPort]
  BY DEF Stage

\* A sound stage, part by part.
LEMMA SoundIs ==
    ASSUME NEW s, Sound(s)
    PROVE  /\ s \in Stage /\ world \in LanWorld
           /\ s.worker \in Changer /\ s.app \in Runtime /\ s.seen \in Sight /\ s.observer \in Spy
           /\ s.port \in [Ports -> BoundPort]
           /\ Trail(s.worker, s.app) /\ StoredSound(world, s.worker, s.app)
           /\ SeenSound(world, s.app, s.seen, s.observer)
           /\ LanSound(world, s.worker, s.app, s.seen, s.observer)
           /\ PortsSound(world, s.worker, s.app, s.port)
<1>1. s \in Stage /\ BoundSound(world, s.worker, s.app, s.seen, s.observer, s.port)
  BY DEF Sound
<1> QED
  BY <1>1 DEF BoundSound, BoundTyped

\* A stage whose parts are sound is sound.
LEMMA SoundBecomes ==
    ASSUME NEW s \in Stage, world \in LanWorld,
           Trail(s.worker, s.app), StoredSound(world, s.worker, s.app),
           SeenSound(world, s.app, s.seen, s.observer),
           LanSound(world, s.worker, s.app, s.seen, s.observer),
           PortsSound(world, s.worker, s.app, s.port)
    PROVE  Sound(s)
  BY StageIs DEF Sound, BoundSound, BoundTyped

\* An observation is accepted.
LEMMA AcceptedIs ==
    ASSUME NEW s \in Stage, NEW f \in SightFrame
    PROVE  LET t == [Bindings!Accepted(s, f) EXCEPT !.observer = Bindings!NoObserver]
               valid == ~s.app.recovering \/ (/\ f.generation # 0 /\ f.settled
                                              /\ f.policy = IF f.generation = 2
                                                            THEN s.app.candidate
                                                            ELSE s.app.confirmed)
               kept == s.app.recovering /\ valid /\ f.generation = 2
           IN  /\ t \in Stage /\ t.worker = s.worker /\ t.port = s.port
               /\ t.observer = Bindings!NoObserver
               /\ t.seen.valid = valid /\ t.seen.lease = f.lease
               /\ t.app.confirmed = IF kept THEN s.app.candidate ELSE s.app.confirmed
               /\ t.app.candidate = s.app.candidate /\ t.app.status = s.app.status
               /\ t.app.pid = s.app.pid /\ t.app.recovering = s.app.recovering
               /\ t.app.affinity = s.app.affinity /\ t.app.index = s.app.index
               /\ t.app.ack = s.app.ack
<1>1. PICK q : q = IF f.generation = 2 THEN s.app.candidate ELSE s.app.confirmed
  OBVIOUS
<1>2. PICK v \in BOOLEAN :
        v = (~s.app.recovering \/ (f.generation # 0 /\ f.settled /\ f.policy = q))
  OBVIOUS
<1>3. PICK y \in BOOLEAN : y = (s.app.recovering /\ v /\ f.generation = 2)
  OBVIOUS
<1>4. PICK x \in BOOLEAN : x = (s.app.kept \/ y)
  OBVIOUS
<1>5. PICK c : c = IF y THEN s.app.candidate ELSE s.app.confirmed
  OBVIOUS
<1>6. c \in Networks
  BY <1>5, StageIs DEF Runtime
<1>7. PICK n : n = [valid |-> v, error |-> FALSE, lease |-> f.lease]
  OBVIOUS
<1>8. n \in Sight
  BY <1>7 DEF Sight, SightFrame
<1>9. PICK a : a = [s.app EXCEPT !.confirmed = c, !.kept = x]
  OBVIOUS
<1>10. a \in Runtime
  BY <1>6, <1>9, StageIs DEF Runtime
<1>11. PICK u : u = [s EXCEPT !.seen = n, !.app = a]
  OBVIOUS
<1>12. u = Bindings!Accepted(s, f)
  <2>1. Bindings!Accepted(s, f) = [s EXCEPT !.seen = n, !.app.confirmed = c, !.app.kept = x]
    BY <1>1, <1>2, <1>3, <1>4, <1>5, <1>7 DEF Bindings!Accepted
  <2>2. [s EXCEPT !.seen = n, !.app.confirmed = c, !.app.kept = x] = u
    BY <1>9, <1>11, StageIs DEF Stage
  <2> QED
    BY <2>1, <2>2
<1>13. PICK t : t = [u EXCEPT !.observer = Bindings!NoObserver]
  OBVIOUS
<1>14. Bindings!NoObserver \in Spy
  BY DEF Spy, Bindings!NoObserver
<1>15. /\ t \in Stage /\ t.worker = s.worker /\ t.port = s.port /\ t.app = a /\ t.seen = n
       /\ t.observer = Bindings!NoObserver
  BY <1>8, <1>10, <1>11, <1>13, <1>14, StageIs DEF Stage
<1>16. /\ a.confirmed = c /\ a.candidate = s.app.candidate /\ a.status = s.app.status
       /\ a.pid = s.app.pid /\ a.recovering = s.app.recovering
       /\ a.affinity = s.app.affinity /\ a.index = s.app.index /\ a.ack = s.app.ack
  BY <1>9, StageIs DEF Runtime
<1>17. n.valid = v /\ n.lease = f.lease
  BY <1>7
<1> QED
  BY <1>1, <1>2, <1>3, <1>5, <1>12, <1>13, <1>15, <1>16, <1>17

\* The application takes the frame that its observer has sent it.
LEMMA AcceptedSound ==
    ASSUME NEW s, Sound(s), s.observer.running, ~s.observer.stale,
           s.observer.frame # Bindings!NoFrame
    PROVE  Sound([Bindings!Accepted(s, s.observer.frame) EXCEPT !.observer = Bindings!NoObserver])
<1>1. PICK f : f = s.observer.frame
  OBVIOUS
<1>2. f \in SightFrame
  BY <1>1, SoundIs DEF Spy
<1>3. PICK t : t = [Bindings!Accepted(s, f) EXCEPT !.observer = Bindings!NoObserver]
  OBVIOUS
<1> DEFINE valid == ~s.app.recovering \/ (/\ f.generation # 0 /\ f.settled
                                            /\ f.policy = IF f.generation = 2 THEN s.app.candidate
                                                          ELSE s.app.confirmed)
           kept == s.app.recovering /\ valid /\ f.generation = 2
<1>4. /\ t \in Stage /\ t.worker = s.worker /\ t.port = s.port
      /\ t.observer = Bindings!NoObserver
      /\ t.seen.valid = valid /\ t.seen.lease = f.lease
      /\ t.app.confirmed = IF kept THEN s.app.candidate ELSE s.app.confirmed
      /\ t.app.candidate = s.app.candidate /\ t.app.status = s.app.status
      /\ t.app.pid = s.app.pid /\ t.app.recovering = s.app.recovering
      /\ t.app.affinity = s.app.affinity /\ t.app.index = s.app.index
      /\ t.app.ack = s.app.ack
  <2>1. s \in Stage
    BY SoundIs
  <2> QED
    BY <1>2, <1>3, <2>1, AcceptedIs
<1>5. s.app.recovering =>
         /\ ~s.app.pid /\ s.app.status = "ROLLBACK_BINDINGS"
         /\ world.stored \in {s.app.confirmed, s.app.candidate}
         /\ s.app.confirmed # world.stored => s.app.index = 1
         /\ f.generation = 1 => s.app.confirmed = world.stored
         /\ f.generation = 2 => s.app.candidate = world.stored
  BY <1>1, SoundIs DEF StoredSound, SeenSound
<1>6. f.generation \in 0 .. 2
  BY <1>2 DEF SightFrame
<1>7. Trail(t.worker, t.app)
  BY <1>4, SoundIs DEF Trail
<1>8. StoredSound(world, t.worker, t.app)
  BY <1>4, <1>5, SoundIs DEF StoredSound
<1>9. SeenSound(world, t.app, t.seen, t.observer)
  <2>1. ~t.observer.running
    BY <1>4 DEF Bindings!NoObserver
  <2>2. t.app.recovering /\ t.app.confirmed # world.stored => ~t.seen.valid /\ t.app.index = 1
    <3>1. ASSUME t.app.recovering, t.app.confirmed # world.stored
          PROVE  ~t.seen.valid /\ t.app.index = 1
      <4>1. s.app.recovering
        BY <1>4, <3>1
      <4>2. ~kept
        BY <1>4, <1>5, <3>1, <4>1
      <4>3. s.app.confirmed # world.stored
        BY <1>4, <3>1, <4>2
      <4>4. f.generation # 1 /\ s.app.index = 1
        BY <1>5, <4>1, <4>3
      <4>5. ~valid
        BY <1>6, <4>1, <4>2, <4>4
      <4> QED
        BY <1>4, <4>4, <4>5
    <3> QED
      BY <3>1
  <2> QED
    BY <2>1, <2>2 DEF SeenSound
<1>10. LanSound(world, t.worker, t.app, t.seen, t.observer)
  <2>1. ~t.observer.running
    BY <1>4 DEF Bindings!NoObserver
  <2> QED
    BY <1>1, <1>4, <2>1, SoundIs DEF LanSound
<1>11. PortsSound(world, t.worker, t.app, t.port)
  <2>1. CASE t.app.confirmed = s.app.confirmed
    BY <1>4, <2>1, SoundIs DEF PortsSound
  <2>2. CASE t.app.confirmed # s.app.confirmed
    <3>1. s.app.recovering /\ s.app.index = 1 /\ ~s.app.pid
      <4>1. kept
        BY <1>4, <2>2
      <4>2. s.app.recovering /\ f.generation = 2 /\ t.app.confirmed = s.app.candidate
        BY <1>4, <4>1
      <4> QED
        BY <1>5, <2>2, <4>2
    <3>2. \A i \in Bound : ~(i < t.app.index)
      BY <1>4, <3>1, ServicesAssumption
    <3>3. ~t.worker.alive
      BY <1>4, <3>1, SoundIs DEF Trail, Bindings!NoWorker
    <3> QED
      BY <1>4, <3>1, <3>2, <3>3, SoundIs DEF PortsSound
  <2> QED
    BY <2>1, <2>2
<1>12. Sound(t)
  BY <1>4, <1>7, <1>8, <1>9, <1>10, <1>11, SoundBecomes, SoundIs
<1> QED
  BY <1>1, <1>3, <1>12

\* Nothing is seen, or nothing new.
LEMMA BlindSound ==
    ASSUME NEW s, Sound(s), NEW t \in Stage, t.worker = s.worker, t.app = s.app,
           t.port = s.port, t.seen.valid = s.seen.valid, t.seen.lease = s.seen.lease,
           t.observer.running /\ ~t.observer.stale => t.observer.frame = Bindings!NoFrame
    PROVE  Sound(t)
<1>1. SeenSound(world, t.app, t.seen, t.observer)
  BY SoundIs DEF SeenSound
<1>2. LanSound(world, t.worker, t.app, t.seen, t.observer)
  BY SoundIs DEF LanSound
<1> QED
  BY <1>1, <1>2, SoundIs, SoundBecomes

\* The observer is looked at: it is started, gone for another policy, or has sent.
LEMMA ObserverSound ==
    ASSUME NEW s, Sound(s), NEW t \in Bindings!Observed(s)
    PROVE  Sound(t)
<1>1. CASE t = s
  BY <1>1
<1>2. CASE /\ ~s.observer.running
           /\ t = [s EXCEPT !.observer = [Bindings!NoObserver EXCEPT !.running = TRUE,
                                                        !.recovering = s.app.recovering]]
  <2>1. PICK o : o = [Bindings!NoObserver EXCEPT !.running = TRUE,
                                                 !.recovering = s.app.recovering]
    OBVIOUS
  <2>2. o \in Spy /\ o.frame = Bindings!NoFrame
    BY <2>1, SoundIs DEF Spy, Bindings!NoObserver, Runtime
  <2>3. /\ t \in Stage /\ t.worker = s.worker /\ t.app = s.app /\ t.port = s.port
        /\ t.seen = s.seen /\ t.observer = o
    BY <1>2, <2>1, <2>2, SoundIs DEF Stage
  <2> QED
    BY <2>2, <2>3, BlindSound
<1>3. CASE /\ s.observer.running /\ s.observer.frame # Bindings!NoFrame
           /\ t = [Bindings!ReadFrame(s) EXCEPT !.observer = Bindings!NoObserver]
  <2>1. CASE s.observer.stale
    <3>1. t = [s EXCEPT !.observer = Bindings!NoObserver]
      BY <1>3, <2>1 DEF Bindings!ReadFrame
    <3>2. Bindings!NoObserver \in Spy /\ ~Bindings!NoObserver.running
      BY DEF Spy, Bindings!NoObserver
    <3>3. /\ t \in Stage /\ t.worker = s.worker /\ t.app = s.app /\ t.port = s.port
          /\ t.seen = s.seen /\ t.observer = Bindings!NoObserver
      BY <3>1, <3>2, SoundIs DEF Stage
    <3> QED
      BY <3>2, <3>3, BlindSound
  <2>2. CASE ~s.observer.stale
    BY <1>3, <2>2, AcceptedSound DEF Bindings!ReadFrame
  <2> QED
    BY <2>1, <2>2
<1> QED
  BY <1>1, <1>2, <1>3 DEF Bindings!Observed

\* The observer that is gone is collected.
LEMMA ObserverFailedSound ==
    ASSUME NEW s, Sound(s)
    PROVE  Sound(Bindings!ObserverFailed(s))
<1>1. PICK n : n = IF s.observer.stale THEN s.seen ELSE [s.seen EXCEPT !.error = TRUE]
  OBVIOUS
<1>2. n \in Sight /\ n.valid = s.seen.valid /\ n.lease = s.seen.lease
  BY <1>1, SoundIs DEF Sight
<1>3. PICK o : o = Bindings!NoObserver
  OBVIOUS
<1>4. o \in Spy /\ ~o.running
  BY <1>3 DEF Spy, Bindings!NoObserver
<1>5. PICK t : t = [s EXCEPT !.observer = o, !.seen = n]
  OBVIOUS
<1>6. t = Bindings!ObserverFailed(s)
  <2>1. Bindings!ObserverFailed(s) =
          [s EXCEPT !.observer = o,
                    !.seen = IF s.observer.stale THEN s.seen ELSE [s.seen EXCEPT !.error = TRUE]]
    BY <1>3, SoundIs DEF Bindings!ObserverFailed, Stage
  <2> QED
    BY <1>1, <1>5, <2>1
<1>7. /\ t \in Stage /\ t.worker = s.worker /\ t.app = s.app /\ t.port = s.port
      /\ t.seen = n /\ t.observer = o
  <2>1. s \in Stage
    BY SoundIs
  <2> QED
    BY <1>2, <1>4, <1>5, <2>1 DEF Stage
<1> QED
  BY <1>2, <1>4, <1>6, <1>7, BlindSound

\* A new phase begins.
LEMMA ForgetsIs ==
    ASSUME NEW s \in Stage
    PROVE  LET t == Bindings!Forgets(s)
           IN  /\ t \in Stage /\ t.worker = s.worker /\ t.port = s.port
               /\ t.app.status = s.app.status /\ t.app.confirmed = s.app.confirmed
               /\ t.app.candidate = s.app.candidate /\ t.app.pid = s.app.pid
               /\ t.app.recovering = s.app.recovering /\ t.app.affinity = s.app.affinity
               /\ t.app.index = 1 /\ ~t.app.ack
               /\ ~t.seen.valid /\ (t.observer.running => t.observer.stale)
<1>1. PICK a : a = [s.app EXCEPT !.index = 1, !.wait = FALSE, !.ack = FALSE]
  OBVIOUS
<1>2. /\ a \in Runtime
      /\ a.status = s.app.status /\ a.confirmed = s.app.confirmed
      /\ a.candidate = s.app.candidate /\ a.pid = s.app.pid
      /\ a.recovering = s.app.recovering /\ a.affinity = s.app.affinity
      /\ a.index = 1 /\ ~a.ack
  <2>1. 1 \in Nat \ {0}
    OBVIOUS
  <2> QED
    BY <1>1, <2>1, StageIs DEF Runtime
<1>3. PICK n : n = [s.seen EXCEPT !.valid = FALSE]
  OBVIOUS
<1>4. n \in Sight /\ ~n.valid
  BY <1>3, StageIs DEF Sight
<1>5. PICK o : o = [s.observer EXCEPT !.stale = s.observer.running]
  OBVIOUS
<1>6. o \in Spy /\ (o.running => o.stale)
  BY <1>5, StageIs DEF Spy
<1>7. PICK t : t = [s EXCEPT !.app = a, !.seen = n, !.observer = o]
  OBVIOUS
<1>8. /\ t \in Stage /\ t.worker = s.worker /\ t.port = s.port /\ t.app = a /\ t.seen = n
      /\ t.observer = o
  BY <1>2, <1>4, <1>6, <1>7, StageIs DEF Stage
<1>9. t = Bindings!Forgets(s)
  <2>1. Bindings!Forgets(s) =
          [s EXCEPT !.app.index = 1, !.app.wait = FALSE, !.app.ack = FALSE,
                    !.seen.valid = FALSE, !.observer.stale = s.observer.running]
    BY DEF Bindings!Forgets
  <2> QED
    BY <1>1, <1>3, <1>5, <1>7, <2>1, StageIs DEF Stage
<1> QED
  BY <1>2, <1>4, <1>6, <1>8, <1>9

\* The application reads one frame.
LEMMA ToldBecomes ==
    ASSUME NEW s \in Stage, s.worker.sent # <<>>,
           NEW t, t = Bindings!Received(s), NEW state, state = Head(s.worker.sent)
    PROVE  /\ t \in Stage /\ t.port = s.port
           /\ t.worker.state = s.worker.state /\ t.worker.sent = Tail(s.worker.sent)
           /\ t.worker.alive = s.worker.alive /\ t.worker.bindings = s.worker.bindings
           /\ t.app.status = state
           /\ t.app.confirmed = IF state = "KEPT" THEN s.app.candidate ELSE s.app.confirmed
           /\ t.app.candidate = s.app.candidate /\ t.app.pid = s.app.pid
           /\ t.app.recovering = s.app.recovering /\ t.app.affinity = s.app.affinity
           /\ state # s.app.status /\ state \in {"WAIT_BINDINGS", "ROLLBACK_BINDINGS"} =>
                 /\ t.app.index = 1 /\ ~t.app.ack /\ ~t.seen.valid
                 /\ t.observer.running => t.observer.stale
           /\ ~(state # s.app.status /\ state \in {"WAIT_BINDINGS", "ROLLBACK_BINDINGS"}) =>
                 /\ t.app.index = s.app.index /\ t.app.ack = s.app.ack
                 /\ t.seen = s.seen /\ t.observer = s.observer
<1>1. PICK sent : sent = Tail(s.worker.sent)
  OBVIOUS
<1>2. state \in Moves /\ sent \in Seq(Moves)
  <2>1. s.worker.sent \in Seq(Moves)
    BY StageIs DEF Changer
  <2> QED
    BY <1>1, <2>1, HeadTailProperties, EmptySeq
<1>3. PICK k : k = [s.worker EXCEPT !.sent = sent]
  OBVIOUS
<1>4. /\ k \in Changer /\ k.state = s.worker.state /\ k.sent = sent
      /\ k.alive = s.worker.alive /\ k.bindings = s.worker.bindings
  BY <1>2, <1>3, StageIs DEF Changer
<1>5. PICK c : c = IF state = "KEPT" THEN s.app.candidate ELSE s.app.confirmed
  OBVIOUS
<1>6. PICK a : a = [s.app EXCEPT !.status = state, !.confirmed = c]
  OBVIOUS
<1>7. /\ a \in Runtime /\ a.status = state /\ a.confirmed = c
      /\ a.candidate = s.app.candidate /\ a.pid = s.app.pid
      /\ a.recovering = s.app.recovering /\ a.affinity = s.app.affinity
      /\ a.index = s.app.index /\ a.ack = s.app.ack
  <2>1. c \in Networks
    BY <1>5, StageIs DEF Runtime
  <2> QED
    BY <1>2, <1>6, <2>1, StageIs DEF Runtime
<1>8. PICK u : u = [s EXCEPT !.worker = k, !.app = a]
  OBVIOUS
<1>9. /\ u \in Stage /\ u.worker = k /\ u.app = a /\ u.seen = s.seen
       /\ u.observer = s.observer /\ u.port = s.port
  BY <1>4, <1>7, <1>8, StageIs DEF Stage
<1>10. t = IF state # s.app.status /\ state \in {"WAIT_BINDINGS", "ROLLBACK_BINDINGS"}
           THEN Bindings!Forgets(u) ELSE u
  <2>1. [s EXCEPT !.worker.sent = sent, !.app.status = state, !.app.confirmed = c] = u
    BY <1>3, <1>6, <1>8, StageIs DEF Stage
  <2>2. [s EXCEPT !.worker.sent = Tail(@), !.app.status = state,
                  !.app.confirmed = IF state = "KEPT" THEN s.app.candidate ELSE @] = u
    BY <1>1, <1>5, <2>1, StageIs DEF Stage
  <2> QED
    BY <2>2 DEF Bindings!Received
<1>11. CASE state # s.app.status /\ state \in {"WAIT_BINDINGS", "ROLLBACK_BINDINGS"}
  <2>1. t = Bindings!Forgets(u)
    BY <1>10, <1>11
  <2>2. /\ t \in Stage /\ t.worker = u.worker /\ t.port = u.port
        /\ t.app.status = u.app.status /\ t.app.confirmed = u.app.confirmed
        /\ t.app.candidate = u.app.candidate /\ t.app.pid = u.app.pid
        /\ t.app.recovering = u.app.recovering /\ t.app.affinity = u.app.affinity
        /\ t.app.index = 1 /\ ~t.app.ack
        /\ ~t.seen.valid /\ (t.observer.running => t.observer.stale)
    BY <1>9, <2>1, ForgetsIs
  <2> QED
    BY <1>1, <1>4, <1>5, <1>7, <1>9, <1>11, <2>2
<1>12. CASE ~(state # s.app.status /\ state \in {"WAIT_BINDINGS", "ROLLBACK_BINDINGS"})
  <2>1. t = u
    BY <1>10, <1>12
  <2> QED
    BY <1>1, <1>4, <1>5, <1>7, <1>9, <1>12, <2>1
<1> QED
  BY <1>11, <1>12

\* What can be read of a worker that is at y, when x was read before.
LEMMA OrderIs ==
    ASSUME NEW x, NEW b, NEW y, Earlier(x, b), b = y \/ Earlier(b, y)
    PROVE  /\ x # "KEPT" /\ b # "APPLYING" /\ b \in Moves
           /\ b = "KEPT" => y = "KEPT"
           /\ b = "WAIT_BINDINGS" => x = "APPLYING"
           /\ y \in {"WAIT_BINDINGS", "WAIT_CONFIRM", "COMMITTING"} =>
                 b \in {"WAIT_BINDINGS", "WAIT_CONFIRM", "COMMITTING"}
           /\ y = "KEPT" => b \in {"WAIT_BINDINGS", "WAIT_CONFIRM", "COMMITTING", "KEPT"}
           /\ x = "ROLLBACK_BINDINGS" => b \in {"REVERTED", "ROLLBACK_FAILED"}
           /\ x # "REVERTED"
           /\ b = "ROLLBACK_FAILED" => y = "ROLLBACK_FAILED"
           /\ x = "WAIT_BINDINGS" => b # "WAIT_BINDINGS"
<1>1. x # "KEPT" /\ x # "REVERTED" /\ b # "APPLYING" /\ b \in Moves
  BY EarlierIs DEF Bindings!Terminal
<1>2. (b = "KEPT" => y = "KEPT") /\ (b = "ROLLBACK_FAILED" => y = "ROLLBACK_FAILED")
  BY EarlierIs DEF Bindings!Terminal
<1>3. (b = "WAIT_BINDINGS" => x = "APPLYING") /\ (x = "WAIT_BINDINGS" => b # "WAIT_BINDINGS")
  BY DEF Earlier
<1>4. y \in {"WAIT_BINDINGS", "WAIT_CONFIRM", "COMMITTING"} =>
         b \in {"WAIT_BINDINGS", "WAIT_CONFIRM", "COMMITTING"}
  BY <1>1 DEF Earlier
<1>5. y = "KEPT" => b \in {"WAIT_BINDINGS", "WAIT_CONFIRM", "COMMITTING", "KEPT"}
  BY <1>1 DEF Earlier
<1>6. x = "ROLLBACK_BINDINGS" => b \in {"REVERTED", "ROLLBACK_FAILED"}
  BY DEF Earlier
<1> QED
  BY <1>1, <1>2, <1>3, <1>4, <1>5, <1>6

\* What the worker told is read, and nothing is being bound then.
LEMMA ReceivedSound ==
    ASSUME NEW s, Sound(s), s.app.pid, s.worker.sent # <<>>
    PROVE  LET t == Bindings!Received(s) IN Sound(t) /\ ~Bindings!Binding(t)
<1>1. PICK t : t = Bindings!Received(s)
  OBVIOUS
<1>2. PICK state : state = Head(s.worker.sent)
  OBVIOUS
<1>3. /\ t \in Stage /\ t.port = s.port
      /\ t.worker.state = s.worker.state /\ t.worker.sent = Tail(s.worker.sent)
      /\ t.worker.alive = s.worker.alive /\ t.worker.bindings = s.worker.bindings
      /\ t.app.status = state
      /\ t.app.confirmed = IF state = "KEPT" THEN s.app.candidate ELSE s.app.confirmed
      /\ t.app.candidate = s.app.candidate /\ t.app.pid = s.app.pid
      /\ t.app.recovering = s.app.recovering /\ t.app.affinity = s.app.affinity
      /\ state # s.app.status /\ state \in {"WAIT_BINDINGS", "ROLLBACK_BINDINGS"} =>
            /\ t.app.index = 1 /\ ~t.app.ack /\ ~t.seen.valid
            /\ t.observer.running => t.observer.stale
      /\ ~(state # s.app.status /\ state \in {"WAIT_BINDINGS", "ROLLBACK_BINDINGS"}) =>
            /\ t.app.index = s.app.index /\ t.app.ack = s.app.ack
            /\ t.seen = s.seen /\ t.observer = s.observer
  <2>1. s \in Stage
    BY SoundIs
  <2>2. t \in Stage /\ t.port = s.port /\ t.app.status = state
    BY <1>1, <1>2, <2>1, ToldBecomes
  <2>3. t.worker.state = s.worker.state /\ t.worker.sent = Tail(s.worker.sent)
    BY <1>1, <1>2, <2>1, ToldBecomes
  <2>4. t.worker.alive = s.worker.alive
    BY <1>1, <1>2, <2>1, ToldBecomes
  <2>5. t.worker.bindings = s.worker.bindings
    BY <1>1, <1>2, <2>1, ToldBecomes
  <2>6. t.app.candidate = s.app.candidate
    BY <1>1, <1>2, <2>1, ToldBecomes
  <2>7. t.app.pid = s.app.pid
    BY <1>1, <1>2, <2>1, ToldBecomes
  <2>8. t.app.recovering = s.app.recovering /\ t.app.affinity = s.app.affinity
    BY <1>1, <1>2, <2>1, ToldBecomes
  <2>9. t.app.confirmed = IF state = "KEPT" THEN s.app.candidate ELSE s.app.confirmed
    BY <1>1, <1>2, <2>1, ToldBecomes
  <2>10. state # s.app.status /\ state \in {"WAIT_BINDINGS", "ROLLBACK_BINDINGS"} =>
            /\ t.app.index = 1 /\ ~t.app.ack /\ ~t.seen.valid
            /\ t.observer.running => t.observer.stale
    BY <1>1, <1>2, <2>1, ToldBecomes
  <2>11. ~(state # s.app.status /\ state \in {"WAIT_BINDINGS", "ROLLBACK_BINDINGS"}) =>
            /\ t.app.index = s.app.index /\ t.app.ack = s.app.ack
            /\ t.seen = s.seen /\ t.observer = s.observer
    BY <1>1, <1>2, <2>1, ToldBecomes
  <2> QED
    BY <2>2, <2>3, <2>4, <2>5, <2>6, <2>7, <2>8, <2>9, <2>10, <2>11
<1>4. /\ Trail(t.worker, t.app) /\ Earlier(s.app.status, state)
      /\ state = s.worker.state \/ Earlier(state, s.worker.state)
  <2>1. t.app.pid /\ t.app.status = Head(s.worker.sent)
    BY <1>2, <1>3
  <2>2. /\ Trail(t.worker, t.app) /\ Earlier(s.app.status, t.app.status)
        /\ t.app.status = s.worker.state \/ Earlier(t.app.status, s.worker.state)
    BY <1>3, <2>1, ReadsTrail, SoundIs
  <2> QED
    BY <1>3, <2>2
<1>5. ~s.app.recovering /\ state # s.app.status
  BY <1>4, SoundIs, EarlierIs DEF StoredSound
<1>6. PICK x : x = s.app.status
  OBVIOUS
<1>7. PICK y : y = s.worker.state
  OBVIOUS
<1>8. /\ x # "KEPT" /\ state # "APPLYING" /\ state \in Moves
      /\ state = "KEPT" => y = "KEPT"
      /\ state = "WAIT_BINDINGS" => x = "APPLYING"
      /\ y \in {"WAIT_BINDINGS", "WAIT_CONFIRM", "COMMITTING"} =>
            state \in {"WAIT_BINDINGS", "WAIT_CONFIRM", "COMMITTING"}
      /\ y = "KEPT" => state \in {"WAIT_BINDINGS", "WAIT_CONFIRM", "COMMITTING", "KEPT"}
      /\ x = "ROLLBACK_BINDINGS" => state \in {"REVERTED", "ROLLBACK_FAILED"}
      /\ x # "REVERTED"
      /\ state = "ROLLBACK_FAILED" => y = "ROLLBACK_FAILED"
      /\ x = "WAIT_BINDINGS" => state # "WAIT_BINDINGS"
  <2>1. Earlier(x, state) /\ (state = y \/ Earlier(state, y))
    BY <1>4, <1>6, <1>7
  <2> QED
    BY <2>1, OrderIs
<1>9. ~Bindings!Binding(t)
  BY <1>3, <1>5 DEF Bindings!Binding
<1>10. StoredSound(world, t.worker, t.app)
  BY <1>3, <1>5, <1>7, <1>8, SoundIs DEF StoredSound
<1>11. SeenSound(world, t.app, t.seen, t.observer)
  BY <1>3, <1>5 DEF SeenSound
<1>12. LanSound(world, t.worker, t.app, t.seen, t.observer)
  BY <1>3, <1>5, SoundIs DEF LanSound
<1>13. PortsSound(world, t.worker, t.app, t.port)
  <2>1. /\ t.worker.state \in {"none", "APPLYING", "ROLLING_BACK"} => ~t.worker.bindings
        /\ (t.app.pid \/ t.app.recovering) /\ t.app.status # "KEPT" => t.app.affinity = Bound
    BY <1>3, <1>6, <1>8, SoundIs DEF PortsSound
  <2>2. ~(state # "WAIT_BINDINGS" /\ state # "ROLLBACK_BINDINGS") =>
            \A i \in Bound : ~(i < t.app.index)
    BY <1>3, <1>5, PortsAre
  <2>3. ASSUME t.worker.alive,
               t.worker.state \in {"WAIT_CONFIRM", "COMMITTING"}
                  \/ (t.worker.state = "WAIT_BINDINGS" /\ t.worker.bindings)
        PROVE  /\ t.app.status \in {"WAIT_BINDINGS", "WAIT_CONFIRM", "COMMITTING"}
               /\ t.app.status # "WAIT_BINDINGS"
               /\ \A i \in Bound : Fits(t.port[i], world, t.app.candidate)
    <3>1. x # "APPLYING"
      BY <1>3, <1>6, <2>3, SoundIs DEF PortsSound
    <3> QED
      BY <1>3, <1>7, <1>8, <2>3, <3>1, SoundIs DEF PortsSound
  <2>4. ASSUME t.worker.state = "KEPT"
        PROVE  /\ t.app.status \in {"WAIT_BINDINGS", "WAIT_CONFIRM", "COMMITTING", "KEPT"}
               /\ t.app.status # "WAIT_BINDINGS"
               /\ t.app.candidate \notin LeasedNetworks =>
                     \A i \in Bound : AtHome(t.port[i], t.app.candidate)
    <3>1. x # "APPLYING"
      BY <1>3, <1>6, <2>4, SoundIs DEF PortsSound
    <3> QED
      BY <1>3, <1>7, <1>8, <2>4, <3>1, SoundIs DEF PortsSound
  <2>5. ASSUME (t.worker.alive /\ t.worker.state = "ROLLBACK_BINDINGS" /\ t.worker.bindings)
                  \/ t.worker.state = "REVERTED"
        PROVE  /\ t.app.status = "REVERTED"
               /\ t.app.confirmed \notin LeasedNetworks =>
                     \A i \in Bound : AtHome(t.port[i], t.app.confirmed)
    <3>1. x = "ROLLBACK_BINDINGS"
      BY <1>3, <1>6, <1>8, <2>5, SoundIs DEF PortsSound
    <3>2. state = "REVERTED"
      BY <1>3, <1>7, <1>8, <2>5, <3>1
    <3> QED
      BY <1>3, <2>5, <3>2, SoundIs DEF PortsSound
  <2> QED
    BY <1>3, <2>1, <2>2, <2>3, <2>4, <2>5 DEF PortsSound
<1> QED
  BY <1>1, <1>3, <1>4, <1>9, <1>10, <1>11, <1>12, <1>13, SoundBecomes, SoundIs

\* The end of the worker is read: with a last word, or without one.
LEMMA ReapedSound ==
    ASSUME NEW s, Sound(s), s.app.pid, s.worker.sent = <<>>, ~s.worker.alive
    PROVE  LET t == Bindings!Reaped(s) IN Sound(t) /\ (t.app.pid => t.worker.sent = <<>>)
<1>1. s.worker.state = s.app.status /\ ~s.app.recovering
  BY SoundIs DEF Trail, StoredSound
<1>2. PICK u : u = [s EXCEPT !.worker = Bindings!NoWorker, !.app.pid = FALSE]
  OBVIOUS
<1>3. Bindings!NoWorker \in Changer
  BY EmptySeq DEF Changer, Bindings!NoWorker
<1>4. PICK a : a = [s.app EXCEPT !.pid = FALSE]
  OBVIOUS
<1>5. /\ a \in Runtime /\ ~a.pid /\ a.status = s.app.status /\ a.confirmed = s.app.confirmed
      /\ a.candidate = s.app.candidate /\ a.recovering = s.app.recovering
      /\ a.affinity = s.app.affinity
  BY <1>4, SoundIs DEF Runtime
<1>6. /\ u \in Stage /\ u.worker = Bindings!NoWorker /\ u.app = a /\ u.seen = s.seen
      /\ u.observer = s.observer /\ u.port = s.port
  <2>1. s \in Stage
    BY SoundIs
  <2>2. u = [s EXCEPT !.worker = Bindings!NoWorker, !.app = a]
    BY <1>2, <1>4, <2>1 DEF Stage
  <2> QED
    BY <1>3, <1>5, <2>1, <2>2 DEF Stage
<1>7. /\ Bindings!NoWorker.state = "none" /\ ~Bindings!NoWorker.bindings
      /\ ~Bindings!NoWorker.alive /\ Bindings!NoWorker.sent = <<>>
  BY DEF Bindings!NoWorker
<1>8. CASE s.app.status \in Bindings!Terminal
  <2>1. u = Bindings!Reaped(s)
    BY <1>2, <1>8 DEF Bindings!Reaped
  <2>2. Trail(u.worker, u.app)
    BY <1>5, <1>6 DEF Trail
  <2>3. StoredSound(world, u.worker, u.app)
    <3>1. s.app.status # "ROLLBACK_FAILED" => s.app.confirmed = world.stored
      BY <1>1, <1>8, SoundIs DEF StoredSound, Bindings!Terminal
    <3> QED
      BY <1>1, <1>5, <1>6, <1>8, <3>1 DEF StoredSound
  <2>4. SeenSound(world, u.app, u.seen, u.observer)
    BY <1>1, <1>5, <1>6 DEF SeenSound
  <2>5. LanSound(world, u.worker, u.app, u.seen, u.observer)
    BY <1>6, <1>7, SoundIs DEF LanSound
  <2>6. PortsSound(world, u.worker, u.app, u.port)
    <3>1. ASSUME s.app.status = "KEPT", s.app.confirmed \notin LeasedNetworks
          PROVE  \A i \in Bound : AtHome(s.port[i], s.app.confirmed)
      <4>1. s.app.confirmed = s.app.candidate
        BY <3>1, SoundIs DEF StoredSound
      <4> QED
        BY <1>1, <3>1, <4>1, SoundIs DEF PortsSound
    <3>2. ASSUME s.app.status = "REVERTED", s.app.confirmed \notin LeasedNetworks
          PROVE  \A i \in Bound : AtHome(s.port[i], s.app.confirmed)
      BY <1>1, <3>2, SoundIs DEF PortsSound
    <3> QED
      BY <1>1, <1>5, <1>6, <1>7, <3>1, <3>2 DEF PortsSound
  <2> QED
    BY <1>5, <1>6, <2>1, <2>2, <2>3, <2>4, <2>5, <2>6, SoundBecomes, SoundIs
<1>9. CASE s.app.status \notin Bindings!Terminal
  <2>1. PICK v : v = [u EXCEPT !.app.recovering = TRUE, !.app.kept = FALSE,
                               !.app.status = "ROLLBACK_BINDINGS"]
    OBVIOUS
  <2>2. PICK b : b = [a EXCEPT !.recovering = TRUE, !.kept = FALSE,
                               !.status = "ROLLBACK_BINDINGS"]
    OBVIOUS
  <2>3. /\ b \in Runtime /\ ~b.pid /\ b.recovering /\ b.status = "ROLLBACK_BINDINGS"
        /\ b.confirmed = s.app.confirmed /\ b.candidate = s.app.candidate
        /\ b.affinity = s.app.affinity
    BY <1>5, <2>2 DEF Runtime, Moves
  <2>4. v \in Stage /\ v.worker = Bindings!NoWorker /\ v.app = b /\ v.port = s.port
    <3>1. v = [u EXCEPT !.app = b]
      BY <1>6, <2>1, <2>2 DEF Stage
    <3> QED
      BY <1>6, <2>3, <3>1 DEF Stage
  <2>5. PICK t : t = Bindings!Forgets(v)
    OBVIOUS
  <2>6. t = Bindings!Reaped(s)
    BY <1>2, <1>9, <2>1, <2>5 DEF Bindings!Reaped
  <2>7. /\ t \in Stage /\ t.worker = Bindings!NoWorker /\ t.port = s.port
        /\ t.app.status = "ROLLBACK_BINDINGS" /\ t.app.confirmed = s.app.confirmed
        /\ t.app.candidate = s.app.candidate /\ ~t.app.pid
        /\ t.app.recovering /\ t.app.affinity = s.app.affinity
        /\ t.app.index = 1 /\ ~t.app.ack
        /\ ~t.seen.valid /\ (t.observer.running => t.observer.stale)
    BY <2>3, <2>4, <2>5, ForgetsIs
  <2>8. Trail(t.worker, t.app)
    BY <2>7 DEF Trail
  <2>9. StoredSound(world, t.worker, t.app)
    <3>1. world.stored \in {s.app.confirmed, s.app.candidate}
      BY SoundIs DEF StoredSound
    <3> QED
      BY <2>7, <3>1 DEF StoredSound
  <2>10. SeenSound(world, t.app, t.seen, t.observer)
    BY <2>7 DEF SeenSound
  <2>11. LanSound(world, t.worker, t.app, t.seen, t.observer)
    BY <1>7, <2>7, SoundIs DEF LanSound
  <2>12. PortsSound(world, t.worker, t.app, t.port)
    <3>1. t.app.affinity = Bound
      BY <1>9, <2>7, SoundIs DEF PortsSound, Bindings!Terminal
    <3>2. \A i \in Bound : ~(i < t.app.index)
      BY <2>7, PortsAre
    <3> QED
      BY <1>7, <2>7, <3>1, <3>2 DEF PortsSound
  <2> QED
    BY <2>6, <2>7, <2>8, <2>9, <2>10, <2>11, <2>12, SoundBecomes, SoundIs
<1> QED
  BY <1>8, <1>9

\* The recovery gives up.
LEMMA GivesUpSound ==
    ASSUME NEW s, Sound(s), s.app.recovering
    PROVE  LET t == [s EXCEPT !.app.recovering = FALSE, !.app.status = "ROLLBACK_FAILED"]
           IN  Sound(t) /\ ~t.app.pid
<1>1. PICK a : a = [s.app EXCEPT !.recovering = FALSE, !.status = "ROLLBACK_FAILED"]
  OBVIOUS
<1>2. ~s.app.pid /\ s.worker = Bindings!NoWorker
  BY SoundIs DEF StoredSound, Trail
<1>3. /\ a \in Runtime /\ ~a.pid /\ ~a.recovering /\ a.status = "ROLLBACK_FAILED"
  BY <1>1, <1>2, SoundIs DEF Runtime, Moves
<1>4. PICK t : t = [s EXCEPT !.app = a]
  OBVIOUS
<1>5. /\ t \in Stage /\ t.worker = s.worker /\ t.app = a /\ t.seen = s.seen
      /\ t.observer = s.observer /\ t.port = s.port
      /\ t = [s EXCEPT !.app.recovering = FALSE, !.app.status = "ROLLBACK_FAILED"]
  <2>1. s \in Stage
    BY SoundIs
  <2> QED
    BY <1>1, <1>3, <1>4, <2>1 DEF Stage
<1>6. /\ s.worker.state = "none" /\ ~s.worker.bindings /\ ~s.worker.alive
  BY <1>2 DEF Bindings!NoWorker
<1>7. Trail(t.worker, t.app)
  BY <1>2, <1>3, <1>5 DEF Trail
<1>8. StoredSound(world, t.worker, t.app)
  BY <1>3, <1>5 DEF StoredSound, Bindings!Terminal
<1>9. SeenSound(world, t.app, t.seen, t.observer)
  BY <1>3, <1>5 DEF SeenSound
<1>10. LanSound(world, t.worker, t.app, t.seen, t.observer)
  BY <1>5, <1>6, SoundIs DEF LanSound
<1>11. PortsSound(world, t.worker, t.app, t.port)
  BY <1>3, <1>5, <1>6 DEF PortsSound
<1> QED
  BY <1>3, <1>5, <1>7, <1>8, <1>9, <1>10, <1>11, SoundBecomes, SoundIs

\* After what the worker tells is read: if the ports are to be bound now, there was nothing
\* to be read.
LEMMA HeardSound ==
    ASSUME NEW s, Sound(s), NEW t \in Bindings!Heard(s)
    PROVE  Sound(t) /\ (Bindings!Binding(t) /\ t.app.pid => t.worker.sent = <<>>)
<1>1. s.app.recovering => ~s.app.pid
  BY SoundIs DEF StoredSound
<1>2. CASE s.app.pid /\ s.worker.sent # <<>>
  <2>1. t = Bindings!Received(s)
    BY <1>1, <1>2 DEF Bindings!Heard
  <2> QED
    BY <1>2, <2>1, ReceivedSound
<1>3. CASE s.app.pid /\ s.worker.sent = <<>> /\ ~s.worker.alive
  <2>1. t = Bindings!Reaped(s)
    BY <1>1, <1>3 DEF Bindings!Heard
  <2> QED
    BY <1>3, <2>1, ReapedSound
<1>4. CASE s.app.recovering
  <2>1. ~s.app.pid
    BY <1>1, <1>4
  <2>2. t = s \/ t = [s EXCEPT !.app.recovering = FALSE, !.app.status = "ROLLBACK_FAILED"]
    BY <1>4, <2>1 DEF Bindings!Heard
  <2> QED
    BY <1>4, <2>1, <2>2, GivesUpSound
<1>5. CASE ~s.app.recovering /\ (s.app.pid => s.worker.sent = <<>> /\ s.worker.alive)
  <2>1. t = s
    BY <1>5 DEF Bindings!Heard
  <2> QED
    BY <1>5, <2>1
<1> QED
  BY <1>2, <1>3, <1>4, <1>5

\* Where a LAN is seen to be.
LEMMA WhereIs ==
    ASSUME NEW s \in Stage, NEW p \in Networks
    PROVE  /\ Bindings!Where(s, p) \in Homes
           /\ p \notin LeasedNetworks => Bindings!Where(s, p) = p /\ p # "nowhere"
           /\ p \in LeasedNetworks /\ Bindings!Where(s, p) # "nowhere" =>
                 s.seen.valid /\ Bindings!Where(s, p) = s.seen.lease
  BY StageIs, ServicesAssumption DEF Bindings!Where, Bindings!Nowhere, Homes, Places, Sight

\* A port is told whether there is an address.
LEMMA WaitsIs ==
    ASSUME NEW s \in Stage, NEW i \in Ports, NEW wait \in BOOLEAN
    PROVE  LET t == Bindings!Waits(s, i, wait)
           IN  /\ t \in Stage /\ t.worker = s.worker /\ t.app = s.app /\ t.seen = s.seen
               /\ t.observer = s.observer
               /\ t.port[i].life = IF wait /\ s.port[i].life = "READY" THEN "WAIT"
                                   ELSE s.port[i].life
               /\ t.port[i].current = s.port[i].current
               /\ \A j \in Ports : j # i => t.port[j] = s.port[j]
<1>1. PICK l : l = IF wait /\ s.port[i].life = "READY" THEN "WAIT" ELSE s.port[i].life
  OBVIOUS
<1>2. s.port[i] \in BoundPort
  BY StageIs
<1>3. PICK q : q = [s.port[i] EXCEPT !.wait = wait, !.life = l]
  OBVIOUS
<1>4. q \in BoundPort /\ q.life = l /\ q.current = s.port[i].current
  BY <1>1, <1>2, <1>3 DEF BoundPort
<1>5. PICK p : p = [s.port EXCEPT ![i] = q]
  OBVIOUS
<1>6. /\ p \in [Ports -> BoundPort] /\ p[i] = q
      /\ \A j \in Ports : j # i => p[j] = s.port[j]
  BY <1>4, <1>5, StageIs
<1>7. PICK t : t = [s EXCEPT !.port = p]
  OBVIOUS
<1>8. /\ t \in Stage /\ t.worker = s.worker /\ t.app = s.app /\ t.seen = s.seen
      /\ t.observer = s.observer /\ t.port = p
  BY <1>6, <1>7 DEF Stage
<1>9. t = Bindings!Waits(s, i, wait)
  <2>1. [s EXCEPT !.port[i].wait = wait, !.port[i].life = l] = t
    BY <1>2, <1>3, <1>5, <1>7, StageIs DEF Stage
  <2>2. Bindings!Waits(s, i, wait) = [s EXCEPT !.port[i].wait = wait, !.port[i].life = l]
    BY <1>1, <1>2, StageIs DEF Bindings!Waits, Stage, BoundPort
  <2> QED
    BY <2>1, <2>2
<1> QED
  BY <1>1, <1>4, <1>6, <1>8, <1>9

\* A port is given another address.
LEMMA ChangesIs ==
    ASSUME NEW s \in Stage, NEW i \in Ports, NEW address \in Homes
    PROVE  LET t == Bindings!Changes(s, i, address)
           IN  /\ t \in Stage /\ t.worker = s.worker /\ t.app = s.app /\ t.seen = s.seen
               /\ t.observer = s.observer
               /\ \A j \in Ports : j # i => t.port[j] = s.port[j]
<1>1. s.port[i] \in BoundPort
  BY StageIs
<1>2. PICK q : q = [s.port[i] EXCEPT !.life = "CHANGING", !.staged = address]
  OBVIOUS
<1>3. q \in BoundPort
  BY <1>1, <1>2 DEF BoundPort
<1>4. PICK p : p = [s.port EXCEPT ![i] = q]
  OBVIOUS
<1>5. /\ p \in [Ports -> BoundPort]
      /\ \A j \in Ports : j # i => p[j] = s.port[j]
  BY <1>3, <1>4, StageIs
<1>6. PICK t : t = [s EXCEPT !.port = p]
  OBVIOUS
<1>7. /\ t \in Stage /\ t.worker = s.worker /\ t.app = s.app /\ t.seen = s.seen
      /\ t.observer = s.observer /\ t.port = p
  BY <1>5, <1>6 DEF Stage
<1>8. t = Bindings!Changes(s, i, address)
  BY <1>1, <1>2, <1>4, <1>6, StageIs DEF Bindings!Changes, Stage
<1> QED
  BY <1>5, <1>7, <1>8

\* Between changes only the ports follow a leased LAN.
LEMMA FollowsIs ==
    ASSUME NEW s \in Stage, NEW i \in Ports
    PROVE  LET t == Bindings!Follows(s, i)
           IN  /\ t \in Stage /\ t.worker = s.worker /\ t.app = s.app /\ t.seen = s.seen
               /\ t.observer = s.observer
<1>1. PICK address : address = Bindings!Where(s, s.app.confirmed)
  OBVIOUS
<1>2. address \in Homes
  BY <1>1, WhereIs, StageIs DEF Runtime
<1>3. PICK wait \in BOOLEAN : wait = (address = Bindings!Nowhere)
  OBVIOUS
<1>4. PICK p : p = [j \in Ports |-> IF j \in Bound THEN Bindings!Waits(s, j, wait).port[j]
                                    ELSE s.port[j]]
  OBVIOUS
<1>5. p \in [Ports -> BoundPort]
  <2>1. ASSUME NEW j \in Ports PROVE Bindings!Waits(s, j, wait).port[j] \in BoundPort
    BY <2>1, WaitsIs, StageIs
  <2> QED
    BY <1>4, <2>1, StageIs
<1>6. PICK t : t = [s EXCEPT !.port = p]
  OBVIOUS
<1>7. /\ t \in Stage /\ t.worker = s.worker /\ t.app = s.app /\ t.seen = s.seen
      /\ t.observer = s.observer /\ t.port = p
  BY <1>5, <1>6 DEF Stage
<1>8. PICK u : u = [t EXCEPT !.port[i].selected = address]
  OBVIOUS
<1>9. /\ u \in Stage /\ u.worker = s.worker /\ u.app = s.app /\ u.seen = s.seen
      /\ u.observer = s.observer
  <2>1. PICK q : q = [p[i] EXCEPT !.selected = address]
    OBVIOUS
  <2>2. q \in BoundPort
    BY <1>2, <1>5, <2>1 DEF BoundPort
  <2>3. PICK o : o = [p EXCEPT ![i] = q]
    OBVIOUS
  <2>4. o \in [Ports -> BoundPort]
    BY <1>5, <2>2, <2>3
  <2>5. u = [t EXCEPT !.port = o]
    BY <1>7, <1>8, <2>1, <2>3 DEF Stage
  <2> QED
    BY <1>7, <2>4, <2>5 DEF Stage
<1>10. PICK v : v = Bindings!Changes(t, i, address)
  OBVIOUS
<1>11. /\ v \in Stage /\ v.worker = s.worker /\ v.app = s.app /\ v.seen = s.seen
       /\ v.observer = s.observer
  BY <1>2, <1>7, <1>10, ChangesIs
<1>12. Bindings!Follows(s, i) \in {t, u, v}
  BY <1>1, <1>3, <1>4, <1>6, <1>8, <1>10 DEF Bindings!Follows
<1> QED
  BY <1>7, <1>9, <1>11, <1>12

\* The ports follow the address of the policy that is in force.
LEMMA DynamicSound ==
    ASSUME NEW s, Sound(s), NEW t \in Bindings!Dynamic(s)
    PROVE  Sound(t) /\ t.worker = s.worker /\ t.app = s.app /\ t.seen = s.seen
<1>1. CASE Bindings!Busy(s.app) \/ s.app.confirmed \notin LeasedNetworks
  BY <1>1 DEF Bindings!Dynamic
<1>2. CASE ~Bindings!Busy(s.app) /\ s.app.confirmed \in LeasedNetworks
  <2>1. PICK i \in Ports : t = Bindings!Follows(s, i)
    BY <1>2 DEF Bindings!Dynamic
  <2>2. /\ t \in Stage /\ t.worker = s.worker /\ t.app = s.app /\ t.seen = s.seen
        /\ t.observer = s.observer
    BY <2>1, FollowsIs, SoundIs
  <2>3. ~s.app.pid /\ ~s.app.recovering
    BY <1>2 DEF Bindings!Busy
  <2>4. s.worker.state = "none" /\ ~s.worker.bindings /\ ~s.worker.alive
    BY <2>3, SoundIs DEF Trail, Bindings!NoWorker
  <2>5. PortsSound(world, t.worker, t.app, t.port)
    BY <1>2, <2>2, <2>3, <2>4 DEF PortsSound
  <2> QED
    BY <2>2, <2>5, SoundBecomes, SoundIs
<1> QED
  BY <1>1, <1>2

\* What is kept is what is selected.
LEMMA SelectsSound ==
    ASSUME NEW s, Sound(s)
    PROVE  LET t == Bindings!Selects(s)
           IN  /\ Sound(t) /\ t.worker = s.worker /\ t.seen = s.seen
               /\ t.app.status = s.app.status /\ t.app.ack = s.app.ack /\ t.app.pid = s.app.pid
<1>1. CASE s.app.status # "KEPT"
  BY <1>1 DEF Bindings!Selects
<1>2. CASE s.app.status = "KEPT"
  <2>1. PICK address : address = Bindings!Where(s, s.app.confirmed)
    OBVIOUS
  <2>2. s \in Stage /\ address \in Homes
    BY <2>1, WhereIs, SoundIs DEF Runtime
  <2>3. PICK a : a = [s.app EXCEPT !.affinity = {}]
    OBVIOUS
  <2>4. /\ a \in Runtime /\ a.status = s.app.status /\ a.confirmed = s.app.confirmed
        /\ a.candidate = s.app.candidate /\ a.pid = s.app.pid
        /\ a.recovering = s.app.recovering /\ a.ack = s.app.ack /\ a.index = s.app.index
    BY <2>2, <2>3, StageIs DEF Runtime
  <2>5. PICK p : p = [i \in Ports |-> IF i \in s.app.affinity /\ address # "nowhere"
                                      THEN [s.port[i] EXCEPT !.selected = address]
                                      ELSE s.port[i]]
    OBVIOUS
  <2>6. /\ p \in [Ports -> BoundPort]
        /\ \A i \in Ports : p[i].life = s.port[i].life /\ p[i].current = s.port[i].current
    <3>1. ASSUME NEW i \in Ports
          PROVE  /\ p[i] \in BoundPort /\ p[i].life = s.port[i].life
                 /\ p[i].current = s.port[i].current
      <4>1. s.port[i] \in BoundPort
        BY <2>2, StageIs
      <4>2. PICK q : q = [s.port[i] EXCEPT !.selected = address]
        OBVIOUS
      <4>3. q \in BoundPort /\ q.life = s.port[i].life /\ q.current = s.port[i].current
        BY <2>2, <4>1, <4>2 DEF BoundPort
      <4>4. p[i] = q \/ p[i] = s.port[i]
        BY <2>5, <4>2
      <4> QED
        BY <4>1, <4>3, <4>4
    <3>2. p = [i \in Ports |-> p[i]]
      BY <2>5
    <3> QED
      BY <3>1, <3>2
  <2>7. PICK t : t = [s EXCEPT !.app = a, !.port = p]
    OBVIOUS
  <2>8. /\ t \in Stage /\ t.worker = s.worker /\ t.app = a /\ t.seen = s.seen
        /\ t.observer = s.observer /\ t.port = p
    BY <2>2, <2>4, <2>6, <2>7 DEF Stage
  <2>9. t = Bindings!Selects(s)
    BY <1>2, <2>1, <2>2, <2>3, <2>5, <2>7 DEF Bindings!Selects, Bindings!Nowhere, Stage
  <2>10. \A i \in Bound : /\ \A x : AtHome(s.port[i], x) => AtHome(t.port[i], x)
                          /\ \A c : Fits(s.port[i], world, c) => Fits(t.port[i], world, c)
    BY <2>6, <2>8, ServicesAssumption DEF AtHome, Fits
  <2>11. PortsSound(world, t.worker, s.app, t.port)
    BY <2>8, <2>10, PortsKeep, SoundIs
  <2>12. PortsSound(world, t.worker, t.app, t.port)
    BY <1>2, <2>4, <2>8, <2>11 DEF PortsSound
  <2>13. Trail(t.worker, t.app)
    BY <2>4, <2>8, SoundIs DEF Trail
  <2>14. StoredSound(world, t.worker, t.app)
    BY <2>4, <2>8, SoundIs DEF StoredSound
  <2>15. SeenSound(world, t.app, t.seen, t.observer)
    BY <2>4, <2>8, SoundIs DEF SeenSound
  <2>16. LanSound(world, t.worker, t.app, t.seen, t.observer)
    BY <2>4, <2>8, SoundIs DEF LanSound
  <2> QED
    BY <2>4, <2>8, <2>9, <2>12, <2>13, <2>14, <2>15, <2>16, SoundBecomes, SoundIs
<1> QED
  BY <1>1, <1>2

\* The worker is told to put the old policy back.
LEMMA RevertsSound ==
    ASSUME NEW s, Sound(s)
    PROVE  LET t == Bindings!Reverts(s)
           IN  /\ Sound(t) /\ t.app = s.app /\ t.seen = s.seen
               /\ t.worker.sent = s.worker.sent
<1>1. s \in Stage
  BY SoundIs
<1>2. PICK k : k = [s.worker EXCEPT !.revert = s.worker.alive]
  OBVIOUS
<1>3. /\ k \in Changer /\ k.state = s.worker.state /\ k.sent = s.worker.sent
      /\ k.alive = s.worker.alive /\ k.bindings = s.worker.bindings
  BY <1>1, <1>2, StageIs DEF Changer
<1>4. PICK t : t = [s EXCEPT !.worker = k]
  OBVIOUS
<1>5. /\ t \in Stage /\ t.worker = k /\ t.app = s.app /\ t.seen = s.seen
      /\ t.observer = s.observer /\ t.port = s.port
  BY <1>1, <1>3, <1>4 DEF Stage
<1>6. t = Bindings!Reverts(s)
  BY <1>1, <1>2, <1>4 DEF Bindings!Reverts, Stage
<1>7. CASE s.app.pid
  <2>1. BoundSound(world, s.worker, s.app, s.seen, s.observer, s.port)
    BY DEF Sound
  <2>2. BoundSound(world, k, s.app, s.seen, s.observer, s.port)
    BY <1>3, <1>7, <2>1, AskedKeeps
  <2> QED
    BY <1>3, <1>5, <1>6, <2>2 DEF Sound
<1>8. CASE ~s.app.pid
  <2>1. s.worker = Bindings!NoWorker
    BY <1>8, SoundIs DEF Trail
  <2>2. k = s.worker
    <3>1. s.worker.alive = FALSE
      BY <2>1 DEF Bindings!NoWorker
    <3>2. k = [Bindings!NoWorker EXCEPT !.revert = FALSE]
      BY <1>2, <2>1, <3>1
    <3>3. PICK c : c = Bindings!NoWorker
      OBVIOUS
    <3>4. c \in Changer /\ c.revert = FALSE
      BY <3>3, EmptySeq DEF Changer, Bindings!NoWorker
    <3>5. [c EXCEPT !.revert = FALSE] = c
      BY <3>4 DEF Changer
    <3> QED
      BY <2>1, <3>2, <3>3, <3>5
  <2>3. BoundSound(world, t.worker, t.app, t.seen, t.observer, t.port)
    BY <1>5, <2>2 DEF Sound
  <2> QED
    BY <1>3, <1>5, <1>6, <2>3 DEF Sound
<1> QED
  BY <1>7, <1>8

\* A port that serves, or is out of use, stays so when it is told that there is an address.
LEMMA WaitsSound ==
    ASSUME NEW s, Sound(s), NEW i \in Ports
    PROVE  LET t == Bindings!Waits(s, i, FALSE)
           IN  /\ Sound(t) /\ t.worker = s.worker /\ t.app = s.app /\ t.seen = s.seen
               /\ t.port[i].life = s.port[i].life /\ t.port[i].current = s.port[i].current
<1>1. PICK t : t = Bindings!Waits(s, i, FALSE)
  OBVIOUS
<1>2. /\ t \in Stage /\ t.worker = s.worker /\ t.app = s.app /\ t.seen = s.seen
      /\ t.observer = s.observer
      /\ t.port[i].life = s.port[i].life
      /\ t.port[i].current = s.port[i].current
      /\ \A j \in Ports : j # i => t.port[j] = s.port[j]
  BY <1>1, WaitsIs, SoundIs
<1>3. \A j \in Bound : /\ \A x : AtHome(s.port[j], x) => AtHome(t.port[j], x)
                       /\ \A c : Fits(s.port[j], world, c) => Fits(t.port[j], world, c)
  BY <1>2, ServicesAssumption DEF AtHome, Fits
<1>4. PortsSound(world, t.worker, t.app, t.port)
  BY <1>2, <1>3, PortsKeep, SoundIs
<1> QED
  BY <1>1, <1>2, <1>4, SoundBecomes, SoundIs

\* The ports are bound.
LEMMA BindingIs ==
    ASSUME NEW s, Sound(s), Bindings!Binding(s), s.app.pid => s.worker.sent = <<>>
    PROVE  /\ s.app.status \in {"WAIT_BINDINGS", "ROLLBACK_BINDINGS"} /\ ~s.app.ack
           /\ s.seen.valid /\ s.app.affinity = Bound
           /\ s.app.pid => ~s.app.recovering /\ s.worker.state = s.app.status
           /\ ~s.app.pid => /\ s.app.recovering /\ s.app.status = "ROLLBACK_BINDINGS"
                            /\ s.worker.state = "none" /\ ~s.worker.alive
                            /\ s.worker = Bindings!NoWorker
           /\ s.app.recovering => s.app.confirmed = world.stored
<1>1. /\ s.app.status \in {"WAIT_BINDINGS", "ROLLBACK_BINDINGS"} /\ ~s.app.ack
      /\ s.seen.valid
  BY DEF Bindings!Binding
<1>2. s.app.pid => ~s.app.recovering /\ s.worker.state = s.app.status
  BY SoundIs DEF StoredSound, Trail
<1>3. ~s.app.pid => s.app.recovering /\ s.app.status = "ROLLBACK_BINDINGS"
  BY <1>1, SoundIs DEF StoredSound, Bindings!Terminal
<1>4. ~s.app.pid => /\ s.worker.state = "none" /\ ~s.worker.alive
                    /\ s.worker = Bindings!NoWorker
  BY SoundIs DEF Trail, Bindings!NoWorker
<1>5. s.app.recovering => s.app.confirmed = world.stored
  BY <1>1, SoundIs DEF SeenSound
<1>6. s.app.affinity = Bound
  BY <1>1, <1>3, SoundIs DEF PortsSound
<1> QED
  BY <1>1, <1>2, <1>3, <1>4, <1>5, <1>6

\* While they are bound, a port at the index, or after it, may become anything.
LEMMA PortsMay ==
    ASSUME NEW s, Sound(s), Bindings!Binding(s), s.app.pid => s.worker.sent = <<>>,
           NEW t \in Stage, t.worker = s.worker, t.app.status = s.app.status,
           t.app.confirmed = s.app.confirmed, t.app.candidate = s.app.candidate,
           t.app.pid = s.app.pid, t.app.recovering = s.app.recovering,
           t.app.affinity = s.app.affinity, t.app.ack = s.app.ack,
           t.seen = s.seen, t.observer = s.observer,
           /\ s.app.status = "WAIT_BINDINGS" /\ s.worker.alive =>
                 \A i \in Bound : i < t.app.index => Fits(t.port[i], world, s.app.candidate)
           /\ s.app.status = "ROLLBACK_BINDINGS" /\ s.app.confirmed \notin LeasedNetworks =>
                 \A i \in Bound : i < t.app.index => AtHome(t.port[i], s.app.confirmed)
    PROVE  Sound(t)
<1>1. /\ s.app.status \in {"WAIT_BINDINGS", "ROLLBACK_BINDINGS"} /\ ~s.app.ack
      /\ s.seen.valid /\ s.app.affinity = Bound
      /\ s.app.pid => ~s.app.recovering /\ s.worker.state = s.app.status
      /\ ~s.app.pid => /\ s.app.recovering /\ s.app.status = "ROLLBACK_BINDINGS"
                       /\ s.worker.state = "none" /\ ~s.worker.alive
      /\ s.app.recovering => s.app.confirmed = world.stored
  BY BindingIs
<1>2. Trail(t.worker, t.app)
  BY SoundIs DEF Trail
<1>3. StoredSound(world, t.worker, t.app)
  BY SoundIs DEF StoredSound
<1>4. SeenSound(world, t.app, t.seen, t.observer)
  BY <1>1, SoundIs DEF SeenSound
<1>5. LanSound(world, t.worker, t.app, t.seen, t.observer)
  BY SoundIs DEF LanSound
<1>6. PortsSound(world, t.worker, t.app, t.port)
  <2>1. s.worker.state \in {"WAIT_BINDINGS", "ROLLBACK_BINDINGS", "none"}
    BY <1>1
  <2>2. ~(s.worker.alive /\ s.worker.bindings)
    BY <1>1, <2>1, SoundIs DEF PortsSound
  <2>3. t.worker.state \in {"none", "APPLYING", "ROLLING_BACK"} => ~t.worker.bindings
    BY SoundIs DEF PortsSound
  <2> QED
    BY <1>1, <2>1, <2>2, <2>3 DEF PortsSound
<1> QED
  BY <1>2, <1>3, <1>4, <1>5, <1>6, SoundBecomes, SoundIs

\* The next port.
LEMMA PassesIs ==
    ASSUME NEW s \in Stage
    PROVE  LET t == Bindings!Passes(s)
           IN  /\ t \in Stage /\ t.worker = s.worker /\ t.app.status = s.app.status
               /\ t.app.confirmed = s.app.confirmed /\ t.app.candidate = s.app.candidate
               /\ t.app.pid = s.app.pid /\ t.app.recovering = s.app.recovering
               /\ t.app.affinity = s.app.affinity /\ t.app.ack = s.app.ack
               /\ t.seen = s.seen /\ t.observer = s.observer /\ t.port = s.port
               /\ t.app.index = s.app.index + 1
<1>1. PICK n : n = s.app.index + 1
  OBVIOUS
<1>2. n \in Nat \ {0}
  BY <1>1, StageIs DEF Runtime
<1>3. PICK a : a = [s.app EXCEPT !.index = n, !.wait = FALSE]
  OBVIOUS
<1>4. /\ a \in Runtime /\ a.status = s.app.status
      /\ a.confirmed = s.app.confirmed /\ a.candidate = s.app.candidate
      /\ a.pid = s.app.pid /\ a.recovering = s.app.recovering
      /\ a.affinity = s.app.affinity /\ a.ack = s.app.ack /\ a.index = n
  BY <1>2, <1>3, StageIs DEF Runtime
<1>5. PICK t : t = [s EXCEPT !.app = a]
  OBVIOUS
<1>6. /\ t \in Stage /\ t.worker = s.worker /\ t.app = a /\ t.seen = s.seen
      /\ t.observer = s.observer /\ t.port = s.port
  BY <1>4, <1>5 DEF Stage
<1>7. t = Bindings!Passes(s)
  <2>1. [s EXCEPT !.app.index = n, !.app.wait = FALSE] = t
    BY <1>3, <1>5 DEF Stage
  <2> QED
    BY <1>1, <2>1, StageIs DEF Bindings!Passes, Stage, Runtime
<1> QED
  BY <1>1, <1>4, <1>6, <1>7

\* What the ports before the index are.
LEMMA BeforeIs ==
    ASSUME NEW s, Sound(s), Bindings!Binding(s), s.app.pid => s.worker.sent = <<>>
    PROVE  /\ s.app.status = "WAIT_BINDINGS" /\ s.worker.alive =>
                 \A i \in Bound : i < s.app.index => Fits(s.port[i], world, s.app.candidate)
           /\ s.app.status = "ROLLBACK_BINDINGS" /\ s.app.confirmed \notin LeasedNetworks =>
                 \A i \in Bound : i < s.app.index => AtHome(s.port[i], s.app.confirmed)
<1>1. s.worker.alive => s.worker.state = s.app.status
  BY BindingIs
<1>2. s.app.pid \/ s.app.recovering
  BY BindingIs
<1> QED
  BY <1>1, <1>2, SoundIs DEF PortsSound

\* One port is passed: it is none of those that are bound, or it is where it must be.
LEMMA PassesSound ==
    ASSUME NEW s, Sound(s), Bindings!Binding(s), s.app.pid => s.worker.sent = <<>>,
           /\ s.app.status = "WAIT_BINDINGS" /\ s.worker.alive /\ s.app.index \in Bound =>
                 Fits(s.port[s.app.index], world, s.app.candidate)
           /\ (/\ s.app.status = "ROLLBACK_BINDINGS" /\ s.app.confirmed \notin LeasedNetworks
               /\ s.app.index \in Bound) =>
                 AtHome(s.port[s.app.index], s.app.confirmed)
    PROVE  Sound(Bindings!Passes(s))
<1>1. PICK t : t = Bindings!Passes(s)
  OBVIOUS
<1>2. /\ t \in Stage /\ t.worker = s.worker /\ t.app.status = s.app.status
      /\ t.app.confirmed = s.app.confirmed /\ t.app.candidate = s.app.candidate
      /\ t.app.pid = s.app.pid /\ t.app.recovering = s.app.recovering
      /\ t.app.affinity = s.app.affinity /\ t.app.ack = s.app.ack
      /\ t.seen = s.seen /\ t.observer = s.observer /\ t.port = s.port
      /\ t.app.index = s.app.index + 1
  BY <1>1, PassesIs, SoundIs
<1>3. s.app.index \in Nat /\ \A i \in Bound : i \in Nat
  BY SoundIs, ServicesAssumption DEF Runtime
<1>4. \A i \in Bound : i < t.app.index => i < s.app.index \/ i = s.app.index
  BY <1>2, <1>3
<1>5. s.app.status = "WAIT_BINDINGS" /\ s.worker.alive =>
         \A i \in Bound : i < t.app.index => Fits(t.port[i], world, s.app.candidate)
  BY <1>2, <1>4, BeforeIs
<1>6. s.app.status = "ROLLBACK_BINDINGS" /\ s.app.confirmed \notin LeasedNetworks =>
         \A i \in Bound : i < t.app.index => AtHome(t.port[i], s.app.confirmed)
  BY <1>2, <1>4, BeforeIs
<1> QED
  BY <1>1, <1>2, <1>5, <1>6, PortsMay

\* A port is bound to where the LAN is seen to be.
LEMMA BindsAtSound ==
    ASSUME NEW s, Sound(s), Bindings!Binding(s), s.app.pid => s.worker.sent = <<>>,
           NEW i \in Bound, i = s.app.index, NEW address,
           address = Bindings!Where(s, IF s.app.status = "WAIT_BINDINGS" THEN s.app.candidate
                                       ELSE s.app.confirmed),
           address # "nowhere"
    PROVE  Sound(Bindings!BindsAt(s, i, address))
<1>1. PICK p : p = IF s.app.status = "WAIT_BINDINGS" THEN s.app.candidate ELSE s.app.confirmed
  OBVIOUS
<1>2. p \in Networks /\ s \in Stage /\ i \in Ports
  BY <1>1, SoundIs, ServicesAssumption DEF Runtime
<1>3. /\ address \in Homes
      /\ p \notin LeasedNetworks => address = p
      /\ p \in LeasedNetworks => s.seen.valid /\ address = s.seen.lease
  BY <1>1, <1>2, WhereIs
<1>4. PICK t : t = Bindings!Waits(s, i, FALSE)
  OBVIOUS
<1>5. /\ Sound(t) /\ t.worker = s.worker /\ t.app = s.app /\ t.seen = s.seen
      /\ t.port[i].life = s.port[i].life /\ t.port[i].current = s.port[i].current
  BY <1>2, <1>4, WaitsSound
<1>6. Bindings!Binding(t) /\ (t.app.pid => t.worker.sent = <<>>)
  BY <1>5 DEF Bindings!Binding
<1>7. ASSUME t.port[i].life = "READY", t.port[i].current = address
      PROVE  Sound(Bindings!Passes(t))
  <2>1. ASSUME t.app.status = "WAIT_BINDINGS", t.worker.alive
        PROVE  Fits(t.port[i], world, t.app.candidate)
    <3>1. p = t.app.candidate /\ t.worker.state = "WAIT_BINDINGS"
      <4>1. t.app.pid
        BY <2>1, <1>5, <1>6, BindingIs
      <4> QED
        BY <1>1, <1>5, <1>6, <2>1, <4>1, BindingIs
    <3>2. p \in LeasedNetworks => t.seen.lease \in world.had
      BY <1>3, <1>5, <2>1, <3>1, SoundIs DEF LanSound
    <3> QED
      BY <1>3, <1>5, <1>7, <3>1, <3>2 DEF Fits
  <2>2. ASSUME t.app.status = "ROLLBACK_BINDINGS", t.app.confirmed \notin LeasedNetworks
        PROVE  AtHome(t.port[i], t.app.confirmed)
    <3>1. p = t.app.confirmed
      BY <1>1, <1>5, <2>2
    <3> QED
      BY <1>3, <1>7, <2>2, <3>1 DEF AtHome
  <2> QED
    BY <1>5, <1>6, <2>1, <2>2, PassesSound
<1>8. PICK u : u = Bindings!Changes(t, i, address)
  OBVIOUS
<1>9. /\ u \in Stage /\ u.worker = t.worker /\ u.app = t.app /\ u.seen = t.seen
      /\ u.observer = t.observer
      /\ \A j \in Ports : j # i => u.port[j] = t.port[j]
  BY <1>2, <1>3, <1>5, <1>8, ChangesIs, SoundIs
<1>10. Sound([u EXCEPT !.app.wait = TRUE])
  <2>1. PICK a : a = [u.app EXCEPT !.wait = TRUE]
    OBVIOUS
  <2>2. /\ a \in Runtime /\ a.status = t.app.status
        /\ a.confirmed = t.app.confirmed /\ a.candidate = t.app.candidate
        /\ a.pid = t.app.pid /\ a.recovering = t.app.recovering
        /\ a.affinity = t.app.affinity /\ a.ack = t.app.ack /\ a.index = t.app.index
    BY <1>9, <2>1, StageIs DEF Runtime
  <2>3. PICK v : v = [u EXCEPT !.app = a]
    OBVIOUS
  <2>4. /\ v \in Stage /\ v.worker = t.worker /\ v.app = a /\ v.seen = t.seen
        /\ v.observer = t.observer /\ v.port = u.port
        /\ v = [u EXCEPT !.app.wait = TRUE]
    BY <1>9, <2>1, <2>2, <2>3 DEF Stage
  <2>5. \A j \in Bound : j < v.app.index => u.port[j] = t.port[j]
    <3>1. v.app.index = i /\ i \in Nat
      BY <1>2, <1>5, <2>2, <2>4, ServicesAssumption
    <3>2. \A j \in Bound : j \in Nat /\ j \in Ports
      BY ServicesAssumption
    <3> QED
      BY <1>9, <3>1, <3>2
  <2>6. t.app.status = "WAIT_BINDINGS" /\ t.worker.alive =>
           \A j \in Bound : j < v.app.index => Fits(v.port[j], world, t.app.candidate)
    BY <1>5, <1>6, <2>2, <2>4, <2>5, BeforeIs
  <2>7. t.app.status = "ROLLBACK_BINDINGS" /\ t.app.confirmed \notin LeasedNetworks =>
           \A j \in Bound : j < v.app.index => AtHome(v.port[j], t.app.confirmed)
    BY <1>5, <1>6, <2>2, <2>4, <2>5, BeforeIs
  <2> QED
    BY <1>5, <1>6, <2>2, <2>4, <2>6, <2>7, PortsMay
<1>11. Sound(Bindings!Reverts(t))
  BY <1>5, RevertsSound
<1>12. \/ /\ t.port[i].life = "READY" /\ t.port[i].current = address
          /\ Bindings!BindsAt(s, i, address) = Bindings!Passes(t)
       \/ Bindings!BindsAt(s, i, address) \in
             {[u EXCEPT !.app.wait = TRUE], Bindings!Reverts(t), t}
  <2>1. CASE t.port[i].life = "READY" /\ t.port[i].current = address
    BY <1>4, <2>1 DEF Bindings!BindsAt
  <2>2. CASE ~(t.port[i].life = "READY" /\ t.port[i].current = address) /\ ~s.app.wait
    BY <1>4, <1>8, <2>2 DEF Bindings!BindsAt
  <2>3. CASE ~(t.port[i].life = "READY" /\ t.port[i].current = address) /\ s.app.wait
    BY <1>4, <2>3 DEF Bindings!BindsAt
  <2> QED
    BY <2>1, <2>2, <2>3
<1> QED
  BY <1>5, <1>7, <1>10, <1>11, <1>12

\* All ports are bound.
LEMMA ConcludesSound ==
    ASSUME NEW s, Sound(s), Bindings!Binding(s), s.app.pid => s.worker.sent = <<>>,
           s.app.index \notin Ports
    PROVE  Sound(Bindings!Concludes(s))
<1>1. s \in Stage /\ \A i \in Bound : i < s.app.index
  <2>1. s.app.index \in Nat \ {0}
    BY SoundIs DEF Runtime
  <2>2. \A i \in Bound : i \in Nat /\ 1 .. i \subseteq Ports
    BY ServicesAssumption
  <2>3. ASSUME NEW i \in Bound, ~(i < s.app.index) PROVE FALSE
    <3>1. s.app.index \in 1 .. i
      BY <2>1, <2>2, <2>3
    <3> QED
      BY <2>2, <3>1
  <2> QED
    BY <2>3, SoundIs
<1>2. /\ s.app.status \in {"WAIT_BINDINGS", "ROLLBACK_BINDINGS"} /\ ~s.app.ack
      /\ s.app.affinity = Bound
      /\ s.app.pid => ~s.app.recovering /\ s.worker.state = s.app.status
      /\ ~s.app.pid => /\ s.app.recovering /\ s.app.status = "ROLLBACK_BINDINGS"
                       /\ s.worker.state = "none" /\ ~s.worker.alive
                       /\ s.worker = Bindings!NoWorker
      /\ s.app.recovering => s.app.confirmed = world.stored
  BY BindingIs
<1>3. /\ s.app.status = "WAIT_BINDINGS" /\ s.worker.alive =>
            \A i \in Bound : Fits(s.port[i], world, s.app.candidate)
      /\ s.app.status = "ROLLBACK_BINDINGS" /\ s.app.confirmed \notin LeasedNetworks =>
            \A i \in Bound : AtHome(s.port[i], s.app.confirmed)
  BY <1>1, BeforeIs
<1>4. CASE s.app.status = "WAIT_BINDINGS" /\ ~Bindings!Served(s)
  BY <1>4, RevertsSound DEF Bindings!Concludes
<1>5. CASE ~(s.app.status = "WAIT_BINDINGS" /\ ~Bindings!Served(s)) /\ s.app.recovering
  <2>1. PICK st : st = IF s.app.kept THEN "KEPT" ELSE "REVERTED"
    OBVIOUS
  <2>2. PICK a : a = [s.app EXCEPT !.recovering = FALSE, !.ack = TRUE, !.status = st]
    OBVIOUS
  <2>3. /\ a \in Runtime /\ ~a.recovering /\ a.status = st /\ a.pid = s.app.pid
        /\ a.confirmed = s.app.confirmed /\ st \in {"KEPT", "REVERTED"}
    BY <1>1, <2>1, <2>2, StageIs DEF Runtime, Moves
  <2>4. PICK t : t = [s EXCEPT !.app = a]
    OBVIOUS
  <2>5. /\ t \in Stage /\ t.worker = s.worker /\ t.app = a /\ t.seen = s.seen
        /\ t.observer = s.observer /\ t.port = s.port
    BY <1>1, <2>3, <2>4 DEF Stage
  <2>6. t = Bindings!Concludes(s)
    <3>1. [s EXCEPT !.app.recovering = FALSE, !.app.ack = TRUE, !.app.status = st] = t
      BY <1>1, <2>2, <2>4 DEF Stage
    <3> QED
      BY <1>5, <2>1, <3>1 DEF Bindings!Concludes
  <2>7. /\ ~s.app.pid /\ s.worker = Bindings!NoWorker /\ s.worker.state = "none"
        /\ ~s.worker.alive /\ ~s.worker.bindings /\ s.app.confirmed = world.stored
        /\ s.app.status = "ROLLBACK_BINDINGS"
    BY <1>2, <1>5 DEF Bindings!NoWorker
  <2>8. Trail(t.worker, t.app)
    BY <2>3, <2>5, <2>7 DEF Trail
  <2>9. StoredSound(world, t.worker, t.app)
    BY <2>3, <2>5, <2>7 DEF StoredSound, Bindings!Terminal
  <2>10. SeenSound(world, t.app, t.seen, t.observer)
    BY <2>3, <2>5 DEF SeenSound
  <2>11. LanSound(world, t.worker, t.app, t.seen, t.observer)
    BY <2>5, <2>7, SoundIs DEF LanSound
  <2>12. PortsSound(world, t.worker, t.app, t.port)
    BY <1>3, <2>3, <2>5, <2>7 DEF PortsSound
  <2> QED
    BY <2>5, <2>6, <2>8, <2>9, <2>10, <2>11, <2>12, SoundBecomes, SoundIs
<1>6. CASE ~(s.app.status = "WAIT_BINDINGS" /\ ~Bindings!Served(s)) /\ ~s.app.recovering
  <2>1. s.app.pid /\ s.worker.state = s.app.status
    BY <1>2, <1>6
  <2>2. PICK k : k = [s.worker EXCEPT !.bindings = s.worker.alive]
    OBVIOUS
  <2>3. /\ k \in Changer /\ k.state = s.worker.state /\ k.sent = s.worker.sent
        /\ k.alive = s.worker.alive /\ k.bindings = s.worker.alive
    BY <1>1, <2>2, StageIs DEF Changer
  <2>4. PICK a : a = [s.app EXCEPT !.ack = s.worker.alive]
    OBVIOUS
  <2>5. /\ a \in Runtime /\ a.status = s.app.status /\ a.ack = s.worker.alive
        /\ a.confirmed = s.app.confirmed /\ a.candidate = s.app.candidate
        /\ a.pid = s.app.pid /\ a.recovering = s.app.recovering
        /\ a.affinity = s.app.affinity /\ a.index = s.app.index
    <3>1. s.worker.alive \in BOOLEAN
      BY <1>1, StageIs DEF Changer
    <3> QED
      BY <1>1, <2>4, <3>1, StageIs DEF Runtime
  <2>6. PICK t : t = [s EXCEPT !.worker = k, !.app = a]
    OBVIOUS
  <2>7. /\ t \in Stage /\ t.worker = k /\ t.app = a /\ t.seen = s.seen
        /\ t.observer = s.observer /\ t.port = s.port
    BY <1>1, <2>3, <2>5, <2>6 DEF Stage
  <2>8. t = Bindings!Concludes(s)
    <3>1. Bindings!Concludes(s) = Bindings!Acknowledges(s)
      BY <1>6 DEF Bindings!Concludes
    <3>2. s.worker.state \in {"WAIT_BINDINGS", "ROLLBACK_BINDINGS"}
      BY <1>2, <2>1
    <3>3. PICK y \in BOOLEAN : y = (/\ s.worker.alive
                        /\ s.worker.state \in {"WAIT_BINDINGS", "ROLLBACK_BINDINGS"})
      OBVIOUS
    <3>4. y = s.worker.alive
      <4>1. s.worker.alive \in BOOLEAN
        BY <1>1, StageIs DEF Changer
      <4> QED
        BY <3>2, <3>3, <4>1
    <3>5. PICK e : e = [s EXCEPT !.worker.bindings = y, !.app.ack = s.worker.alive]
      OBVIOUS
    <3>6. Bindings!Acknowledges(s) = e
      BY <3>3, <3>5 DEF Bindings!Acknowledges
    <3>7. e = t
      <4>1. k = [s.worker EXCEPT !.bindings = y]
        BY <2>2, <3>4
      <4> QED
        BY <1>1, <2>4, <2>6, <3>5, <4>1 DEF Stage
    <3> QED
      BY <3>1, <3>6, <3>7
  <2>9. Trail(t.worker, t.app)
    <3>1. Trail(s.worker, s.app)
      BY SoundIs
    <3>2. /\ t.worker.state = s.worker.state /\ t.worker.sent = s.worker.sent
          /\ t.app.status = s.app.status /\ t.app.pid /\ s.app.pid
      BY <2>1, <2>3, <2>5, <2>7
    <3> QED
      BY <3>1, <3>2 DEF Trail
  <2>10. StoredSound(world, t.worker, t.app)
    BY <1>6, <2>1, <2>3, <2>5, <2>7, SoundIs DEF StoredSound
  <2>11. SeenSound(world, t.app, t.seen, t.observer)
    BY <1>6, <2>5, <2>7 DEF SeenSound
  <2>12. LanSound(world, t.worker, t.app, t.seen, t.observer)
    BY <2>3, <2>5, <2>7, SoundIs DEF LanSound
  <2>13. PortsSound(world, t.worker, t.app, t.port)
    <3>1. k.state \in {"WAIT_BINDINGS", "ROLLBACK_BINDINGS"} /\ k.state = a.status
      BY <1>2, <2>1, <2>3, <2>5
    <3>2. k.alive => a.ack
      BY <2>3, <2>5
    <3> QED
      BY <1>2, <1>3, <1>6, <2>1, <2>3, <2>5, <2>7, <3>1, <3>2 DEF PortsSound
  <2> QED
    BY <2>7, <2>8, <2>9, <2>10, <2>11, <2>12, <2>13, SoundBecomes, SoundIs
<1> QED
  BY <1>4, <1>5, <1>6

\* The port at the index is bound, or is waited for, and the index moves on.
LEMMA BindsNextSound ==
    ASSUME NEW s, Sound(s), Bindings!Binding(s), s.app.pid => s.worker.sent = <<>>
    PROVE  Sound(Bindings!BindsNext(s))
<1>1. PICK i : i = s.app.index
  OBVIOUS
<1>2. i \in Nat /\ s \in Stage /\ s.app.affinity = Bound
  BY <1>1, BindingIs, SoundIs DEF Runtime
<1>3. CASE i \notin Ports
  <2>1. Bindings!BindsNext(s) = Bindings!Concludes(s)
    BY <1>1, <1>3 DEF Bindings!BindsNext
  <2> QED
    BY <1>1, <1>3, <2>1, ConcludesSound
<1>4. CASE i \in Ports /\ i \notin Bound
  <2>1. Bindings!BindsNext(s) = Bindings!Passes(s)
    BY <1>1, <1>2, <1>4 DEF Bindings!BindsNext
  <2> QED
    BY <1>1, <1>4, <2>1, PassesSound
<1>5. CASE i \in Ports /\ i \in Bound
  <2>1. PICK address : address = Bindings!Where(s, IF s.app.status = "WAIT_BINDINGS"
                                                   THEN s.app.candidate ELSE s.app.confirmed)
    OBVIOUS
  <2>2. Bindings!BindsNext(s) =
           IF address # "nowhere" THEN Bindings!BindsAt(s, i, address)
           ELSE IF s.app.status = "WAIT_BINDINGS" THEN s
                ELSE Bindings!Passes(Bindings!Waits(s, i, TRUE))
    <3>1. i \in s.app.affinity
      BY <1>2, <1>5
    <3> QED
      BY <1>1, <1>5, <2>1, <3>1 DEF Bindings!BindsNext, Bindings!Nowhere
  <2>3. CASE address # "nowhere"
    BY <1>1, <1>5, <2>1, <2>2, <2>3, BindsAtSound
  <2>4. CASE address = "nowhere" /\ s.app.status = "WAIT_BINDINGS"
    BY <2>2, <2>4
  <2>5. CASE address = "nowhere" /\ s.app.status # "WAIT_BINDINGS"
    <3>1. s.app.status = "ROLLBACK_BINDINGS" /\ s.app.confirmed \in Networks /\ i \in Ports
      BY <1>5, <2>5, BindingIs, SoundIs, ServicesAssumption DEF Runtime
    <3>2. s.app.confirmed \in LeasedNetworks
      BY <1>2, <2>1, <2>5, <3>1, WhereIs
    <3>3. PICK u : u = Bindings!Waits(s, i, TRUE)
      OBVIOUS
    <3>4. /\ u \in Stage /\ u.worker = s.worker /\ u.app = s.app /\ u.seen = s.seen
          /\ u.observer = s.observer
      BY <1>2, <3>1, <3>3, WaitsIs
    <3>5. Sound(u)
      BY <3>1, <3>2, <3>4, PortsMay
    <3>6. Bindings!Binding(u) /\ (u.app.pid => u.worker.sent = <<>>)
      BY <3>4 DEF Bindings!Binding
    <3>7. Sound(Bindings!Passes(u))
      BY <3>1, <3>2, <3>4, <3>5, <3>6, PassesSound
    <3> QED
      BY <2>2, <2>5, <3>3, <3>7
  <2> QED
    BY <2>3, <2>4, <2>5
<1> QED
  BY <1>3, <1>4, <1>5

\* The ports are bound one by one, and the worker is told when all are.
LEMMA BindsSound ==
    ASSUME NEW s, Sound(s), Bindings!Binding(s) /\ s.app.pid => s.worker.sent = <<>>
    PROVE  Sound(Bindings!Binds(s))
<1>1. PICK u : u = Bindings!Selects(s)
  OBVIOUS
<1>2. /\ Sound(u) /\ u.worker = s.worker /\ u.seen = s.seen
      /\ u.app.status = s.app.status /\ u.app.ack = s.app.ack /\ u.app.pid = s.app.pid
  BY <1>1, SelectsSound
<1>3. PICK t : t = Bindings!Watches(u)
  OBVIOUS
<1>4. /\ Sound(t) /\ t.app = u.app /\ t.seen = u.seen /\ t.worker.sent = u.worker.sent
  BY <1>2, <1>3, RevertsSound DEF Bindings!Watches
<1>5. Bindings!Binding(t) => Bindings!Binding(s)
  BY <1>2, <1>4 DEF Bindings!Binding
<1>6. Bindings!Binds(s) = IF Bindings!Binding(t) THEN Bindings!BindsNext(t) ELSE t
  BY <1>1, <1>3 DEF Bindings!Binds
<1> QED
  BY <1>2, <1>4, <1>5, <1>6, BindsNextSound

\* One tick of the application.
LEMMA TickBound ==
    ASSUME BindingsInv, Bindings!Tick \/ Bindings!TickBlind
    PROVE  BindingsInv'
<1>1. PICK s : s = Bindings!All
  OBVIOUS
<1>2. /\ s \in Stage /\ s.worker = worker /\ s.app = runtime /\ s.seen = seen
      /\ s.observer = observer /\ s.port = port
  BY <1>1, BoundParts DEF Bindings!All, Stage
<1>3. Sound(s)
  BY <1>2 DEF Sound, BindingsInv
<1>4. PICK o : /\ Sound(o)
               /\ \E h \in Bindings!Heard(o) : \E d \in Bindings!Dynamic(h) :
                     Bindings!Becomes(Bindings!Binds(d))
  <2>1. CASE Bindings!Tick
    BY <1>1, <1>3, <2>1, ObserverSound DEF Bindings!Tick
  <2>2. CASE Bindings!TickBlind
    BY <1>1, <1>3, <2>2, ObserverFailedSound DEF Bindings!TickBlind
  <2> QED
    BY <2>1, <2>2
<1>5. PICK h \in Bindings!Heard(o) :
        \E d \in Bindings!Dynamic(h) : Bindings!Becomes(Bindings!Binds(d))
  BY <1>4
<1>6. PICK d \in Bindings!Dynamic(h) : Bindings!Becomes(Bindings!Binds(d))
  BY <1>5
<1>7. Sound(h) /\ (Bindings!Binding(h) /\ h.app.pid => h.worker.sent = <<>>)
  BY <1>4, HeardSound
<1>8. Sound(d) /\ d.worker = h.worker /\ d.app = h.app /\ d.seen = h.seen
  BY <1>7, DynamicSound
<1>9. PICK t : t = Bindings!Binds(d)
  OBVIOUS
<1>10. Sound(t)
  BY <1>7, <1>8, <1>9, BindsSound DEF Bindings!Binding
<1>11. /\ worker' = t.worker /\ runtime' = t.app /\ seen' = t.seen /\ observer' = t.observer
       /\ port' = t.port
  BY <1>6, <1>9 DEF Bindings!Becomes
<1>12. world' = world
  BY DEF Bindings!Tick, Bindings!TickBlind
<1> QED
  BY <1>10, <1>11, <1>12 DEF Sound, BindingsInv

\* A step of the LAN, the worker, the application or a port keeps the bindings sound.
LEMMA BindingsNextKeeps == BindingsInv /\ Bindings!Next => BindingsInv'
<1> SUFFICES ASSUME BindingsInv, Bindings!Next PROVE BindingsInv'
  OBVIOUS
<1>1. CASE Bindings!WorkerApplies \/ Bindings!WorkerWaits \/ Bindings!WorkerCommits
           \/ Bindings!WorkerRestores \/ Bindings!WorkerGoesOn \/ Bindings!WorkerDies
  BY <1>1, AppliesBound, WaitsBound, CommitsBound, RestoresBound, GoesOnBound, DiesBound
<1>2. CASE Bindings!OwnerFollows \/ Bindings!LeaseMoves \/ Bindings!ObserverReads
           \/ \E i \in Ports : Bindings!PortEnds(i) \/ Bindings!PortFails(i)
  BY <1>2, FollowsBound, MovesBound, ReadsBound, PortEndsBound, PortFailsBound
<1>3. CASE Bindings!Tick \/ Bindings!TickBlind \/ Bindings!LeaseExpires \/ Bindings!Apply
           \/ Bindings!Keep \/ Bindings!Revert
  BY <1>3, TickBound, ExpiresBound, ApplyBound, UserBound
<1> QED
  BY <1>1, <1>2, <1>3 DEF Bindings!Next

\* The bindings at rest stay sound.
LEMMA BindingsRest == BindingsInv /\ UNCHANGED bindingVars => BindingsInv'
<1> SUFFICES ASSUME BindingsInv, UNCHANGED bindingVars PROVE BindingsInv'
  OBVIOUS
<1>1. /\ world' = world /\ worker' = worker /\ runtime' = runtime /\ seen' = seen
      /\ observer' = observer /\ port' = port
  BY DEF bindingVars
<1> QED
  BY <1>1 DEF BindingsInv

\* The invariant says what the property asks.
LEMMA BindingsInvHolds ==
    BindingsInv => /\ Bindings!TypeOK /\ Bindings!AskedWhenBound /\ Bindings!EndsBound
                   /\ Bindings!RecoveredIsStored
<1> SUFFICES ASSUME BindingsInv
             PROVE  /\ Bindings!TypeOK /\ Bindings!AskedWhenBound /\ Bindings!EndsBound
                    /\ Bindings!RecoveredIsStored
  OBVIOUS
<1>1. Bindings!TypeOK
  <2>1. Len(worker.sent) <= 4
    BY BoundParts, TrailIsShort
  <2>2. /\ world.policy \in Networks /\ world.stored \in Networks
        /\ world.lease \in LanLeases \cup {"nowhere"}
    BY BoundParts DEF LanWorld, Places
  <2>3. runtime.confirmed \in Networks /\ runtime.affinity \subseteq Bound
    BY BoundParts DEF Runtime
  <2>4. \A i \in Ports : port[i].life \in {"READY", "WAIT", "CHANGING", "ERROR"}
    BY BoundParts DEF BoundPort
  <2> QED
    BY <2>1, <2>2, <2>3, <2>4 DEF Bindings!TypeOK, Bindings!Nowhere
<1>2. Bindings!AskedWhenBound
  <2>1. ASSUME worker.alive, worker.state \in {"WAIT_CONFIRM", "COMMITTING"},
               NEW i \in Bound, port[i].life = "READY"
        PROVE  port[i].current \in world.had
    <3>1. Fits(port[i], world, runtime.candidate)
      BY <2>1, BoundParts DEF PortsSound
    <3>2. world.policy = runtime.candidate
      BY <2>1, BoundParts DEF LanSound
    <3> QED
      BY <2>1, <3>1, <3>2, BoundParts DEF Fits, LanSound
  <2> QED
    BY <2>1 DEF Bindings!AskedWhenBound
<1>3. Bindings!EndsBound
  BY BoundParts DEF Bindings!EndsBound, Bindings!Busy, PortsSound, AtHome
<1>4. Bindings!RecoveredIsStored
  BY BoundParts DEF Bindings!RecoveredIsStored, Bindings!Busy, StoredSound
<1> QED
  BY <1>1, <1>2, <1>3, <1>4

-----------------------------------------------------------------------------
(* Theorems.                                                                 *)

\* A step of Services is one of a part, or leaves it as it is.
LEMMA Others ==
    ASSUME [Next]_vars
    PROVE  /\ Lease!Next \/ UNCHANGED dhcpVars
           /\ Owner!Next \/ UNCHANGED ownerVars
           /\ Bindings!Next \/ UNCHANGED bindingVars
  BY DEF Next, ServesUart, ServesSeed, ServesTime, ServesPanel, ServesLease, ServesOwner,
         ServesBindings, ServesWeb, vars

\* The lease of a LAN is sound in every behaviour, also where a start takes an id that an
\* earlier session has used: what answers a request of this session was granted after
\* the first request of its transaction (Dhcp).
THEOREM LeaseInvariance == Spec => []LeaseInv
<1>1. Init => LeaseInv
  BY LeaseInit DEF Init
<1>2. LeaseInv /\ [Next]_vars => LeaseInv'
  BY LeaseStep, Others
<1> QED
  BY <1>1, <1>2, PTL DEF Spec

\* The owner of the network and its guardian are in step in every behaviour (NetworkOwner).
THEOREM OwnerInvariance == Spec => []OwnerInv
<1>1. Init => OwnerInv
  BY OwnerInit DEF Init
<1>2. OwnerInv /\ [Next]_vars => OwnerInv'
  BY OwnerStep, Others
<1> QED
  BY <1>1, <1>2, PTL DEF Spec

\* The address in use is one of the servers', leased for as long as the client thinks if it
\* was acknowledged in answer to a request of this session; and what the owner calls
\* settled is in the kernel, whole, with nothing that writes (Dhcp, NetworkOwner).
THEOREM NetworkHolds == Spec => []NetworkIsInstalled
<1>1. LeaseInv => Lease!TypeOK /\ Lease!LeaseIsGranted
  <2> SUFFICES ASSUME LeaseInv PROVE Lease!TypeOK /\ Lease!LeaseIsGranted
    OBVIOUS
  <2>1. Lease!TypeOK
    BY LeaseType DEF Lease!TypeOK, LeaseInv, ClientType
  <2>2. Lease!LeaseIsGranted
    BY LeaseType, LeaseBounds DEF Lease!LeaseIsGranted, ClientSound, Held
  <2> QED
    BY <2>1, <2>2
<1>2. OwnerInv => Owner!TypeOK /\ Owner!SettledIsInstalled
  <2> SUFFICES ASSUME OwnerInv PROVE Owner!TypeOK /\ Owner!SettledIsInstalled
    OBVIOUS
  <2>1. Len(toGuardian) <= 3 /\ Len(toOwner) <= 1
    <3>1. CASE owner.process = "running"
      BY <3>1, OwnerTypes, InStepBounded DEF Supervised, InStep
    <3>2. CASE owner.process = "dead"
      BY <3>2, OwnerTypes DEF Supervised
    <3>3. CASE owner.process = "none"
      <4>1. toGuardian = <<>> /\ toOwner = <<>>
        BY <3>3, OwnerTypes DEF Supervised
      <4>2. Len(toGuardian) = 0 /\ Len(toOwner) = 0
        BY <4>1
      <4> QED
        BY <4>2
    <3> QED
      BY <3>1, <3>2, <3>3, OwnerTypes DEF OwnerType
  <2>2. Owner!TypeOK
    BY <2>1, OwnerTypes DEF Owner!TypeOK, OwnerInv, OwnerType, JobType, Written
  <2>3. Owner!SettledIsInstalled
    <3> SUFFICES ASSUME Owner!Running, owner.settled
                 PROVE  installed = Owner!Wanted(owner) /\ job.kind = "none"
      BY DEF Owner!SettledIsInstalled
    <3>1. installed = Owner!Wanted(owner) /\ ~owner.job
      BY OwnerTypes DEF OwnerSound
    <3>2. job.kind = "none"
      BY <3>1, OwnerRuns DEF InStep, Idle, Asks, Waits
    <3> QED
      BY <3>1, <3>2
  <2> QED
    BY <2>2, <2>3
<1> QED
  BY <1>1, <1>2, LeaseInvariance, OwnerInvariance, PTL DEF NetworkIsInstalled

\* The LAN, the worker of a change, the application and the ports it binds are in step in
\* every behaviour (NetworkBindings).
THEOREM BindingsInvariance == Spec => []BindingsInv
<1>1. Init => BindingsInv
  BY BoundStarts DEF Init
<1>2. BindingsInv /\ [Next]_vars => BindingsInv'
  BY BindingsNextKeeps, BindingsRest, Others
<1> QED
  BY <1>1, <1>2, PTL DEF Spec

\* A change that waits for its confirmation has its ports bound, one that ended left them
\* bound to the policy that stays, and a recovery that ended is at the policy that is
\* stored (NetworkBindings).
THEOREM BindingsHold == Spec => []BindingsFollow
<1>1. BindingsInv => BindingsFollow
  BY BindingsInvHolds DEF BindingsFollow
<1> QED
  BY <1>1, BindingsInvariance, PTL
=============================================================================
