------------------------------ MODULE RawSerial ------------------------------
(***************************************************************************)
(* The raw serial listener of one port                                     *)
(* (src/network/raw_serial_listener.c): one network peer at a time owns    *)
(* the UART, over TCP or UDP.  A loop of the gateway calls step, which     *)
(* reads the UART, receives, writes the UART and sends; "at" is its        *)
(* progress.  The driver's queues change at any time.                      *)
(*                                                                         *)
(* Owners are numbered.  A byte written is known by its owner, a byte from *)
(* the line by the owners there had been when it arrived, and by whether   *)
(* a step began since that found no owner.                                 *)
(***************************************************************************)
EXTENDS Integers, Sequences

CONSTANTS
    BufferSize,  \* RAW_BUFFER_SIZE
    DriverMax,   \* model bound: bytes a queue of the driver holds
    MaxSessions  \* model bound: owners

VARIABLES
    at,           \* "between" steps, or the part of step that is next
    bound,        \* fd >= 0
    datagrams,    \* udp
    owner,        \* the owner's number, 0: not owned
    eof,
    guard,
    flushPending, \* flush_pending
    tx,           \* from the network to the UART
    rx,           \* from the UART to the network
    input,        \* the driver's input queue
    output,       \* the driver's output queue
    port,         \* the port: READY with nothing to do, or RECOVERING
    sessions      \* owners so far

rawVars == <<at, bound, datagrams, owner, eof, guard, flushPending, tx, rx, input, output,
             port, sessions>>

Init ==
    /\ at = "between" /\ bound = FALSE /\ datagrams = FALSE
    /\ owner = 0 /\ eof = FALSE /\ guard = FALSE /\ flushPending = FALSE
    /\ tx = << >> /\ rx = << >> /\ input = << >> /\ output = << >>
    /\ port = "ready" /\ sessions = 0

-----------------------------------------------------------------------------
(* The end of an owner. *)

\* TCIOFLUSH
Flushes == input' = << >> /\ output' = << >>

\* Fault: a flush that failed is not tried again.
FlushOnce(due) ==
    /\ flushPending' = FALSE
    /\ \/ ~due /\ UNCHANGED <<input, output, port>>
       \/ due /\ Flushes /\ UNCHANGED port
       \/ due /\ port' = "recovering" /\ UNCHANGED <<input, output>>

\* flush_boundary: a flush that fails stays pending and makes the port recover.
FlushBoundary(due) ==
    \/ ~due /\ flushPending' = FALSE /\ UNCHANGED <<input, output, port>>
    \/ due /\ Flushes /\ flushPending' = FALSE /\ UNCHANGED port
    \/ due /\ flushPending' = TRUE /\ port' = "recovering" /\ UNCHANGED <<input, output>>

Cleared == owner' = 0 /\ eof' = FALSE /\ tx' = << >> /\ rx' = << >> /\ guard' = TRUE

\* release
Release == Cleared /\ FlushBoundary(owner # 0 \/ flushPending)

\* The port is told of the failure after the release, if it is ready.
ReleaseAndFault ==
    /\ Cleared /\ port' = "recovering"
    /\ \/ owner = 0 /\ ~flushPending /\ UNCHANGED <<flushPending, input, output>>
       \/ (owner # 0 \/ flushPending) /\ Flushes /\ flushPending' = FALSE
       \/ (owner # 0 \/ flushPending) /\ flushPending' = TRUE /\ UNCHANGED <<input, output>>

\* step goes on only while the port is ready.
GoesOn(next) == at' = IF port' = "ready" THEN next ELSE "between"

Steps == UNCHANGED <<bound, datagrams>>

-----------------------------------------------------------------------------
(* raw_serial_listener_step *)

MayStep == at = "between" /\ bound /\ port = "ready"

\* What waits for nobody when a step begins.
Waited(queue) == [i \in DOMAIN queue |-> [queue[i] EXCEPT !.waited = @ \/ owner = 0]]

\* A flush that failed is tried again before anything else.
FlushAgain ==
    /\ MayStep /\ flushPending
    /\ FlushBoundary(TRUE)
    /\ guard' = (guard \/ ~flushPending')
    /\ GoesOn("read")
    /\ Steps /\ UNCHANGED <<owner, eof, tx, rx, sessions>>

Begin ==
    /\ MayStep /\ ~flushPending /\ at' = "read"
    /\ input' = Waited(input)
    /\ Steps /\ UNCHANGED <<owner, eof, guard, flushPending, tx, rx, output, port, sessions>>

\* The owner is silent, is gone and served, or a buffer does not move.
Expires ==
    /\ MayStep /\ ~flushPending /\ owner # 0
    /\ datagrams \/ tx # << >> \/ rx # << >> \/ eof
    /\ Release /\ GoesOn("read")
    /\ Steps /\ UNCHANGED sessions

\* serial_read: what arrives for nobody is dropped, and the quiet time starts again.
ReadSerial ==
    /\ at = "read" /\ at' = "receive" /\ input # << >>
    /\ \E n \in 1..Len(input) :
         /\ owner # 0 => n <= BufferSize - Len(rx)
         /\ input' = SubSeq(input, n + 1, Len(input))
         /\ IF owner # 0 THEN rx' = rx \o SubSeq(input, 1, n) /\ UNCHANGED guard
            ELSE guard' = TRUE /\ UNCHANGED rx
    /\ Steps /\ UNCHANGED <<owner, eof, flushPending, tx, output, port, sessions>>

\* Only a read that finds nothing can end the quiet time.
QuietMayEnd == owner = 0 /\ input = << >>

\* Nothing there, no room, or a signal, which starts the quiet time again.
ReadNothing ==
    /\ at = "read" /\ at' = "receive"
    /\ guard' \in (IF owner = 0 THEN {TRUE} ELSE {guard})
                  \cup (IF QuietMayEnd THEN {guard, FALSE} ELSE {})
    /\ Steps /\ UNCHANGED <<owner, eof, flushPending, tx, rx, input, output, port, sessions>>

SerialFails ==
    /\ at = "read" \/ (at = "write" /\ tx # << >>)
    /\ at' = "between"
    /\ ReleaseAndFault
    /\ Steps /\ UNCHANGED sessions

Copies(n) == [i \in 1..n |-> owner']

\* network_receive: the first peer of an unowned UART becomes the owner, except in the quiet
\* time, and may have sent something already.
Acquires ==
    /\ at = "receive" /\ at' = "write" /\ owner = 0 /\ ~guard /\ sessions < MaxSessions
    /\ sessions' = sessions + 1 /\ owner' = sessions + 1
    /\ \E n \in 0..BufferSize :
         /\ IF datagrams THEN n > 0 /\ eof' = FALSE ELSE eof' \in {FALSE, n = 0}
         /\ tx' = Copies(n)
    /\ Steps /\ UNCHANGED <<guard, flushPending, rx, input, output, port>>

\* The owner sends something, or ends its side; other peers are turned away.
Receives ==
    /\ at = "receive" /\ at' = "write" /\ owner # 0 /\ ~eof
    /\ UNCHANGED owner
    /\ \/ \E n \in 1..(BufferSize - Len(tx)) : tx' = tx \o Copies(n) /\ UNCHANGED eof
       \/ ~datagrams /\ Len(tx) < BufferSize /\ eof' = TRUE /\ UNCHANGED tx
    /\ Steps /\ UNCHANGED <<guard, flushPending, rx, input, output, port, sessions>>

ReceivesNothing ==
    /\ at = "receive" /\ at' = "write"
    /\ Steps /\ UNCHANGED <<owner, eof, guard, flushPending, tx, rx, input, output, port, sessions>>

\* The owner's connection breaks, in reading or in sending.
Breaks ==
    /\ \/ at = "receive" /\ owner # 0 /\ ~eof /\ ~datagrams /\ Len(tx) < BufferSize
       \/ at = "send" /\ owner # 0 /\ rx # << >>
    /\ Release /\ GoesOn(IF at = "receive" THEN "write" ELSE "between")
    /\ Steps /\ UNCHANGED sessions

\* serial_write
WriteSerial ==
    /\ at = "write" /\ at' = "send"
    /\ \E n \in 0..Len(tx) :
         /\ Len(output) + n <= DriverMax
         /\ output' = output \o SubSeq(tx, 1, n)
         /\ tx' = SubSeq(tx, n + 1, Len(tx))
    /\ Steps /\ UNCHANGED <<owner, eof, guard, flushPending, rx, input, port, sessions>>

\* network_send: a datagram goes whole.
Send ==
    /\ at = "send" /\ at' = "between"
    /\ \E n \in 0..Len(rx) :
         /\ datagrams => n \in {0, Len(rx)}
         /\ rx' = SubSeq(rx, n + 1, Len(rx))
    /\ Steps /\ UNCHANGED <<owner, eof, guard, flushPending, tx, input, output, port, sessions>>

-----------------------------------------------------------------------------
(* The line, the port and the controller. *)

Arrives ==
    /\ Len(input) < DriverMax
    /\ input' = Append(input, [after |-> sessions, waited |-> FALSE])
    /\ Steps /\ UNCHANGED <<at, owner, eof, guard, flushPending, tx, rx, output, port, sessions>>

Leaves ==
    /\ output # << >> /\ output' = Tail(output)
    /\ Steps /\ UNCHANGED <<at, owner, eof, guard, flushPending, tx, rx, input, port, sessions>>

\* backend_recover drains the input only.
PortRecovers ==
    /\ at = "between" /\ port = "recovering" /\ port' = "ready"
    /\ input' = << >>
    /\ Steps /\ UNCHANGED <<at, owner, eof, guard, flushPending, tx, rx, output, sessions>>

\* raw_serial_listener_close; the adapter calls it again while the flush fails.
Close ==
    /\ at = "between" /\ (bound \/ flushPending)
    /\ bound' = FALSE
    /\ Release
    /\ UNCHANGED <<at, datagrams, sessions>>

\* raw_serial_listener_init and raw_serial_listener_open
Open ==
    /\ at = "between" /\ ~bound /\ ~flushPending
    /\ bound' = TRUE /\ datagrams' \in BOOLEAN /\ guard' = FALSE
    /\ UNCHANGED <<at, owner, eof, flushPending, tx, rx, input, output, port, sessions>>

Next ==
    \/ FlushAgain \/ Begin \/ Expires
    \/ ReadSerial \/ ReadNothing \/ SerialFails
    \/ Acquires \/ Receives \/ ReceivesNothing \/ Breaks
    \/ WriteSerial \/ Send
    \/ Arrives \/ Leaves \/ PortRecovers \/ Close \/ Open

Spec == Init /\ [][Next]_rawVars

-----------------------------------------------------------------------------
(* Properties *)

TypeOK ==
    /\ at \in {"between", "read", "receive", "write", "send"}
    /\ bound \in BOOLEAN /\ datagrams \in BOOLEAN /\ eof \in BOOLEAN
    /\ guard \in BOOLEAN /\ flushPending \in BOOLEAN /\ port \in {"ready", "recovering"}
    /\ owner \in {0, sessions} /\ sessions \in 0..MaxSessions
    /\ Len(tx) <= BufferSize /\ Len(rx) <= BufferSize
    /\ Len(input) <= DriverMax /\ Len(output) <= DriverMax

\* Nothing of an earlier owner reaches a later one or goes out in its time, however the
\* flushes between them fail: what the owner is sent arrived in its time, or in the very
\* step that made it the owner, and all that is to be written is its own.
SessionsApart ==
    owner # 0 =>
        /\ ~flushPending
        /\ \A i \in DOMAIN rx : rx[i].after = owner \/ (rx[i].after = owner - 1 /\ ~rx[i].waited)
        /\ \A i \in DOMAIN tx : tx[i] = owner
        /\ \A i \in DOMAIN output : output[i] = owner
=============================================================================
