----------------------------- MODULE UartBackend -----------------------------
(***************************************************************************)
(* The UART of one port (src/uart/uart_backend.c): its descriptor and line *)
(* settings, and one request at a time written to the line and answered    *)
(* from it.  The caller is port_runtime (PortRuntime); "phase" is the part *)
(* of its state that decides which operation it calls next.                *)
(*                                                                         *)
(* The line carries bytes known by the request they answer and by how many *)
(* recoveries had happened when they arrived.  A device may answer a       *)
(* request late, after it was given up, in pieces, and with garbage.       *)
(***************************************************************************)
EXTENDS Integers, Sequences, FiniteSets

CONSTANTS
    Settings,        \* configurations of the port
    SpecialSettings, \* those with special_baud_enabled
    FrameLength,     \* bytes of a request and of its answer
    LineMax,         \* model bound: bytes waiting on the line
    DrainLimit,      \* UART_RECOVERY_DRAIN_LIMIT
    MaxStarts,       \* model bound: requests
    MaxRecoveries,   \* model bound: recoveries
    MaxChanges       \* model bound: reconfigurations, starts and stops of the port

VARIABLES
    phase,      \* the caller's state
    uart,       \* uart_backend_t: opened, config, saved and the operation
    hardware,   \* what the driver has: termios, mode, special
    line,       \* bytes received and not read
    owed,       \* of each request, bytes its device may still send
    starts,     \* requests so far
    recoveries, \* successful recoveries so far
    current,    \* port_runtime's current_config
    changes     \* reconfigurations, starts and stops so far

uartVars == <<phase, uart, hardware, line, owed, starts, recoveries, current, changes>>

Policies == {"none", "fixed", "framed"}

\* No operation: active_generation is 0.
Idle == [request |-> 0, policy |-> "none", left |-> 0, reported |-> FALSE, rx |-> << >>]

NothingSaved == [termios |-> "none", mode |-> "none", special |-> "none"]

Init ==
    /\ \E found \in Settings : hardware = [termios |-> found, mode |-> found, special |-> found]
    /\ \E c \in Settings :
         /\ current = c
         /\ uart = [opened |-> FALSE, config |-> c, saved |-> NothingSaved, active |-> Idle]
    /\ phase = "stopped" /\ line = << >> /\ owed = [n \in 1..MaxStarts |-> 0]
    /\ starts = 0 /\ recoveries = 0 /\ changes = 0

-----------------------------------------------------------------------------
(* Line settings. *)

\* What the driver has is the configuration c.
Fits(h, c) == h.termios = c /\ h.mode = c /\ (c \in SpecialSettings => h.special = c)

Half(h, c) == [h EXCEPT !.termios = c]
Moded(h, c) == [h EXCEPT !.termios = c, !.mode = c]
Whole(h, c) == IF c \in SpecialSettings THEN [termios |-> c, mode |-> c, special |-> c]
               ELSE Moded(h, c)

\* What a failing apply_config leaves: each step in turn fails, or cannot be read back.
Partial(h, c) == {h, Half(h, c), Moded(h, c)} \cup {Whole(h, c)}

\* apply_config sets the configuration and reads it back.
Applies(c) ==
    /\ uart.opened
    /\ hardware' = Whole(hardware, c)
    /\ uart' = [uart EXCEPT !.config = c]

\* Nothing is undone: the hardware has part of c.
AppliesPartly(h, c) == hardware' \in Partial(h, c)

\* What backend_open keeps for backend_stop: the special rate only if the device uses
\* one, and else the one of an earlier open.
Saves ==
    [hardware EXCEPT !.special = IF hardware.termios \in SpecialSettings THEN @
                                 ELSE uart.saved.special]

\* backend_open
Open ==
    /\ phase = "starting" /\ phase' = "ready"
    /\ IF uart.opened THEN UNCHANGED <<uart, hardware>>
       ELSE /\ hardware' = Whole(hardware, uart.config)
            /\ uart' = [uart EXCEPT !.opened = TRUE, !.saved = Saves]
    /\ UNCHANGED <<line, owed, starts, recoveries, current, changes>>

\* The device does not open, what it has cannot be read, or it does not take the
\* configuration: then termios and mode are set back, if the driver takes them, and
\* it is closed.
OpenFails ==
    /\ phase = "starting" /\ ~uart.opened
    /\ \E h \in Partial(hardware, uart.config) :
         \E t \in {h.termios, hardware.termios}, m \in {h.mode, hardware.mode} :
           hardware' = [h EXCEPT !.termios = t, !.mode = m]
    /\ line' = << >>
    /\ phase' \in {"starting", "recovering"}
    /\ UNCHANGED <<uart, owed, starts, recoveries, current, changes>>

-----------------------------------------------------------------------------
(* The device at the other end. *)

Byte(n) == [answers |-> n, at |-> recoveries]

\* A device sends a byte of an answer.
Arrives(n) ==
    /\ uart.opened /\ Len(line) < LineMax /\ owed[n] > 0
    /\ line' = Append(line, Byte(n))
    /\ owed' = [owed EXCEPT ![n] = @ - 1]
    /\ UNCHANGED <<phase, uart, hardware, starts, recoveries, current, changes>>

\* Noise.
Garbles ==
    /\ uart.opened /\ phase = "waiting" /\ Len(line) < LineMax
    /\ \A i \in DOMAIN line : line[i].answers # 0
    /\ \A i \in DOMAIN uart.active.rx : uart.active.rx[i].answers # 0
    /\ line' = Append(line, Byte(0))
    /\ UNCHANGED <<phase, uart, hardware, owed, starts, recoveries, current, changes>>

-----------------------------------------------------------------------------
(* One operation. *)

\* backend_start: the input is not flushed.
Start(policy) ==
    /\ phase = "ready" /\ starts < MaxStarts
    /\ phase' = "waiting" /\ starts' = starts + 1
    /\ uart' = [uart EXCEPT !.active = [request |-> starts + 1, policy |-> policy,
                                        left |-> FrameLength, reported |-> FALSE, rx |-> << >>]]
    /\ UNCHANGED <<hardware, line, owed, recoveries, current, changes>>

Active == uart.active

\* backend_poll while the request is not written: up to UART_IO_BUDGET bytes of it.
Write ==
    /\ phase = "waiting" /\ Active.left > 0
    /\ \E written \in 1..Active.left :
         /\ uart' = [uart EXCEPT !.active.left = @ - written]
         /\ owed' = IF written = Active.left /\ Active.policy # "none"
                    THEN [owed EXCEPT ![Active.request] = FrameLength] ELSE owed
    /\ UNCHANGED <<phase, hardware, line, starts, recoveries, current, changes>>

\* BACKEND_EVENT_TRANSMITTED, once
Transmitted ==
    /\ phase = "waiting" /\ Active.left = 0 /\ Active.policy # "none" /\ ~Active.reported
    /\ uart' = [uart EXCEPT !.active.reported = TRUE]
    /\ UNCHANGED <<phase, hardware, line, owed, starts, recoveries, current, changes>>

\* What the bytes so far are to the operation's policy.  A frame is complete with all
\* bytes of one answer; foreign bytes spoil its checksum or its address, but a whole
\* answer to another request may pass for this one.
Verdicts(rx) ==
    LET whole == \E n \in 1..starts : \A i \in DOMAIN rx : rx[i].answers = n
        own   == \A i \in DOMAIN rx : rx[i].answers = Active.request
    IN  IF Active.policy = "fixed"
        THEN IF Len(rx) < FrameLength THEN {"incomplete"}
             ELSE IF Len(rx) = FrameLength THEN {"response"} ELSE {"malformed"}
        ELSE IF Len(rx) < FrameLength
             THEN IF own THEN {"incomplete"} ELSE {"incomplete", "malformed"}
             ELSE IF Len(rx) > FrameLength \/ ~whole THEN {"malformed"}
             ELSE IF own THEN {"response"} ELSE {"response", "malformed"}

\* Some bytes of the line; the rest follows later.
ReadMore(verdict) ==
    /\ Active.request # 0 /\ Active.left = 0 /\ Active.reported /\ line # << >>
    /\ \E n \in 1..Len(line) :
         /\ verdict \in Verdicts(Active.rx \o SubSeq(line, 1, n))
         /\ uart' = [uart EXCEPT !.active.rx = @ \o SubSeq(line, 1, n)]
         /\ line' = SubSeq(line, n + 1, Len(line))

ReadIncomplete ==
    /\ phase = "waiting" /\ ReadMore("incomplete")
    /\ UNCHANGED <<phase, hardware, owed, starts, recoveries, current, changes>>

\* The operation stays active: the caller does not cancel what is complete.
ReadResponse ==
    /\ phase = "waiting" /\ phase' = "ready" /\ ReadMore("response")
    /\ UNCHANGED <<hardware, owed, starts, recoveries, current, changes>>

\* An operation without an answer is complete when it is written.
WrittenResponse ==
    /\ phase = "waiting" /\ phase' = "ready" /\ Active.policy = "none" /\ Active.left = 0
    /\ UNCHANGED <<uart, hardware, line, owed, starts, recoveries, current, changes>>

\* What follows a complete answer while the port recovers from a failure that cancelled
\* nothing: port_runtime counts it as stale.
ReadStale ==
    /\ phase = "recovering" /\ ReadMore("malformed")
    /\ UNCHANGED <<phase, hardware, owed, starts, recoveries, current, changes>>

\* backend_cancel
Cancelled == [uart EXCEPT !.active = Idle]

\* begin_recovery: a malformed answer,
ReadMalformed ==
    /\ phase = "waiting" /\ phase' = "recovering"
    /\ \E n \in 1..Len(line) :
         /\ Active.left = 0 /\ Active.reported
         /\ "malformed" \in Verdicts(Active.rx \o SubSeq(line, 1, n))
         /\ line' = SubSeq(line, n + 1, Len(line))
    /\ uart' = Cancelled
    /\ UNCHANGED <<hardware, owed, starts, recoveries, current, changes>>

\* an I/O error, no answer in time, or a listener that is detached.
GivesUp ==
    /\ phase = "waiting" /\ phase' = "recovering" /\ uart' = Cancelled
    /\ UNCHANGED <<hardware, line, owed, starts, recoveries, current, changes>>

\* port_runtime_report_io_failure: nothing is cancelled, there is no active request.
ReportsFailure ==
    /\ phase = "ready" /\ phase' = "recovering"
    /\ UNCHANGED <<uart, hardware, line, owed, starts, recoveries, current, changes>>

-----------------------------------------------------------------------------
(* Recovery. *)

\* Fault: what is drained is all there is.
RecoverByDrain ==
    /\ uart.opened
    /\ line' = SubSeq(line, DrainLimit + 1, Len(line))
    /\ uart' = Cancelled

\* backend_recover: drains the input, and flushes what arrived since.
RecoverWhole ==
    /\ uart.opened /\ Len(line) < DrainLimit
    /\ line' = << >>
    /\ uart' = Cancelled

Recover ==
    /\ phase = "recovering" /\ phase' = "ready" /\ recoveries < MaxRecoveries
    /\ RecoverWhole
    /\ recoveries' = recoveries + 1
    /\ UNCHANGED <<hardware, owed, starts, current, changes>>

\* Closed, a read error, more than the limit, or the flush fails: part is drained, the
\* operation stays, and port_runtime tries again until it has no attempts left.
RecoverFails ==
    /\ phase = "recovering" /\ phase' \in {"recovering", "degraded"}
    /\ \E n \in 0..Len(line) : n <= DrainLimit /\ line' = SubSeq(line, n + 1, Len(line))
    /\ UNCHANGED <<uart, hardware, owed, starts, recoveries, current, changes>>

-----------------------------------------------------------------------------
(* Reconfiguration, start and stop by port_runtime. *)

RequestReconfigure ==
    /\ phase \in {"ready", "waiting", "recovering", "degraded"} /\ changes < MaxChanges
    /\ phase' = "reconfiguring" /\ changes' = changes + 1
    /\ uart' = IF phase = "waiting" THEN Cancelled ELSE uart
    /\ UNCHANGED <<hardware, line, owed, starts, recoveries, current>>

\* backend_reconfigure with the staged configuration
Reconfigure(c) ==
    /\ phase = "reconfiguring" /\ phase' = "ready"
    /\ Applies(c) /\ current' = c
    /\ UNCHANGED <<line, owed, starts, recoveries, changes>>

\* Fault: the configuration that did not apply is taken back by forgetting it.
FallsBackByName(c) == AppliesPartly(hardware, c) /\ UNCHANGED uart

\* The staged configuration c does not apply, the one before does.
FallsBackOn(c) ==
    /\ uart.opened
    /\ \E h \in Partial(hardware, c) : hardware' = Whole(h, current)
    /\ uart' = [uart EXCEPT !.config = current]

FallBack(c) ==
    /\ phase = "reconfiguring" /\ phase' = "ready"
    /\ FallsBackOn(c)
    /\ UNCHANGED <<line, owed, starts, recoveries, current, changes>>

\* Neither applies.
ReconfigureFails(c) ==
    /\ phase = "reconfiguring" /\ phase' = "error"
    /\ \E h \in IF uart.opened THEN Partial(hardware, c) ELSE {hardware} :
         IF uart.opened THEN AppliesPartly(h, current) ELSE UNCHANGED hardware
    /\ UNCHANGED <<uart, line, owed, starts, recoveries, current, changes>>

RequestStart ==
    /\ phase = "stopped" /\ changes < MaxChanges
    /\ phase' = "starting" /\ changes' = changes + 1
    /\ UNCHANGED <<uart, hardware, line, owed, starts, recoveries, current>>

RequestStop ==
    /\ phase \notin {"stopped", "stopping"}
    /\ phase' = "stopping"
    /\ uart' = IF phase = "waiting" THEN Cancelled ELSE uart
    /\ UNCHANGED <<hardware, line, owed, starts, recoveries, current, changes>>

\* Fault: the special rate is left as it was set.
RestoresMost(s) == [hardware EXCEPT !.termios = s.termios, !.mode = s.mode]

\* What backend_stop sets back.
Restored(s) == [s EXCEPT !.special = IF @ = "none" THEN hardware.special ELSE @]

\* backend_stop
Stop ==
    /\ phase = "stopping" /\ phase' = "stopped"
    /\ IF uart.opened
       THEN hardware' = Restored(uart.saved) /\ uart' = [uart EXCEPT !.opened = FALSE]
       ELSE UNCHANGED <<hardware, uart>>
    /\ line' = << >>
    /\ UNCHANGED <<owed, starts, recoveries, current, changes>>

\* Something is not set back, or close fails: only a failing close keeps the descriptor.
StopFails ==
    /\ phase = "stopping" /\ uart.opened
    /\ hardware' \in {[termios |-> t, mode |-> m, special |-> s] :
                        t \in {hardware.termios, uart.saved.termios},
                        m \in {hardware.mode, uart.saved.mode},
                        s \in {hardware.special, Restored(uart.saved).special}}
    /\ \/ line' = << >> /\ uart' = [uart EXCEPT !.opened = FALSE]
       \/ UNCHANGED <<line, uart>>
    /\ phase' \in {"stopping", "error"}
    /\ UNCHANGED <<owed, starts, recoveries, current, changes>>

Next ==
    \/ Open \/ OpenFails \/ Write \/ Transmitted
    \/ \E n \in 1..MaxStarts : Arrives(n)
    \/ Garbles
    \/ \E policy \in Policies : Start(policy)
    \/ ReadIncomplete \/ ReadResponse \/ WrittenResponse \/ ReadStale \/ ReadMalformed \/ GivesUp
    \/ ReportsFailure \/ Recover \/ RecoverFails
    \/ RequestReconfigure \/ RequestStart \/ RequestStop \/ Stop \/ StopFails
    \/ \E c \in Settings : Reconfigure(c) \/ FallBack(c) \/ ReconfigureFails(c)

Spec == Init /\ [][Next]_uartVars

-----------------------------------------------------------------------------
(* Properties *)

TypeOK ==
    /\ phase \in {"stopped", "starting", "ready", "waiting", "recovering", "degraded",
                  "reconfiguring", "stopping", "error"}
    /\ uart.opened \in BOOLEAN /\ uart.config \in Settings
    /\ uart.active.request \in 0..starts /\ uart.active.left \in 0..FrameLength
    /\ uart.active.policy \in Policies /\ uart.active.reported \in BOOLEAN
    /\ Len(line) <= LineMax
    /\ phase \in {"ready", "waiting"} => uart.opened
    /\ starts \in 0..MaxStarts /\ recoveries \in 0..MaxRecoveries

\* No byte that waited on the line when a recovery succeeded is in the answer to a
\* request of later, whatever devices send late and however recoveries fail: what an
\* answer holds of other requests arrived after the last recovery.
AnswerIsFresh ==
    \A i \in DOMAIN uart.active.rx : uart.active.rx[i].at = recoveries

\* A port that serves runs exactly the configuration port_runtime takes for current,
\* after any half-applied change.  (A port enabled with other settings is PortController's
\* subject: there the UART keeps its own.)
LineFits ==
    phase \in {"ready", "waiting"} => uart.config = current /\ Fits(hardware, current)

\* A stop that reports no error has set the line back to what this open found,
\* the special rate with it when the device used one.
StopRestores ==
    [][phase = "stopping" /\ phase' = "stopped" /\ uart.opened =>
         /\ hardware'.termios = uart.saved.termios /\ hardware'.mode = uart.saved.mode
         /\ uart.saved.termios \in SpecialSettings => hardware'.special = uart.saved.special]_uartVars
=============================================================================
