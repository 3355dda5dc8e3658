------------------------------ MODULE WebGateway ------------------------------
(* The gateway's side of its web server: web_gateway_step (web/web_gateway.c) *)
(* with the accounts of web/web_security.c.  It runs three kinds of process:  *)
(* the broker of random numbers, the web service, and a worker that derives   *)
(* or commits a password.  Each may end at any point of a step.               *)
(*                                                                            *)
(* Times are not counted: what a deadline allows may happen at any time.      *)
EXTENDS Integers

CONSTANTS MaxChanges, MaxTroubles

VARIABLES
    config,   \* the configuration: enabled, the protocol, and the one being saved
    gate,     \* web_gateway_t: the service, its connection and the switch
    broker,   \* rng_pid with the client's state
    account,  \* web_security_t
    stored,   \* the file of the password: none, the one in memory, or another
    count     \* of configuration changes and of troubles

webVars == <<config, gate, broker, account, stored, count>>

Protocols == {"http", "https"}
None == "none"
NoChange == [enabled |-> FALSE, protocol |-> None]
Commits == {"commit", "committed"}
MayFail == count.troubles < MaxTroubles
Failed == count' = [count EXCEPT !.troubles = @ + 1]
Fails(trouble) == IF trouble THEN MayFail /\ Failed ELSE UNCHANGED count

-----------------------------------------------------------------------------
(* web_security.c.  A killed worker has renamed the file, or has not.        *)

\* stop_worker: a commit that is not waited for leaves the password in doubt.
StopWorker(a) ==
    [a EXCEPT !.worker = None, !.ended = "no", !.saveFailed = @ \/ a.worker \in Commits,
              !.token = IF a.worker \in Commits THEN None ELSE @]

CancelPending(a) == [StopWorker(a) EXCEPT !.code = FALSE, !.recovery = FALSE]
Cancel(a) == [CancelPending(a) EXCEPT !.token = None]

\* web_security_local with 1 and 2, without a failure.
NewCode(a, recovery) ==
    IF (~recovery /\ a.administrator /\ ~a.saveFailed) \/ a.code THEN a
    ELSE [CancelPending(a) EXCEPT !.code = TRUE, !.recovery = recovery]

\* web_security_tick
Ticked(a) ==
    {IF expired THEN [b EXCEPT !.token = None] ELSE b :
        b \in {a} \cup (IF a.code THEN {CancelPending(a)} ELSE {}), expired \in BOOLEAN}

\* A worker ended with an error: only exit code 4 says that the file is unchanged.
FailedWorker(a) ==
    LET commit == a.worker \in Commits
        b == [a EXCEPT !.code = @ /\ ~commit, !.worker = IF a.ended = "kept" THEN None ELSE @]
    IN  StopWorker(b)

Adopted(a, protocol) ==
    [a EXCEPT !.administrator = TRUE, !.recovery = FALSE, !.saveFailed = FALSE, !.code = FALSE,
              !.worker = None, !.ended = "no",
              !.token = IF a.administrator THEN None ELSE protocol]

-----------------------------------------------------------------------------
(* Helpers of web_gateway.c.                                                 *)

\* Fault: what the connection has asked for goes on without it.
ClosedOnly(s) ==
    [s EXCEPT !.gate = [@ EXCEPT !.peer = FALSE, !.reply = FALSE, !.asker = FALSE]]

\* close_peer; `asker` is the model's: the connection is the one that asked.
Closed(s) ==
    [s EXCEPT !.gate = [@ EXCEPT !.peer = FALSE, !.reply = FALSE, !.asker = FALSE, !.auth = FALSE],
              !.account = IF s.gate.auth THEN CancelPending(@) ELSE @]

\* stop_service
Stopped(s) ==
    LET c == Closed(s)
    IN  [c EXCEPT !.gate.stopping = @ \/ c.gate.service # None]

\* rng_stop
BrokerStopped(s) ==
    LET b == s.broker
    IN  [s EXCEPT !.broker = [b EXCEPT !.stopping = @ \/ b.process # None, !.ready = FALSE],
                  !.gate.attaching = FALSE, !.account = Cancel(@)]

All == [gate |-> gate, broker |-> broker, account |-> account]
Becomes(s, at) == gate' = [s.gate EXCEPT !.at = at] /\ broker' = s.broker /\ account' = s.account

-----------------------------------------------------------------------------
(* First part of web_gateway_step: the protocol.                             *)

\* Fault: the sessions of the old protocol stay.
SeenOnly(s) ==
    [s EXCEPT !.gate.seen = config.protocol]

\* A switch is watched when a browser may have asked for it.
Seen(s) ==
    LET g == s.gate
        begins == ~g.switching /\ g.peer /\ ~g.stopping
    IN  IF g.seen = config.protocol THEN s
        ELSE [s EXCEPT !.account = Cancel(@),
                       !.gate = [g EXCEPT !.seen = config.protocol, !.auth = FALSE,
                                          !.switching = @ \/ begins,
                                          !.from = IF begins THEN g.seen ELSE @]]

\* The old protocol is asked for again when the new one failed, or is late.
Restores(s) == s.gate.switching /\ config.next = NoChange

Restored(s) == [s EXCEPT !.gate.switching = FALSE, !.gate.failed = "no", !.gate.from = None]

Leaves(s) ==
    IF s.gate.service # None /\ ~s.gate.stopping /\ s.gate.launched # s.gate.seen /\ ~s.gate.reply
    THEN Stopped(s) ELSE s

StepSwitch ==
    LET s == Seen(All)
    IN  /\ gate.at = "switch"
        /\ \/ Becomes(Leaves(s), "reap") /\ UNCHANGED config
           \/ /\ Restores(s) /\ gate.switching
              /\ Becomes(Leaves(Restored(s)), "reap")
              /\ config' = IF s.gate.from = config.protocol THEN config
                           ELSE [config EXCEPT !.next = [enabled |-> config.enabled,
                                                         protocol |-> s.gate.from]]
        /\ UNCHANGED <<stored, count>>

-----------------------------------------------------------------------------
(* Second part: the broker, and the service that was told to stop.           *)

\* Fault: a broker told to stop may end as it likes.
ReapedGently(s) ==
    IF s.broker.process \notin {"ok", "bad"} THEN s
    ELSE LET t == Stopped(BrokerStopped([s EXCEPT !.broker.process = None]))
         IN  [t EXCEPT !.broker.fault = @ \/ ~s.broker.stopping, !.broker.stopping = FALSE]

Reaped(s) ==
    IF s.broker.process \notin {"ok", "bad"} THEN s
    ELSE LET t == Stopped(BrokerStopped([s EXCEPT !.broker.process = None]))
         IN  [t EXCEPT !.broker.fault = @ \/ ~s.broker.stopping \/ s.broker.process = "bad",
                       !.broker.stopping = FALSE]

\* A new broker writes the card: after a failure there is none.
Launched(s) ==
    {s} \cup (IF ~s.broker.fault /\ s.broker.process = None /\ config.enabled
              THEN {[s EXCEPT !.broker.process = "running"]} ELSE {})

\* The client of the broker gains what it waits for, or loses the broker.
Listening(s) == ~s.broker.fault /\ s.broker.process # None /\ ~s.broker.stopping
Lost(s) ==
    LET t == Stopped(BrokerStopped(s))
    IN  [t EXCEPT !.broker = [@ EXCEPT !.stopping = FALSE, !.fault = TRUE, !.failed = TRUE]]

\* waitpid of a service that was told to stop.
Collected(s) ==
    IF s.gate.stopping /\ s.gate.service = "ended"
    THEN [s EXCEPT !.gate.service = None, !.gate.stopping = FALSE] ELSE s

Goes(s) ==
    IF ~config.enabled THEN Becomes(Stopped(BrokerStopped(s)), "switch")
    ELSE Becomes(s, IF s.broker.ready THEN "serve" ELSE "switch")

StepReap ==
    /\ gate.at = "reap"
    /\ \E s \in Launched(Reaped(All)) :
          \/ Goes(Collected(s)) /\ UNCHANGED count
          \/ /\ Listening(s) /\ s.broker.process = "running"
             /\ Goes(Collected([s EXCEPT !.broker.ready = TRUE])) /\ UNCHANGED count
          \/ /\ Listening(s) /\ Goes(Collected(Lost(s)))
             /\ Fails(s.broker.process = "running")
    /\ UNCHANGED <<config, stored>>

-----------------------------------------------------------------------------
(* Third part: the service, its connection and one request.                  *)

\* A service that has ended: while a switch is watched, that is its failure.
Ended(s) ==
    IF s.gate.service # "ended" THEN s
    ELSE LET c == Closed(s)
             g == c.gate
         IN  [c EXCEPT !.gate = [g EXCEPT !.service = None, !.stopping = FALSE,
                 !.failed = CASE ~g.switching -> @
                              [] g.switching /\ g.launched = g.seen -> "new"
                              [] OTHER -> "old"]]

Beginnings == {Ended([All EXCEPT !.account = a]) : a \in Ticked(account)}
Here(s) == gate.at = "serve" /\ s \in Beginnings

\* No address, another address, or a service that is not ready in a minute.
StepStop ==
    /\ \E s \in Beginnings : Here(s) /\ Becomes(Stopped(s), "switch")
    /\ UNCHANGED <<config, stored, count>>

\* Nothing to do yet, or no clock to trust for a launch.
StepWait ==
    /\ \E s \in Beginnings :
          /\ Here(s)
          /\ \/ Becomes(s, "switch")
             \/ /\ s.gate.service = None /\ s.gate.seen = "https" /\ s.gate.switching
                /\ Becomes([s EXCEPT !.gate.failed = "new"], "switch")
    /\ UNCHANGED <<config, stored, count>>

\* The broker is given the other end of a new channel first, and confirms it.
StepAttach ==
    /\ \E s \in Beginnings :
          /\ Here(s) /\ s.gate.service = None /\ ~s.gate.attaching
          /\ \/ /\ Becomes([s EXCEPT !.gate.attaching = TRUE, !.broker.ready = FALSE], "switch")
                /\ UNCHANGED count
             \/ Becomes(BrokerStopped(s), "switch") /\ MayFail /\ Failed
    /\ UNCHANGED <<config, stored>>

StepLaunch ==
    /\ \E s \in Beginnings :
          /\ Here(s) /\ s.gate.service = None /\ s.gate.attaching
          /\ Becomes([s EXCEPT !.gate.attaching = FALSE, !.gate.service = "running",
                               !.gate.launched = s.gate.seen], "switch")
    /\ UNCHANGED <<config, stored, count>>

\* The first connection also makes the first code.
StepAccept ==
    /\ \E s \in Beginnings :
          /\ Here(s) /\ s.gate.service = "running" /\ ~s.gate.stopping /\ ~s.gate.peer
          /\ \E a \in {s.account} \cup (IF s.account.administrator \/ s.account.saveFailed THEN {}
                                        ELSE {NewCode(s.account, FALSE)}) :
                Becomes([s EXCEPT !.account = a, !.gate.peer = TRUE,
                           !.gate.switching = @ /\ s.gate.launched # s.gate.seen,
                           !.gate.failed = IF s.gate.launched = s.gate.seen THEN "no" ELSE @,
                           !.gate.from = IF s.gate.launched = s.gate.seen THEN None ELSE @],
                        "switch")
    /\ UNCHANGED <<config, stored, count>>

\* web_security_poll: the password is derived, then committed, then adopted.
Polled(a, protocol) ==
    CASE a.worker # None /\ a.ended = "no" -> {}
      [] a.worker = None -> {a}
      [] a.ended = "done" /\ a.worker = "login" ->
             {[a EXCEPT !.worker = None, !.ended = "no", !.token = protocol]}
      [] a.ended = "done" /\ a.worker = "committed" -> {Adopted(a, protocol)}
      [] a.worker # None /\ a.ended \in {"denied", "kept", "failed"} -> {FailedWorker(a)}
      [] OTHER -> {}

StepAnswer ==
    /\ \E s \in Beginnings :
          /\ Here(s) /\ s.gate.peer /\ s.gate.auth
          /\ \/ \E a \in Polled(s.account, s.gate.seen) :
                   /\ Becomes([s EXCEPT !.account = a, !.gate.auth = FALSE, !.gate.reply = TRUE],
                              "switch")
                   /\ stored' = IF s.account.worker = "committed" /\ s.account.ended = "done"
                                THEN "same" ELSE stored
                   /\ UNCHANGED count
             \/ /\ s.account.worker # None /\ MayFail /\ Failed /\ UNCHANGED stored
                /\ Becomes([s EXCEPT !.account = StopWorker(@), !.gate.auth = FALSE,
                                     !.gate.reply = TRUE], "switch")
    /\ UNCHANGED config

\* launch_commit may fail before and after the commit counts as begun.
StepCommit ==
    /\ \E s \in Beginnings :
          LET begun == [s.account EXCEPT !.worker = "commit", !.ended = "no"]
          IN  /\ Here(s) /\ s.gate.peer /\ s.gate.auth
              /\ s.account.worker \in {"enroll", "change"} /\ s.account.ended = "done"
              /\ \/ Becomes([s EXCEPT !.account = begun], "switch") /\ UNCHANGED count
                 \/ /\ \E a \in {s.account, begun} :
                          Becomes([s EXCEPT !.account = StopWorker(a), !.gate.auth = FALSE,
                                            !.gate.reply = TRUE], "switch")
                    /\ MayFail /\ Failed
    /\ UNCHANGED <<config, stored>>

Ready(s) == s.gate.peer /\ ~s.gate.auth /\ ~s.gate.reply

StepReply ==
    /\ \E s \in Beginnings :
          /\ Here(s) /\ s.gate.peer /\ ~s.gate.auth /\ s.gate.reply
          /\ \/ Becomes([s EXCEPT !.gate.reply = FALSE, !.gate.asker = FALSE], "switch")
             \/ Becomes(Closed(s), "switch")
    /\ UNCHANGED <<config, stored, count>>

\* The connection is closed by the service, or after a silence.
StepHangUp ==
    /\ \E s \in Beginnings : Here(s) /\ s.gate.peer /\ Becomes(Closed(s), "switch")
    /\ UNCHANGED <<config, stored, count>>

Begins(a, worker) == [a EXCEPT !.worker = worker]

\* web_security_begin and web_security_change: one worker at a time.
StepAuthenticate ==
    /\ \E s \in Beginnings, worker \in {"login", "enroll", "change"} :
          LET a == s.account
          IN  /\ Here(s) /\ Ready(s) /\ a.worker = None
              /\ worker = "login" => a.administrator /\ ~a.saveFailed
              /\ worker = "enroll" => a.code /\ (a.recovery \/ ~a.administrator)
              /\ worker = "change" => a.token # None /\ a.administrator /\ ~a.saveFailed /\ ~a.code
              /\ Becomes([s EXCEPT !.account = Begins(a, worker),
                                   !.gate.auth = TRUE, !.gate.asker = TRUE], "switch")
    /\ UNCHANGED <<config, stored, count>>

\* Any other request: a fifth wrong code, a logout, a change of the settings.
StepRequest ==
    /\ \E s \in Beginnings :
          LET answered == [s EXCEPT !.gate.reply = TRUE, !.gate.asker = TRUE]
          IN  /\ Here(s) /\ Ready(s)
              /\ \/ \E a \in {s.account, [s.account EXCEPT !.code = FALSE],
                              [s.account EXCEPT !.token = None]} :
                       Becomes([answered EXCEPT !.account = a], "switch")
                    /\ UNCHANGED <<config, count>>
                 \/ /\ s.account.token # None /\ config.next = NoChange /\ ~s.gate.switching
                    /\ count.changes < MaxChanges /\ count' = [count EXCEPT !.changes = @ + 1]
                    /\ \E e \in BOOLEAN, p \in Protocols :
                          config' = [config EXCEPT !.next = [enabled |-> e, protocol |-> p]]
                    /\ Becomes(answered, "switch")
    /\ UNCHANGED stored

-----------------------------------------------------------------------------
(* Around the step: the panel and the application, and the processes.        *)

\* web_gateway_local: F1 at the prompt or the code, New code, Recover access.
Local ==
    /\ gate.at = "switch"
    /\ \/ account' = CancelPending(account)
       \/ \E recovery \in BOOLEAN : account' = NewCode(account, recovery)
    /\ UNCHANGED <<config, gate, broker, stored, count>>

Configure ==
    /\ gate.at = "switch" /\ config.next = NoChange /\ count.changes < MaxChanges
    /\ \E e \in BOOLEAN, p \in Protocols :
          config' = [config EXCEPT !.next = [enabled |-> e, protocol |-> p]]
    /\ count' = [count EXCEPT !.changes = @ + 1]
    /\ UNCHANGED <<gate, broker, account, stored>>

\* The transaction ends, or fails.
Saved ==
    /\ gate.at = "switch" /\ config.next # NoChange
    /\ \/ /\ config' = [enabled |-> config.next.enabled, protocol |-> config.next.protocol,
                        next |-> NoChange]
          /\ UNCHANGED count
       \/ config' = [config EXCEPT !.next = NoChange] /\ MayFail /\ Failed
    /\ UNCHANGED <<gate, broker, account, stored>>

ServiceEnds ==
    /\ gate.service = "running" /\ gate' = [gate EXCEPT !.service = "ended"]
    /\ Fails(~gate.stopping)
    /\ UNCHANGED <<config, broker, account, stored>>

\* Only a broker that was told to ends in order.
BrokerEnds ==
    /\ broker.process = "running"
    /\ \/ (broker.stopping \/ broker.fault) /\ broker' = [broker EXCEPT !.process = "ok"] /\ UNCHANGED count
       \/ broker' = [broker EXCEPT !.process = "bad", !.failed = TRUE] /\ MayFail /\ Failed
    /\ UNCHANGED <<config, gate, account, stored>>

WorkerRenames ==
    /\ account.worker = "commit" /\ account.ended = "no"
    /\ account' = [account EXCEPT !.worker = "committed"] /\ stored' = "other"
    /\ UNCHANGED <<config, gate, broker, count>>

\* kdf_main.c: 2 for a wrong password, 4 when the file is as it was.
WorkerEnds ==
    /\ account.worker # None /\ account.ended = "no"
    /\ \E result \in {"done", "denied", "kept", "failed"} :
          /\ account.worker = "commit" => result \in {"kept", "failed"}
          /\ account.worker = "committed" => result \in {"done", "failed"}
          /\ result = "kept" => account.worker = "commit"
          /\ result = "denied" => account.worker \in {"login", "change"}
          /\ Fails(result \in {"kept", "failed"})
          /\ account' = [account EXCEPT !.ended = result]
    /\ UNCHANGED <<config, gate, broker, stored>>

Init ==
    /\ \E p \in Protocols :
          /\ config = [enabled |-> TRUE, protocol |-> p, next |-> NoChange]
          /\ gate = [at |-> "switch", seen |-> p, switching |-> FALSE, from |-> None,
                     failed |-> "no", launched |-> p, service |-> None, stopping |-> FALSE,
                     attaching |-> FALSE, peer |-> FALSE, reply |-> FALSE, auth |-> FALSE,
                     asker |-> FALSE]
    /\ broker = [process |-> None, stopping |-> FALSE, fault |-> FALSE, ready |-> FALSE,
                 failed |-> FALSE]
    /\ \E known \in BOOLEAN :
          /\ stored = IF known THEN "same" ELSE None
          /\ account = [administrator |-> known, code |-> FALSE, recovery |-> FALSE,
                        token |-> None, worker |-> None, ended |-> "no", saveFailed |-> FALSE]
    /\ count = [changes |-> 0, troubles |-> 0]

Next ==
    \/ StepSwitch \/ StepReap \/ StepStop \/ StepWait \/ StepAttach \/ StepLaunch \/ StepAccept
    \/ StepAnswer \/ StepCommit \/ StepReply \/ StepHangUp \/ StepAuthenticate \/ StepRequest
    \/ Local \/ Configure \/ Saved \/ ServiceEnds \/ BrokerEnds \/ WorkerRenames \/ WorkerEnds

-----------------------------------------------------------------------------
(* Properties.                                                               *)

TypeOK ==
    /\ gate.at \in {"switch", "reap", "serve"} /\ gate.seen \in Protocols
    /\ gate.service \in {None, "running", "ended"}
    /\ broker.process \in {None, "running", "ok", "bad"}
    /\ account.worker \in {None, "login", "enroll", "change"} \cup Commits
    /\ account.token \in Protocols \cup {None} /\ stored \in {None, "same", "other"}

\* Hazard: a commit is killed, times out or ends in doubt while a session is open,
\* and a protocol is changed while a login is under way.  A session was opened under
\* the protocol of now and, but for a commit under way, with the password stored.
SessionIsSound ==
    account.token # None =>
        /\ account.token = gate.seen /\ account.administrator /\ ~account.saveFailed
        /\ account.worker \notin Commits => stored = "same"

\* Hazard: the connection is lost, or the service restarted, while a worker derives
\* a password.  The session that comes of it is told to the connection that asked.
AnswerReachesAsker == (gate.auth \/ gate.reply) => gate.asker

\* Hazard: brokers fail while they are told to stop, switched off and on.  Who has
\* failed is not started again (web_gateway.c:169): each start writes the card.
FailureIsFinal ==
    [][(broker.process = None /\ broker'.process # None) => ~broker.failed]_webVars
=============================================================================
