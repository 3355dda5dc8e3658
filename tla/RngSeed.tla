------------------------------ MODULE RngSeed ------------------------------
(* The seed of the random number service and its files on the compact flash  *)
(* (web/rng_nv.c), the programs that use them (web/rng_main.c), and the host *)
(* tool that prepares a card (host/cf_rng_writer.c).                         *)
(*                                                                           *)
(* A broker reads the seed, commits its successor and only then answers.  In *)
(* production a full copy, the witness, is committed before the state, so    *)
(* that a crash between the two is seen.  A file is as the process sees it   *)
(* (disk) or as power loss leaves it (durable); which of the two is found    *)
(* after a power loss, nobody knows.  A system call may fail at any point.   *)
(*                                                                           *)
(* A seed is a lineage: the number of the fresh entropy it was mixed with    *)
(* and how many times it was advanced since.  What a broker answers is a     *)
(* function of the seed it read, so a seed that is read twice must not be    *)
(* answered from twice.                                                      *)
EXTENDS Integers, Sequences

CONSTANTS Processes,
          GenerationLimit,  \* 2^32 - 1 in the code
          MaxFresh, MaxServed, MaxTroubles

VARIABLES disk,     \* the files as the processes see them
          durable,  \* the files as of the last fsync
          lock,     \* who holds owner.lock
          proc,     \* the programs that run
          served,   \* what every answering broker started from
          fresh,    \* how often fresh entropy was given
          troubles  \* faults, killed processes and power losses so far

rngVars == <<disk, durable, lock, proc, served, fresh, troubles>>

Nobody == "nobody"
Record(schema, generation, used, seed) ==
    [schema |-> schema, generation |-> generation, used |-> used, seed |-> seed]
Absent == Record(0, 0, 0, <<0, 0>>)
Torn == Record(0 - 1, 0, 0, <<0, 0>>)
Advance(seed) == [seed EXCEPT ![2] = @ + 1]

Exited == [at |-> "exited", task |-> "none", production |-> FALSE,
           record |-> Absent, source |-> Absent]

-----------------------------------------------------------------------------
(* What the files say.                                                       *)

Readable(record) == record.schema \in 1 .. 3

\* Staging files, another witness or an older release's attempt: whether the
\* last transaction was committed cannot be told.
Uncertain(d) ==
    \/ d.attempt \/ d.pending # Absent \/ d.witnessNext # Absent
    \/ d.witness # d.state

\* rng_nv_status, by its exit codes in words.
Status(d) ==
    CASE d.state = Absent -> IF d.policy = "absent" THEN "provision" ELSE "service"
      [] d.state = Torn -> "invalid"
      [] Readable(d.state) /\ (d.state.schema >= 2 \/ d.policy # "absent") ->
             IF d.state.schema # 3 \/ (lock = Nobody /\ Uncertain(d))
             THEN "service" ELSE "ready"
      [] OTHER -> "ready"

Production(d) == d.state.schema >= 2 \/ d.policy # "absent"

\* rng_nv_policy
PolicyAllows(d) ==
    IF Production(d)
    THEN d.state.schema = 3 /\ ~d.trial /\ d.policy = "autonomous"
    ELSE d.trial

\* rng_nv_start's own look, under the lock.
Startable(d) ==
    Readable(d.state) /\ d.state.schema = 3 /\ PolicyAllows(d) /\ ~Uncertain(d)

-----------------------------------------------------------------------------
(* One transaction: `persist'.                                               *)

Fault == troubles < MaxTroubles /\ troubles' = troubles + 1
NoFault == UNCHANGED troubles

Exit(p) ==
    /\ proc' = [proc EXCEPT ![p] = Exited]
    /\ lock' = IF lock = p THEN Nobody ELSE lock

\* The system call fails and leaves the files one of these ways; the program
\* does not try again.
FailsLeaving(p, disks) ==
    /\ Fault /\ disk' \in disks
    /\ Exit(p)
    /\ UNCHANGED <<durable, served, fresh>>

GoesTo(p, step) ==
    /\ proc' = [proc EXCEPT ![p].at = step]
    /\ UNCHANGED <<lock, served, fresh, troubles>>

\* A file is created, written and fsynced; fsync takes along what was renamed
\* or removed before.
Write(p, name, step) ==
    LET record == proc[p].record
        with(value) == [disk EXCEPT ![name] = value]
    IN  \/ /\ disk[name] = Absent
           /\ disk' = with(record) /\ durable' = with(record)
           /\ GoesTo(p, step)
        \/ /\ disk[name] = Absent
           /\ FailsLeaving(p, {disk, with(Torn), with(record)})
        \/ /\ disk[name] # Absent                          \* O_EXCL
           /\ Exit(p)
           /\ UNCHANGED <<disk, durable, served, fresh, troubles>>

Rename(p, from, to, step) ==
    LET moved == [disk EXCEPT ![to] = disk[from], ![from] = Absent]
    IN  \/ /\ disk' = moved
           /\ GoesTo(p, step)
           /\ UNCHANGED durable
        \/ FailsLeaving(p, {disk, moved})

WriteWitness(p) == proc[p].at = "witness" /\ Write(p, "witnessNext", "renameWitness")
RenameWitness(p) ==
    proc[p].at = "renameWitness" /\ Rename(p, "witnessNext", "witness", "syncWitness")
SyncWitness(p) ==
    /\ proc[p].at = "syncWitness"
    /\ \/ durable' = disk /\ GoesTo(p, "pending") /\ UNCHANGED disk
       \/ FailsLeaving(p, {disk})

WritePending(p) == proc[p].at = "pending" /\ Write(p, "pending", "renameState")
RenameState(p) ==
    proc[p].at = "renameState" /\ Rename(p, "pending", "state", "syncState")

\* Fault: the state is answered from before it is known to be durable.
CommitUnsynced(p) ==
    /\ proc[p].at = "syncState" /\ UNCHANGED <<disk, durable, fresh, lock, troubles>>
    /\ proc' = [proc EXCEPT ![p].at = "ready"]
    /\ served' = Append(served, proc[p].source)

\* The directory is fsynced: a broker may answer, another program is done.
Commit(p) ==
    /\ proc[p].at = "syncState"
    /\ \/ /\ durable' = disk
          /\ IF proc[p].task = "serve"
             THEN /\ proc' = [proc EXCEPT ![p].at = "ready"]
                  /\ served' = Append(served, proc[p].source)
                  /\ UNCHANGED lock
             ELSE Exit(p) /\ UNCHANGED served
          /\ UNCHANGED <<disk, fresh, troubles>>
       \/ FailsLeaving(p, {disk})

-----------------------------------------------------------------------------
(* The broker.                                                               *)

\* The card's user obeys docs/rng-autonomous-v1.md: no consumer runs during a
\* service.
Servicing == \E p \in Processes : proc[p].task = "service"

\* serve: the files are looked at without the lock.
BeginServe(p) ==
    /\ proc[p].at = "exited" /\ ~Servicing /\ Len(served) < MaxServed
    /\ disk.made /\ Status(disk) = "ready" /\ PolicyAllows(disk)
    /\ proc' = [proc EXCEPT ![p] = [Exited EXCEPT !.at = "lock", !.task = "serve",
                                       !.production = Production(disk)]]
    /\ UNCHANGED <<disk, durable, lock, served, fresh, troubles>>

\* The record that follows the one read.
Successor(old, production) ==
    IF production THEN Record(3, old.generation + 1, old.used + 1, Advance(old.seed))
    ELSE Record(1, old.generation + 1, 0, Advance(old.seed))

\* There is none beyond the limit of the counters.
Exhausted(generation, used) == generation >= GenerationLimit \/ used >= GenerationLimit

\* Fault: the uncertain record is advanced from.
StartBlindly(p) ==
    /\ lock' = p
    /\ proc' = [proc EXCEPT ![p].at = "pending", ![p].source = disk.state,
                            ![p].record = Successor(disk.state, proc[p].production)]
    /\ disk' = [disk EXCEPT !.pending = Absent] /\ durable' = disk'
    /\ UNCHANGED <<served, fresh, troubles>>

\* rng_nv_start with the lock held.  A trial discards an uncommitted staging
\* file; in production nothing uncertain is touched.
Start(p) ==
    LET production == proc[p].production
        cleaned == IF production THEN disk ELSE [disk EXCEPT !.pending = Absent]
        old == disk.state
        used == IF old.schema >= 2 THEN old.used ELSE 0
    IN  \/ /\ IF production THEN Startable(disk) ELSE Readable(old)
           /\ ~Exhausted(old.generation, used)
           /\ lock' = p
           /\ disk' = cleaned
           /\ durable' = IF cleaned = disk THEN durable ELSE cleaned
           /\ proc' = [proc EXCEPT
                ![p].at = IF production THEN "witness" ELSE "pending",
                ![p].source = old, ![p].record = Successor(old, production)]
           /\ UNCHANGED <<served, fresh, troubles>>
        \/ /\ ~(IF production THEN Startable(disk) ELSE Readable(old))
              \/ Exhausted(old.generation, used)
           /\ Exit(p)
           /\ UNCHANGED <<disk, durable, served, fresh, troubles>>

\* In production a lock that is held ends the program, a trial waits for it.
Lock(p) ==
    /\ proc[p].at = "lock"
    /\ \/ /\ lock = Nobody
          /\ Start(p)
       \/ /\ lock # Nobody /\ proc[p].production
          /\ Exit(p)
          /\ UNCHANGED <<disk, durable, served, fresh, troubles>>

\* rng_nv_rotate: the broker advances once more before it goes on.
Rotate(p) ==
    /\ proc[p].at = "ready" /\ Len(served) < MaxServed
    /\ Start(p)

Stop(p) ==
    /\ proc[p].at = "ready"
    /\ Exit(p)
    /\ UNCHANGED <<disk, durable, served, fresh, troubles>>

-----------------------------------------------------------------------------
(* Provisioning and service.                                                 *)

\* provision, from the first look at the files to the lock.
Provision(p) ==
    /\ proc[p].at = "exited" /\ ~Servicing /\ fresh < MaxFresh
    /\ disk.made /\ Status(disk) = "provision"
    /\ fresh' = fresh + 1
    /\ proc' = [proc EXCEPT ![p] = [Exited EXCEPT !.at = "provision",
                   !.task = "provision", !.record = Record(1, 1, 0, <<fresh', 0>>)]]
    /\ UNCHANGED <<disk, durable, lock, served, troubles>>

\* rng_nv_provision with the lock: nothing is written over a state.
LockProvision(p) ==
    /\ proc[p].at = "provision" /\ lock = Nobody
    /\ disk' = [disk EXCEPT !.pending = Absent]
    /\ durable' = IF disk' = disk THEN durable ELSE disk'
    /\ \/ disk.state = Absent /\ lock' = p
          /\ proc' = [proc EXCEPT ![p].at = "pending"]
       \/ disk.state # Absent /\ Exit(p)
    /\ UNCHANGED <<served, fresh, troubles>>

\* service_highwater: a reservation that may have been committed is burnt.
HighestOf(d, field) ==
    LET records == {d.state} \cup {r \in {d.witness, d.witnessNext, d.pending} :
                                      r.schema = 3}
    IN  CHOOSE n \in {r[field] : r \in records} : \A r \in records : r[field] <= n

\* rng_nv_service: production-enable takes only clean files, service-recover
\* any.
Service(p, recover) ==
    LET clean == /\ Readable(disk.state) \/ disk.state = Absent
                 /\ disk.state.schema # 3 /\ ~disk.attempt /\ disk.pending = Absent
                 /\ disk.witnessNext = Absent /\ disk.witness = Absent
        known(field) == IF recover THEN HighestOf(disk, field) ELSE disk.state[field]
    IN  /\ \A q \in Processes : proc[q].at = "exited"
        /\ fresh < MaxFresh /\ disk.made /\ (recover \/ clean)
        /\ ~Exhausted(known("generation"), known("used"))
        /\ fresh' = fresh + 1 /\ lock' = p
        /\ proc' = [proc EXCEPT ![p] = [at |-> IF recover THEN "revokeClean" ELSE "revoke",
                task |-> "service", production |-> TRUE, source |-> Absent,
                record |-> Record(3, known("generation") + 1, known("used") + 1,
                                  <<fresh', 0>>)]]
        /\ UNCHANGED <<disk, durable, served, troubles>>

\* The old policy is revoked before a record changes, each step fsynced.
Revoke(p) ==
    LET step == proc[p].at
        one == [disk EXCEPT !.trial = FALSE]
        two == [one EXCEPT !.policy = "absent"]
        done == [two EXCEPT !.policy = "autonomous"]
    IN  /\ step \in {"revoke", "revokeClean"}
        /\ \/ /\ disk' = done /\ durable' = done
              /\ GoesTo(p, IF step = "revoke" THEN "witness" ELSE "clean")
           \/ FailsLeaving(p, {disk, one, two, [two EXCEPT !.policy = "torn"], done})

\* Only a service with fresh entropy removes what is uncertain.
Clean(p) ==
    LET one == [disk EXCEPT !.attempt = FALSE]
        two == [one EXCEPT !.pending = Absent]
        done == [two EXCEPT !.witnessNext = Absent]
    IN  /\ proc[p].at = "clean"
        /\ \/ disk' = done /\ durable' = done /\ GoesTo(p, "witness")
           \/ FailsLeaving(p, {disk, one, two, done})

\* cf_rng_writer prepare, on a card without the directory; never again.
PrepareCard ==
    LET made == [disk EXCEPT !.made = TRUE]
        record == Record(1, 1, 0, <<fresh + 1, 0>>)
        prepared == [made EXCEPT !.state = record]
    IN  /\ ~disk.made /\ fresh < MaxFresh /\ fresh' = fresh + 1
        /\ \/ disk' = prepared /\ NoFault
           \/ /\ disk' \in {made, [made EXCEPT !.pending = Torn],
                            [made EXCEPT !.pending = record], prepared}
              /\ Fault
        /\ durable' = disk'
        /\ UNCHANGED <<lock, proc, served>>

-----------------------------------------------------------------------------
(* Crashes.                                                                  *)

Dies(p) ==
    /\ proc[p].at # "exited" /\ Fault
    /\ Exit(p)
    /\ UNCHANGED <<disk, durable, served, fresh>>

PowerLoss ==
    /\ Fault
    /\ disk' \in {disk, durable} /\ durable' = disk'
    /\ proc' = [p \in Processes |-> Exited] /\ lock' = Nobody
    /\ UNCHANGED <<served, fresh>>

\* A new card, a trial, and a card of the release before with its policy and
\* perhaps the attempt it left.
NoFiles == [made |-> FALSE, state |-> Absent, witness |-> Absent,
            witnessNext |-> Absent, pending |-> Absent, policy |-> "absent",
            trial |-> FALSE, attempt |-> FALSE]
Trial == [NoFiles EXCEPT !.made = TRUE, !.trial = TRUE,
                         !.state = Record(1, 1, 0, <<0, 0>>)]
Older(attempt) == [NoFiles EXCEPT !.made = TRUE, !.policy = "v1", !.attempt = attempt,
                                  !.state = Record(2, 1, 1, <<0, 0>>)]

Init ==
    /\ disk \in {NoFiles, Trial, Older(FALSE), Older(TRUE)} /\ durable = disk
    /\ lock = Nobody /\ proc = [p \in Processes |-> Exited]
    /\ served = <<>> /\ fresh = 0 /\ troubles = 0

Step(p) ==
    \/ WriteWitness(p) \/ RenameWitness(p) \/ SyncWitness(p) \/ WritePending(p)
    \/ RenameState(p) \/ Commit(p) \/ BeginServe(p) \/ Lock(p) \/ Rotate(p)
    \/ Stop(p) \/ Provision(p) \/ LockProvision(p) \/ Revoke(p) \/ Clean(p)
    \/ \E recover \in BOOLEAN : Service(p, recover)

Next ==
    \/ \E p \in Processes : Step(p) \/ Dies(p)
    \/ PrepareCard \/ PowerLoss

-----------------------------------------------------------------------------
(* Properties.                                                               *)

TypeOK ==
    /\ lock \in Processes \cup {Nobody}
    /\ \A p \in Processes : proc[p].at \in {"ready", "witness", "pending",
            "renameWitness", "syncWitness", "renameState", "syncState"} => lock = p
    /\ \A name \in {"state", "witness", "witnessNext", "pending"} :
          disk[name].schema \in -1 .. 3
    /\ disk.state.generation <= GenerationLimit

\* Hazard: a power loss takes back a rename, a record is read again after a
\* crash, two brokers start, a service falls below what was reserved.  No seed
\* is ever answered from twice, and the generations answered from only rise.
SeedServedOnce ==
    \A i, j \in 1 .. Len(served) : i < j =>
        /\ served[i].seed # served[j].seed
        /\ served[i].generation < served[j].generation

\* Hazard: an orderly device that merely loses its power needs a person with
\* fresh entropy.  While a production broker answers, what power loss may
\* leave can be started from.
PowerLossNeedsNoService ==
    \A p \in Processes :
        (proc[p].at = "ready" /\ proc[p].production) => Startable(disk) /\ Startable(durable)

\* Hazard: a restart loop cleans up, or writes over, what shows that the last
\* transaction is in doubt.  Outside a transaction, uncertain production files
\* are changed by a service alone.
UncertainIsKept ==
    [][(/\ disk.state.schema = 3 /\ Uncertain(disk) /\ disk' # disk
        /\ lock = Nobody) => troubles' # troubles]_rngVars

=============================================================================
