------------------------- MODULE NetworkChangeProofs -------------------------
(***************************************************************************)
(* Theorems about NetworkChange, for every set of policies and every set   *)
(* of faults.  They rest on StoreAssumption only.                          *)
(***************************************************************************)
EXTENDS NetworkChange, TLAPS

-----------------------------------------------------------------------------
(* The inductive invariant, part by part. *)

\* What the worker may be doing at the store, and what the commit may.
Calls == [todo : Seq(Changes), dirty : BOOLEAN,
          then : {"none", "stage", "save", "restore", "discard", "baseline"},
          result : {"none", "running", "ok", "failed"}]

Commits == [todo : Seq(Changes), dirty : BOOLEAN, then : {"none", "ok", "uncertain"},
            result : {"none", "running", "ok", "error", "uncertain", "killed"}]

\* No power cut takes anything back.
Settled == maybe = [n \in Names |-> {dir[n]}]

\* Only the candidate and the guard may be missing; whatever a boot may select
\* was kept by the user.
DiskInv ==
    /\ dir \in [Names -> Records] /\ maybe \in [Names -> SUBSET Records]
    /\ \A n \in Names : dir[n] \in maybe[n]
    /\ maybe["confirmed"] \subseteq Profiles /\ maybe["good"] \subseteq Profiles
    /\ maybe["guard"] \ {Absent} \subseteq authorised
    /\ Absent \in maybe["guard"] => maybe["confirmed"] \subseteq authorised

DataInv ==
    /\ state \in States /\ candidate \in Profiles /\ believed \in Profiles
    /\ authorised \subseteq Profiles
    /\ alive \in BOOLEAN /\ keepAsked \in BOOLEAN /\ revertAsked \in BOOLEAN
    /\ bindingsReady \in BOOLEAN /\ cancelled \in BOOLEAN /\ cancels \in BOOLEAN
    /\ net \in Records /\ writing \in Records
    /\ call \in Calls /\ child \in Commits

\* Which operation may run in which state of the manager; worker and commit are
\* never both at the store.
PhaseInv ==
    /\ call # Idle =>
         \/ state = "STAGING" /\ call.then \in {"stage", "save"}
         \/ state = "COMMITTING" /\ call.then = "baseline"
         \/ state = "ROLLING_BACK" /\ call.then \in {"restore", "discard"}
    /\ child # Idle => state \in {"COMMITTING", "ROLLING_BACK"} /\ call = Idle
    /\ state = "STAGING" => call # Idle
    /\ child.result = "running" => state = "COMMITTING"
    /\ cancelled <=> state = "ROLLING_BACK" /\ child # Idle

\* An abort first publishes what its guard holds, then removes the guard: a boot
\* selects the same before, between and after.
Aborting ==
    \/ /\ call.result = "running" /\ dir["guard"] # Absent
       /\ call.todo = << Change("confirmed", dir["guard"]), Change("guard", Absent) >>
       /\ call.dirty => dir["confirmed"] = dir["guard"]
    \/ /\ call.result = "running"
       /\ call.todo = << Change("guard", Absent) >>
       /\ maybe["confirmed"] = {dir["confirmed"]}
       /\ IF call.dirty THEN dir["guard"] = Absent
          ELSE Settled /\ dir["guard"] = dir["confirmed"]
    \/ call.result = "ok" /\ dir["guard"] = Absent
    \/ call.result = "failed"

\* The candidate is saved while the old policy is all a boot can find.
Saving ==
    /\ dir["guard"] = Absent
    /\ \/ /\ call.result = "running" /\ call.todo = << Change("candidate", candidate) >>
          /\ call.dirty => dir["candidate"] = candidate
       \/ call.result = "ok" /\ Settled /\ dir["candidate"] = candidate
       \/ call.result = "failed"

Discarding ==
    /\ net = Boot(dir) /\ writing = Absent
    /\ \/ call.result = "running" /\ call.todo = << Change("candidate", Absent) >>
       \/ call.result = "ok" /\ Settled
       \/ call.result = "failed"

CallInv ==
    /\ call.then \in {"stage", "restore", "baseline"} => Aborting
    /\ call.then = "save" => Saving
    /\ call.then = "discard" => Discarding

\* The commit: the old policy is guarded, remembered as good, replaced, and the guard
\* removed; each change is made on a disk on which all earlier ones are settled.
Committing ==
    /\ candidate \in authorised /\ believed \in authorised
    /\ ~child.dirty => Settled
    /\ \/ /\ child.todo = Confirm(believed, candidate)
          /\ dir["confirmed"] = believed /\ dir["candidate"] = candidate
          /\ dir["guard"] = IF child.dirty THEN believed ELSE Absent
       \/ /\ child.todo = Tail(Confirm(believed, candidate))
          /\ dir["guard"] = believed
          /\ child.dirty => dir["good"] = believed
       \/ /\ child.todo = Tail(Tail(Confirm(believed, candidate)))
          /\ dir["guard"] = believed /\ dir["good"] = believed
          /\ child.dirty => dir["confirmed"] = candidate
       \/ /\ child.todo = << Change("candidate", Absent), Change("guard", Absent) >>
          /\ dir["guard"] = believed /\ dir["good"] = believed /\ dir["confirmed"] = candidate
       \/ /\ child.todo = << Change("guard", Absent) >>
          /\ dir["good"] = believed /\ dir["confirmed"] = candidate
          /\ dir["guard"] = IF child.dirty THEN Absent ELSE believed

\* The commit brings its guard back.
Reguarding ==
    /\ child.todo = << Change("guard", dir["good"]) >>
    /\ dir["good"] \in authorised

ChildInv ==
    /\ child.result = "running" =>
         \/ child.then = "ok" /\ Committing
         \/ child.then = "uncertain" /\ Reguarding
    /\ child.result = "ok" => Settled /\ dir["guard"] = Absent /\ dir["confirmed"] = candidate
    /\ child.result = "error" => Boot(dir) = believed

\* What each state of the manager may count on.
ManagerInv ==
    /\ state \in {"IDLE", "FAILED", "STAGING"} => Boot(dir) = believed
    /\ \/ state \in {"APPLYING", "WAIT_BINDINGS", "WAIT_CONFIRM"}
       \/ state = "COMMITTING" /\ call = Idle /\ child = Idle
       => /\ Settled /\ dir["guard"] = Absent
          /\ dir["confirmed"] = believed /\ dir["candidate"] = candidate
    /\ \/ state \in {"WAIT_BINDINGS", "WAIT_CONFIRM", "COMMITTING", "KEPT"}
       \/ child # Idle
       => net = candidate /\ writing = Absent
    /\ state = "COMMITTING" => candidate \in authorised
    /\ state = "KEPT" => Settled /\ Boot(dir) = candidate /\ believed = candidate
    /\ state \in {"ROLLBACK_BINDINGS", "REVERTED"} =>
         Settled /\ net = Boot(dir) /\ writing = Absent
    /\ ~cancels /\ state \in {"ROLLING_BACK", "ROLLBACK_BINDINGS", "REVERTED"} =>
         Boot(dir) = believed /\ child = Idle

NetInv == DiskInv /\ DataInv /\ PhaseInv /\ CallInv /\ ChildInv /\ ManagerInv

-----------------------------------------------------------------------------
(* Lemmas about scripts and about what a boot selects. *)

\* The scripts of the store, change by change.
LEMMA Scripts ==
    /\ \A a : Len(<< a >>) = 1 /\ Head(<< a >>) = a /\ Tail(<< a >>) = << >> /\ << a >> # << >>
    /\ \A a, b : Len(<< a, b >>) = 2 /\ Head(<< a, b >>) = a /\ Tail(<< a, b >>) = << b >>
                 /\ << a, b >> # << >>
    /\ \A o, n :
         LET c == Confirm(o, n) IN
           /\ Len(c) = 5 /\ Head(c) = Change("guard", o)
           /\ Len(Tail(c)) = 4 /\ Head(Tail(c)) = Change("good", o)
           /\ Len(Tail(Tail(c))) = 3 /\ Head(Tail(Tail(c))) = Change("confirmed", n)
           /\ Tail(Tail(Tail(c))) = << Change("candidate", Absent), Change("guard", Absent) >>
<1>1. \A o, n : Tail(Tail(Tail(Confirm(o, n)))) = << Change("candidate", Absent), Change("guard", Absent) >>
  BY DEF Confirm
<1>2. \A o, n : LET c == Confirm(o, n) IN
           /\ Len(c) = 5 /\ Head(c) = Change("guard", o)
           /\ Len(Tail(c)) = 4 /\ Head(Tail(c)) = Change("good", o)
           /\ Len(Tail(Tail(c))) = 3 /\ Head(Tail(Tail(c))) = Change("confirmed", n)
  BY DEF Confirm
<1>3. \A a : Len(<< a >>) = 1 /\ Head(<< a >>) = a /\ Tail(<< a >>) = << >> /\ << a >> # << >>
  OBVIOUS
<1>4. \A a, b : Len(<< a, b >>) = 2 /\ Head(<< a, b >>) = a /\ Tail(<< a, b >>) = << b >>
                 /\ << a, b >> # << >>
  OBVIOUS
<1> QED
  BY <1>1, <1>2, <1>3, <1>4

\* A script consists of changes, and so does what is left of it.
LEMMA ScriptTypes ==
    /\ \A n \in Names, v \in Records : Change(n, v) \in Changes
    /\ \A o, n \in Records : Confirm(o, n) \in Seq(Changes)
    /\ \A g \in Records : AbortCommit(g) \in Seq(Changes)
    /\ \A p \in Records : SaveCandidate(p) \in Seq(Changes)
    /\ Discard \in Seq(Changes)
    /\ \A c \in Changes : << c >> \in Seq(Changes)
<1>1. \A n \in Names, v \in Records : Change(n, v) \in Changes
  BY DEF Change, Changes
<1>2. Absent \in Records /\ Names = {"confirmed", "good", "candidate", "guard"}
  BY DEF Records, Names
<1> QED
  BY <1>1, <1>2 DEF Confirm, AbortCommit, SaveCandidate, Discard

\* No operation is one, too.
LEMMA IdleType == Idle \in Calls /\ Idle \in Commits
  BY DEF Calls, Commits, Idle

\* What a boot selects: the guard, or else the confirmed policy.
LEMMA BootIs ==
    ASSUME NEW d \in [Names -> Records], d["confirmed"] # Absent
    PROVE  /\ Boot(d) = IF d["guard"] # Absent THEN d["guard"] ELSE d["confirmed"]
           /\ Boot(d) \in Profiles
  BY DEF Boot, Names, Records

\* What a boot after a power cut may select.
LEMMA SavedIs ==
    ASSUME DiskInv
    PROVE  Saved = (maybe["guard"] \ {Absent})
                   \cup IF Absent \in maybe["guard"] THEN maybe["confirmed"] ELSE {}
<1> USE DEF DiskInv
<1>1. Absent \notin maybe["confirmed"] /\ Absent \notin Profiles
  BY StoreAssumption
<1>2. ASSUME NEW d \in Images
      PROVE  /\ d \in [Names -> Records]
             /\ d["guard"] \in maybe["guard"] /\ d["confirmed"] \in maybe["confirmed"]
             /\ Boot(d) = IF d["guard"] # Absent THEN d["guard"] ELSE d["confirmed"]
  BY <1>1, <1>2, BootIs DEF Images, Names
<1>3. ASSUME NEW g \in maybe["guard"], NEW c \in maybe["confirmed"]
      PROVE  \E d \in Images : d["guard"] = g /\ d["confirmed"] = c
  <2> DEFINE d == [n \in Names |-> IF n = "guard" THEN g ELSE IF n = "confirmed" THEN c ELSE dir[n]]
  <2>1. d \in [Names -> Records] /\ \A n \in Names : d[n] \in maybe[n]
    BY DEF Names
  <2>2. d["guard"] = g /\ d["confirmed"] = c
    BY DEF Names
  <2> QED
    BY <2>1, <2>2 DEF Images
<1>4. maybe["guard"] # {} /\ maybe["confirmed"] # {}
  BY DEF Names
<1>5. ASSUME NEW p \in Saved
      PROVE  p \in maybe["guard"] \ {Absent} \/ (Absent \in maybe["guard"] /\ p \in maybe["confirmed"])
  BY <1>2 DEF Saved
<1>6. ASSUME NEW p \in maybe["guard"] \ {Absent} PROVE p \in Saved
  <2>1. PICK c \in maybe["confirmed"] : TRUE
    BY <1>4
  <2>2. PICK d \in Images : d["guard"] = p /\ d["confirmed"] = c
    BY <1>3
  <2> QED
    BY <1>2, <2>2 DEF Saved
<1>7. ASSUME Absent \in maybe["guard"], NEW p \in maybe["confirmed"] PROVE p \in Saved
  <2>1. PICK d \in Images : d["guard"] = Absent /\ d["confirmed"] = p
    BY <1>3, <1>7
  <2> QED
    BY <1>2, <2>1 DEF Saved
<1> QED
  BY <1>5, <1>6, <1>7

\* The same of the state after a step.
LEMMA SavedIsNext ==
    DiskInv' => Saved' = (maybe'["guard"] \ {Absent})
                         \cup IF Absent \in maybe'["guard"] THEN maybe'["confirmed"] ELSE {}
<1>1. DiskInv => Saved = (maybe["guard"] \ {Absent})
                         \cup IF Absent \in maybe["guard"] THEN maybe["confirmed"] ELSE {}
  BY SavedIs
<1>2. (DiskInv => Saved = (maybe["guard"] \ {Absent})
                          \cup IF Absent \in maybe["guard"] THEN maybe["confirmed"] ELSE {})'
  BY <1>1, PTL
<1> QED
  BY <1>2

\* The disk's invariant says nothing else than that a boot is authorised.
LEMMA DiskAuthorised == DiskInv => BootsAuthorised
  BY SavedIs DEF DiskInv, BootsAuthorised, Names

\* On a settled disk a boot finds one policy.
LEMMA SettledSaved == ASSUME DiskInv, Settled PROVE Saved = {Boot(dir)}
<1>1. maybe["guard"] = {dir["guard"]} /\ maybe["confirmed"] = {dir["confirmed"]}
  BY DEF Settled, Names
<1>2. dir["confirmed"] # Absent
  BY <1>1, StoreAssumption DEF DiskInv
<1> QED
  BY <1>1, <1>2, SavedIs, BootIs DEF DiskInv

-----------------------------------------------------------------------------
(* What the parts of the invariant need of a step. *)

\* The disk and a growing set of kept policies.
LEMMA DiskKept ==
    ASSUME NetInv, UNCHANGED disk, authorised \subseteq authorised'
    PROVE  DiskInv'
  BY DEF NetInv, DiskInv, disk

\* A store operation of the worker, when nothing it depends on changes.
LEMMA CallKept ==
    ASSUME NetInv, UNCHANGED <<disk, call, candidate, net, writing>>
    PROVE  CallInv'
  BY DEF NetInv, CallInv, Aborting, Saving, Discarding, Settled, disk

\* An ended operation asks nothing of the store.
LEMMA CallEnded == call' = Idle => CallInv'
  BY DEF CallInv, Idle

\* The commit, when nothing it depends on changes.
LEMMA ChildKept ==
    ASSUME NetInv, UNCHANGED <<disk, child, candidate, believed>>, authorised \subseteq authorised'
    PROVE  ChildInv'
  BY DEF NetInv, ChildInv, Committing, Reguarding, Settled, disk

\* A commit that was reaped asks nothing of the store.
LEMMA ChildEnded == child' = Idle => ChildInv'
  BY DEF ChildInv, Idle

\* A kill leaves the commit where it is.
LEMMA ChildKilled ==
    ASSUME NetInv, Killed, UNCHANGED <<disk, candidate, believed>>
    PROVE  /\ ChildInv' /\ child' \in Commits /\ child'.result # "running"
           /\ (child' # Idle <=> child # Idle)
<1>1. child \in Commits /\ ChildInv
  BY DEF NetInv, DataInv
<1>2. CASE child.result = "running"
  <2>1. child' = [child EXCEPT !.result = "killed"]
    BY <1>2 DEF Killed
  <2>2. child'.result = "killed" /\ child' \in Commits
    BY <1>1, <2>1 DEF Calls, Commits
  <2> QED
    BY <1>2, <2>2 DEF ChildInv, Idle
<1>3. CASE child.result # "running"
  <2>1. child' = child
    BY <1>1, <1>3 DEF Killed, Calls, Commits
  <2> QED
    BY <1>1, <1>3, <2>1 DEF ChildInv, disk, Settled
<1> QED
  BY <1>2, <1>3

\* An abort begins: the guard, if there is one, is published and then removed.
LEMMA AbortBegins ==
    ASSUME NetInv, NEW then \in {"stage", "restore", "baseline"}, Abort(then), UNCHANGED disk
    PROVE  CallInv' /\ call' \in Calls /\ call' # Idle /\ call'.then = then
<1>1. dir["guard"] \in Records
  BY DEF NetInv, DiskInv, Names
<1>2. CASE dir["guard"] = Absent
  <2>1. call' = [todo |-> << >>, dirty |-> FALSE, then |-> then, result |-> "ok"]
    BY <1>2 DEF Abort, AbortCommit, Calling
  <2> QED
    BY <1>2, <2>1, ScriptTypes DEF CallInv, Aborting, Calls, Commits, Idle, disk
<1>3. CASE dir["guard"] # Absent
  <2>1. call' = [todo |-> << Change("confirmed", dir["guard"]), Change("guard", Absent) >>,
                 dirty |-> FALSE, then |-> then, result |-> "running"]
    BY <1>3, Scripts DEF Abort, AbortCommit, Calling
  <2>2. call'.todo \in Seq(Changes)
    BY <1>1, <1>3, <2>1, ScriptTypes DEF AbortCommit
  <2> QED
    BY <1>3, <2>1, <2>2 DEF CallInv, Aborting, Calls, Commits, Idle, disk
<1> QED
  BY <1>2, <1>3

-----------------------------------------------------------------------------
(* Steps that leave the disk alone. *)

\* A rollback, from any state in which one begins.
LEMMA RollbackStep ==
    ASSUME NetInv, Rollback, UNCHANGED <<disk, knownVars>>, net' \in Records, writing' \in Records,
           \/ call = Idle \/ child = Idle,
           child # Idle => state = "COMMITTING" /\ cancels /\ UNCHANGED netVars,
           child = Idle /\ ~cancels => Boot(dir) = believed
    PROVE  NetInv'
<1> USE DEF NetInv, disk, knownVars, netVars, flagVars
<1>1. CASE child # Idle
  <2>1. /\ ChildInv' /\ child' \in Commits /\ child'.result # "running"
        /\ child' # Idle /\ cancelled' = TRUE /\ call' = call /\ call = Idle
    BY <1>1, ChildKilled DEF Rollback
  <2>2. state' = "ROLLING_BACK" /\ UNCHANGED <<alive, cancels>>
        /\ keepAsked' = FALSE /\ revertAsked' = FALSE /\ bindingsReady' = FALSE
    BY DEF Rollback, Goto
  <2>3. DiskInv'
    BY DiskKept
  <2>4. CallInv'
    BY <2>1, CallEnded
  <2>5. DataInv'
    BY <2>1, <2>2 DEF DataInv, States, Busy
  <2>6. PhaseInv'
    BY <1>1, <2>1, <2>2 DEF PhaseInv, Idle
  <2>7. ManagerInv'
    BY <1>1, <2>1, <2>2 DEF ManagerInv
  <2> QED
    BY <2>1, <2>3, <2>4, <2>5, <2>6, <2>7
<1>2. CASE child = Idle
  <2>1. /\ CallInv' /\ call' \in Calls /\ call' # Idle /\ call'.then = "restore"
        /\ child' = Idle /\ cancelled' = cancelled
    BY <1>2, AbortBegins DEF Rollback, Restore
  <2>2. state' = "ROLLING_BACK" /\ UNCHANGED <<alive, cancels>>
        /\ keepAsked' = FALSE /\ revertAsked' = FALSE /\ bindingsReady' = FALSE
    BY DEF Rollback, Goto
  <2>3. DiskInv'
    BY DiskKept
  <2>4. ChildInv'
    BY <2>1, ChildEnded
  <2>5. DataInv'
    BY <1>2, <2>1, <2>2 DEF DataInv, States, Busy
  <2>6. PhaseInv'
    BY <1>2, <2>1, <2>2 DEF PhaseInv, Idle
  <2>7. ManagerInv'
    BY <1>2, <2>1, <2>2 DEF ManagerInv
  <2> QED
    BY <2>1, <2>3, <2>4, <2>5, <2>6, <2>7
<1> QED
  BY <1>1, <1>2

\* Only asking and departing: the disk and the operations at it stay as they are.
LEMMA AskStep ==
    ASSUME NetInv, AskKeep \/ AskRevert \/ BindingsReady \/ Departs
    PROVE  NetInv'
<1>1. /\ UNCHANGED <<disk, state, knownVars, cancels, call, child, cancelled, netVars>>
      /\ alive' \in BOOLEAN /\ keepAsked' \in BOOLEAN /\ revertAsked' \in BOOLEAN
      /\ bindingsReady' \in BOOLEAN
  BY DEF NetInv, DataInv, AskKeep, AskRevert, BindingsReady, Departs
<1> USE DEF NetInv, disk, knownVars, netVars
<1>2. DiskInv' /\ CallInv' /\ ChildInv'
  BY <1>1, DiskKept, CallKept, ChildKept
<1>3. DataInv' /\ PhaseInv'
  BY <1>1 DEF DataInv, PhaseInv
<1>4. ManagerInv'
  BY <1>1 DEF ManagerInv, Settled
<1> QED
  BY <1>2, <1>3, <1>4

\* The write of a policy to the interfaces ends: the store is not touched.
LEMMA NetworkWrittenStep == ASSUME NetInv, NetworkWritten PROVE NetInv'
<1> USE DEF NetInv, NetworkWritten, disk, knownVars, netVars, flagVars
<1>1. writing # Absent /\ writing' = Absent /\ net' \in Records /\ Absent \in Records
  BY DEF DataInv, Records
<1>2. DiskInv' /\ ChildInv'
  BY DiskKept, ChildKept
<1>3. CallInv'
  BY <1>1 DEF CallInv, Aborting, Saving, Discarding, Settled
<1>4. DataInv' /\ PhaseInv'
  BY <1>1 DEF DataInv, PhaseInv
<1>5. ManagerInv'
  BY <1>1 DEF ManagerInv, Settled
<1> QED
  BY <1>2, <1>3, <1>4, <1>5

\* A change starts while the store selects what the application believes.
LEMMA ApplyStep == ASSUME NetInv, NEW p \in Profiles, Apply(p) PROVE NetInv'
<1> USE DEF NetInv, Apply, Startable, Goto, disk, netVars
<1>1. CallInv' /\ call' \in Calls /\ call' # Idle /\ call'.then = "stage"
  BY AbortBegins
<1>2. child = Idle /\ child' = Idle
  BY DEF PhaseInv
<1>3. DiskInv' /\ ChildInv'
  BY <1>2, DiskKept, ChildEnded
<1>4. DataInv'
  BY <1>1 DEF DataInv, States, Busy
<1>5. PhaseInv'
  BY <1>1, <1>2 DEF PhaseInv, Idle
<1>6. ManagerInv'
  BY <1>2 DEF ManagerInv
<1> QED
  BY <1>1, <1>3, <1>4, <1>5, <1>6

\* A change is refused: the store selects another policy than the one believed.
LEMMA ApplyRefusedStep == ASSUME NetInv, NEW p \in Profiles, ApplyRefused(p) PROVE NetInv'
<1> USE DEF NetInv, ApplyRefused, Startable, Goto, disk, netVars, flagVars
<1>1. state = "REVERTED"
  BY DEF ManagerInv
<1>2. call = Idle /\ child = Idle /\ Settled /\ net = Boot(dir) /\ writing = Absent
  BY <1>1 DEF ManagerInv, PhaseInv
<1>3. DiskInv' /\ ChildInv' /\ CallInv'
  BY <1>2, DiskKept, ChildEnded, CallEnded
<1>4. DataInv'
  BY DEF DataInv, States, Busy
<1>5. PhaseInv'
  BY <1>1, <1>2 DEF PhaseInv, Idle
<1>6. ManagerInv'
  BY <1>1, <1>2 DEF ManagerInv, Settled
<1> QED
  BY <1>3, <1>4, <1>5, <1>6
\* A store operation of the worker begins or ends, or the manager goes on, with the
\* disk, the commit and what is known as they were: four of the six parts hold.
LEMMA QuietStep ==
    ASSUME NetInv, UNCHANGED <<disk, child, candidate, authorised>>,
           UNCHANGED believed \/ child = Idle
    PROVE  DiskInv' /\ ChildInv'
  BY DiskKept, ChildKept, ChildEnded DEF NetInv

\* The store has the old policy again: it is written to the interfaces.
LEMMA RestoreReturnsStep == ASSUME NetInv, RestoreReturns PROVE NetInv'
<1> USE DEF NetInv, RestoreReturns, Returned, Goto, Write, disk, knownVars, netVars, flagVars
<1>1. DiskInv' /\ ChildInv' /\ CallInv'
  BY QuietStep, CallEnded
<1>2. state = "ROLLING_BACK" /\ child = Idle /\ cancelled = FALSE /\ call' = Idle
  BY DEF PhaseInv, DataInv
<1>3. Boot(dir) \in Profiles /\ Idle \in Calls /\ Idle \in Commits /\ Absent \in Records
  <2>1. dir["confirmed"] # Absent /\ dir \in [Names -> Records]
    BY StoreAssumption DEF DiskInv, Names
  <2> QED
    BY <2>1, BootIs DEF Calls, Commits, Idle, Records
<1>4. DataInv'
  BY <1>2, <1>3 DEF DataInv, States, Busy, Baseline, Records
<1>5. PhaseInv'
  BY <1>2 DEF PhaseInv, Idle
<1>6. ManagerInv'
  BY <1>2 DEF ManagerInv
<1> QED
  BY <1>1, <1>4, <1>5, <1>6

\* The candidate was removed after the rollback, or could not be.
LEMMA DiscardReturnsStep == ASSUME NetInv, DiscardReturns PROVE NetInv'
<1> USE DEF NetInv, DiscardReturns, Returned, Goto, disk, knownVars, netVars, flagVars
<1>1. DiskInv' /\ ChildInv' /\ CallInv'
  BY QuietStep, CallEnded
<1>2. state = "ROLLING_BACK" /\ child = Idle /\ cancelled = FALSE /\ call' = Idle
  BY DEF PhaseInv, DataInv
<1>3. DataInv'
  BY <1>2 DEF DataInv, States, Busy, Calls, Commits, Idle
<1>4. PhaseInv'
  BY <1>2 DEF PhaseInv, Idle
<1>5. ManagerInv'
  <2>1. CASE call.result = "ok"
    BY <1>2, <2>1 DEF ManagerInv, CallInv, Discarding, Settled
  <2>2. CASE call.result = "failed"
    BY <1>2, <2>2 DEF ManagerInv
  <2> QED
    BY <2>1, <2>2
<1> QED
  BY <1>1, <1>3, <1>4, <1>5

\* The remains of an earlier change are gone: the candidate is saved next.
LEMMA StageReturnsStep == ASSUME NetInv, StageReturns PROVE NetInv'
<1> USE DEF NetInv, StageReturns, Returned, Goto, disk, knownVars, netVars, flagVars
<1>1. DiskInv' /\ ChildInv'
  BY QuietStep
<1>2. state = "STAGING" /\ child = Idle /\ cancelled = FALSE
  BY DEF PhaseInv, DataInv
<1>3. CASE call' = Idle /\ state' = "FAILED"
  <2>1. DataInv' /\ PhaseInv' /\ CallInv'
    BY <1>2, <1>3, CallEnded DEF DataInv, PhaseInv, States, Busy, Calls, Commits, Idle
  <2>2. ManagerInv'
    BY <1>2, <1>3 DEF ManagerInv
  <2> QED
    BY <1>1, <2>1, <2>2
<1>4. CASE Returned("stage", "ok") /\ call' = Calling(SaveCandidate(candidate), "save") /\ UNCHANGED state
  <2>1. call' = [todo |-> << Change("candidate", candidate) >>, dirty |-> FALSE,
                 then |-> "save", result |-> "running"]
    BY <1>4, Scripts DEF Calling, SaveCandidate
  <2>2. call' \in Calls /\ call' # Idle
    <3>1. << Change("candidate", candidate) >> \in Seq(Changes)
      BY ScriptTypes DEF DataInv, Names, Records
    <3> QED
      BY <2>1, <3>1 DEF Calls, Commits, Idle
  <2>3. DataInv' /\ PhaseInv'
    BY <1>2, <1>4, <2>1, <2>2 DEF DataInv, PhaseInv
  <2>4. dir["guard"] = Absent
    BY <1>4 DEF CallInv, Aborting
  <2>5. CallInv'
    BY <2>1, <2>4 DEF CallInv, Saving
  <2>6. ManagerInv'
    BY <1>2, <1>4 DEF ManagerInv
  <2> QED
    BY <1>1, <2>3, <2>5, <2>6
<1> QED
  BY <1>3, <1>4

\* The candidate is saved: it is written to the interfaces.
LEMMA SaveReturnsStep == ASSUME NetInv, SaveReturns PROVE NetInv'
<1> USE DEF NetInv, SaveReturns, Returned, Goto, Write, disk, knownVars, netVars, flagVars
<1>1. state = "STAGING" /\ child = Idle /\ cancelled = FALSE /\ Boot(dir) = believed /\ call # Idle
  BY DEF PhaseInv, DataInv, ManagerInv
<1>2. CASE Returned("save", "ok") /\ Rollback /\ UNCHANGED netVars
  BY <1>1, <1>2, RollbackStep DEF DataInv
<1>3. CASE /\ Returned("save", "ok") /\ Write(candidate) /\ Goto("APPLYING") /\ call' = Idle
           /\ UNCHANGED <<flagVars, child, cancelled>>
  <2>1. DiskInv' /\ ChildInv' /\ CallInv'
    BY <1>3, QuietStep, CallEnded
  <2>2. DataInv'
    BY <1>1, <1>3 DEF DataInv, States, Busy, Calls, Commits, Idle, Records
  <2>3. PhaseInv'
    BY <1>1, <1>3 DEF PhaseInv, Idle
  <2>4. Settled /\ dir["candidate"] = candidate /\ dir["guard"] = Absent
    BY <1>1, <1>3 DEF CallInv, Saving
  <2>5. dir["confirmed"] = believed
    <3>1. dir["confirmed"] # Absent /\ dir \in [Names -> Records]
      BY StoreAssumption DEF DiskInv, Names
    <3> QED
      BY <1>1, <2>4, <3>1, BootIs
  <2>6. ManagerInv'
    BY <1>1, <1>3, <2>4, <2>5 DEF ManagerInv, Settled
  <2> QED
    BY <2>1, <2>2, <2>3, <2>6
<1>4. CASE /\ Returned("save", "failed") /\ Goto("FAILED") /\ call' = Idle
           /\ UNCHANGED <<flagVars, child, cancelled, netVars>>
  <2>1. DiskInv' /\ ChildInv' /\ CallInv'
    BY <1>4, QuietStep, CallEnded
  <2>2. DataInv'
    BY <1>1, <1>4 DEF DataInv, States, Busy, Calls, Commits, Idle
  <2>3. PhaseInv'
    BY <1>1, <1>4 DEF PhaseInv, Idle
  <2>4. ManagerInv'
    BY <1>1, <1>4 DEF ManagerInv
  <2> QED
    BY <2>1, <2>2, <2>3, <2>4
<1> QED
  BY <1>2, <1>3, <1>4

\* The store was looked at after an uncertain commit.
LEMMA BaselineReturnsStep == ASSUME NetInv, BaselineReturns PROVE NetInv'
<1> USE DEF NetInv, BaselineReturns, Goto, disk, knownVars, netVars, flagVars
<1>1. state = "COMMITTING" /\ child = Idle /\ cancelled = FALSE /\ call # Idle
  BY DEF PhaseInv, DataInv, Idle
<1>2. CASE Boot(dir) = believed /\ Rollback
  BY <1>1, <1>2, RollbackStep DEF DataInv
<1>3. CASE state' = "DURABILITY_UNCERTAIN" /\ call' = Idle /\ UNCHANGED <<flagVars, child, cancelled>>
  <2>1. DiskInv' /\ ChildInv' /\ CallInv'
    BY <1>3, QuietStep, CallEnded
  <2>2. DataInv' /\ PhaseInv'
    BY <1>1, <1>3 DEF DataInv, PhaseInv, States, Busy, Calls, Commits, Idle
  <2>3. ManagerInv'
    BY <1>1, <1>3 DEF ManagerInv
  <2> QED
    BY <2>1, <2>2, <2>3
<1> QED
  BY <1>2, <1>3
-----------------------------------------------------------------------------
(* Steps of the manager. *)

\* The change is given up: a commit under way is killed first.
LEMMA GiveUpStep == ASSUME NetInv, GiveUp PROVE NetInv'
<1> USE DEF NetInv, GiveUp, Free, netVars
<1>1. child # Idle => state = "COMMITTING" /\ cancels
  BY DEF PhaseInv
<1>2. child = Idle => Boot(dir) = believed
  <2>1. dir["confirmed"] # Absent /\ dir \in [Names -> Records]
    BY StoreAssumption DEF DiskInv, Names
  <2>2. Boot(dir) = IF dir["guard"] # Absent THEN dir["guard"] ELSE dir["confirmed"]
    BY <2>1, BootIs
  <2> QED
    BY <2>2 DEF ManagerInv
<1> QED
  BY <1>1, <1>2, RollbackStep DEF DataInv

\* Before the commit begins the store selects the policy from before the change.
LEMMA ReadyBoot ==
    ASSUME NetInv,
           \/ state \in {"APPLYING", "WAIT_BINDINGS", "WAIT_CONFIRM"}
           \/ state = "COMMITTING" /\ call = Idle /\ child = Idle
    PROVE  /\ Boot(dir) = believed /\ Settled /\ dir["guard"] = Absent
           /\ dir["confirmed"] = believed /\ dir["candidate"] = candidate
<1>1. dir["confirmed"] # Absent /\ dir \in [Names -> Records]
  BY StoreAssumption DEF NetInv, DiskInv, Names
<1>2. Boot(dir) = IF dir["guard"] # Absent THEN dir["guard"] ELSE dir["confirmed"]
  BY <1>1, BootIs
<1> QED
  BY <1>2 DEF NetInv, ManagerInv

\* The interfaces have the candidate, or the change is rolled back.
LEMMA StepApplyingStep == ASSUME NetInv, StepApplying PROVE NetInv'
<1> USE DEF NetInv, StepApplying, Wished, Free, Goto, disk, knownVars, netVars, flagVars
<1>1. child = Idle /\ cancelled = FALSE
  BY DEF PhaseInv, DataInv
<1>2. CASE Rollback
  BY <1>1, <1>2, ReadyBoot, RollbackStep DEF DataInv
<1>3. CASE net = candidate /\ Goto("WAIT_BINDINGS") /\ UNCHANGED <<flagVars, call, child, cancelled>>
  <2>1. DiskInv' /\ ChildInv' /\ CallInv'
    BY <1>3, QuietStep, CallKept
  <2>2. DataInv' /\ PhaseInv'
    BY <1>1, <1>3 DEF DataInv, PhaseInv, States, Busy
  <2>3. ManagerInv'
    BY <1>1, <1>3 DEF ManagerInv, Settled
  <2> QED
    BY <2>1, <2>2, <2>3
<1> QED
  BY <1>2, <1>3

\* The listeners are bound again.
LEMMA StepBindingsStep == ASSUME NetInv, StepBindings PROVE NetInv'
<1> USE DEF NetInv, StepBindings, Wished, Free, Goto, disk, knownVars, netVars, flagVars
<1>1. child = Idle /\ cancelled = FALSE
  BY DEF PhaseInv, DataInv
<1>2. DiskInv' /\ ChildInv' /\ CallInv'
  BY QuietStep, CallKept
<1>3. DataInv' /\ PhaseInv'
  BY <1>1 DEF DataInv, PhaseInv, States, Busy
<1>4. ManagerInv'
  BY <1>1 DEF ManagerInv, Settled
<1> QED
  BY <1>2, <1>3, <1>4

\* The user keeps the change.
LEMMA StepConfirmStep == ASSUME NetInv, StepConfirm PROVE NetInv'
<1> USE DEF NetInv, StepConfirm, Wished, Free, Goto, disk, knownVars, netVars, flagVars
<1>1. child = Idle /\ cancelled = FALSE
  BY DEF PhaseInv, DataInv
<1>2. CASE Rollback /\ UNCHANGED authorised
  BY <1>1, <1>2, ReadyBoot, RollbackStep DEF DataInv
<1>3. CASE /\ Goto("COMMITTING") /\ authorised' = authorised \cup {candidate}
           /\ UNCHANGED <<flagVars, call, child, cancelled>>
  <2>1. DiskInv' /\ ChildInv' /\ CallInv'
    BY <1>1, <1>3, DiskKept, ChildEnded, CallKept
  <2>2. DataInv' /\ PhaseInv'
    BY <1>1, <1>3 DEF DataInv, PhaseInv, States, Busy
  <2>3. ManagerInv'
    BY <1>1, <1>3 DEF ManagerInv, Settled
  <2> QED
    BY <2>1, <2>2, <2>3
<1> QED
  BY <1>2, <1>3

\* The commit is forked: it works from a store that is settled.
LEMMA StepCommittingStep == ASSUME NetInv, StepCommitting PROVE NetInv'
<1> USE DEF NetInv, StepCommitting, Wished, Free, Goto, disk, knownVars, netVars, flagVars
<1>1. /\ Boot(dir) = believed /\ Settled /\ dir["guard"] = Absent
      /\ dir["confirmed"] = believed /\ dir["candidate"] = candidate
  BY ReadyBoot
<1>2. CASE Rollback
  BY <1>1, <1>2, RollbackStep DEF DataInv
<1>3. CASE /\ child' = Committer(Confirm(Boot(dir), dir["candidate"]))
           /\ UNCHANGED <<state, flagVars, call, cancelled>>
  <2>1. child' = [todo |-> Confirm(believed, candidate), dirty |-> FALSE, then |-> "ok", result |-> "running"]
    BY <1>1, <1>3 DEF Committer
  <2>2. child' \in Commits /\ child' # Idle
    <3>1. Confirm(believed, candidate) \in Seq(Changes)
      BY ScriptTypes DEF DataInv, Records
    <3> QED
      BY <2>1, <3>1 DEF Calls, Commits, Idle
  <2>3. DiskInv' /\ CallInv'
    BY <1>3, DiskKept, CallKept
  <2>4. candidate \in authorised /\ believed \in authorised
    <3>1. maybe["guard"] = {Absent} /\ maybe["confirmed"] = {believed}
      BY <1>1 DEF Settled, Names
    <3> QED
      BY <3>1 DEF DiskInv, ManagerInv
  <2>5. ChildInv'
    BY <1>1, <1>3, <2>1, <2>4 DEF ChildInv, Committing, Settled
  <2>6. DataInv' /\ PhaseInv'
    BY <1>3, <2>1, <2>2 DEF DataInv, PhaseInv
  <2>7. ManagerInv'
    BY <1>3, <2>2 DEF ManagerInv
  <2> QED
    BY <2>3, <2>5, <2>6, <2>7
<1> QED
  BY <1>2, <1>3

\* The end of a commit that was published leaves exactly the candidate.
LEMMA PublishedBoot ==
    ASSUME NetInv, child.result = "ok"
    PROVE  Settled /\ Boot(dir) = candidate /\ dir["guard"] = Absent
<1>1. dir["confirmed"] # Absent /\ dir \in [Names -> Records]
  BY StoreAssumption DEF NetInv, DiskInv, Names
<1> QED
  BY <1>1, BootIs DEF NetInv, ChildInv

\* The commit ended by itself.
LEMMA CommitReapedStep == ASSUME NetInv, CommitReaped PROVE NetInv'
<1> USE DEF NetInv, CommitReaped, Wished, Free, Goto, Kept, disk, knownVars, netVars, flagVars
<1>1. child # Idle /\ net = candidate /\ writing = Absent /\ cancelled = FALSE
  BY DEF PhaseInv, DataInv, ManagerInv, Idle
<1>2. DiskInv' /\ ChildInv' /\ Idle \in Calls /\ Idle \in Commits
  BY DiskKept, ChildEnded DEF Calls, Commits, Idle
<1>3. CASE child.result = "ok" /\ Kept /\ UNCHANGED <<flagVars, call>>
  <2>1. CallInv'
    BY <1>3, CallEnded
  <2>2. DataInv'
    BY <1>1, <1>2, <1>3 DEF DataInv, States, Busy
  <2>3. PhaseInv'
    BY <1>1, <1>3 DEF PhaseInv, Idle
  <2>4. ManagerInv'
    BY <1>1, <1>3, PublishedBoot DEF ManagerInv, Settled
  <2> QED
    BY <1>2, <2>1, <2>2, <2>3, <2>4
<1>4. CASE child.result = "uncertain" /\ Abort("baseline") /\ UNCHANGED <<state, believed, flagVars>>
  <2>1. CallInv' /\ call' \in Calls /\ call' # Idle /\ call'.then = "baseline"
    BY <1>4, AbortBegins
  <2>2. DataInv' /\ PhaseInv'
    BY <1>1, <1>2, <1>4, <2>1 DEF DataInv, PhaseInv, Idle
  <2>3. ManagerInv'
    BY <1>1, <1>4, <2>1 DEF ManagerInv
  <2> QED
    BY <1>2, <2>1, <2>2, <2>3
<1>5. CASE /\ child.result = "error" /\ Goto("ROLLING_BACK") /\ Restore
           /\ keepAsked' = FALSE /\ revertAsked' = FALSE /\ bindingsReady' = FALSE
           /\ UNCHANGED <<believed, alive, cancels>>
  <2>1. CallInv' /\ call' \in Calls /\ call' # Idle /\ call'.then = "restore"
    BY <1>5, AbortBegins DEF Restore
  <2>2. DataInv' /\ PhaseInv'
    BY <1>1, <1>2, <1>5, <2>1 DEF DataInv, PhaseInv, Idle, States, Busy
  <2>3. Boot(dir) = believed
    BY <1>5 DEF ChildInv
  <2>4. ManagerInv'
    BY <1>1, <1>5, <2>1, <2>3 DEF ManagerInv
  <2> QED
    BY <1>2, <2>1, <2>2, <2>4
<1> QED
  BY <1>3, <1>4, <1>5

\* The killed commit is reaped: it won the race, or it is undone.
LEMMA StepCancelledStep == ASSUME NetInv, StepCancelled PROVE NetInv'
<1> USE DEF NetInv, StepCancelled, Reaped, Free, Goto, Kept, disk, knownVars, netVars, flagVars
<1>1. child # Idle /\ net = candidate /\ writing = Absent /\ cancels
  BY DEF PhaseInv, DataInv, ManagerInv
<1>2. DiskInv' /\ ChildInv' /\ Idle \in Calls /\ Idle \in Commits
  BY DiskKept, ChildEnded DEF Calls, Commits, Idle
<1>3. CASE child.result = "ok" /\ Kept /\ UNCHANGED call
  <2>1. CallInv'
    BY <1>3, CallEnded
  <2>2. DataInv'
    BY <1>1, <1>2, <1>3 DEF DataInv, States, Busy
  <2>3. PhaseInv'
    BY <1>1, <1>3 DEF PhaseInv, Idle
  <2>4. ManagerInv'
    BY <1>1, <1>3, PublishedBoot DEF ManagerInv, Settled
  <2> QED
    BY <1>2, <2>1, <2>2, <2>3, <2>4
<1>4. CASE Restore /\ UNCHANGED <<state, believed>>
  <2>1. CallInv' /\ call' \in Calls /\ call' # Idle /\ call'.then = "restore"
    BY <1>4, AbortBegins DEF Restore
  <2>2. DataInv' /\ PhaseInv'
    BY <1>1, <1>2, <1>4, <2>1 DEF DataInv, PhaseInv, Idle
  <2>3. ManagerInv'
    BY <1>1, <1>4, <2>1 DEF ManagerInv
  <2> QED
    BY <1>2, <2>1, <2>2, <2>3
<1> QED
  BY <1>3, <1>4

\* The baseline is back on the interfaces: the candidate is removed.
LEMMA StepRollingBackStep == ASSUME NetInv, StepRollingBack PROVE NetInv'
<1> USE DEF NetInv, StepRollingBack, Free, Goto, disk, knownVars, netVars, flagVars
<1>1. child = Idle /\ cancelled = FALSE
  BY DEF PhaseInv, DataInv
<1>2. DiskInv' /\ ChildInv'
  BY QuietStep
<1>3. CASE net = Baseline /\ call' = Calling(Discard, "discard") /\ UNCHANGED state
  <2>1. call' = [todo |-> << Change("candidate", Absent) >>, dirty |-> FALSE,
                 then |-> "discard", result |-> "running"]
    BY <1>3, Scripts DEF Calling, Discard
  <2>2. call' \in Calls /\ call' # Idle
    <3>1. << Change("candidate", Absent) >> \in Seq(Changes)
      BY ScriptTypes DEF Discard
    <3> QED
      BY <2>1, <3>1 DEF Calls, Commits, Idle
  <2>3. CallInv'
    BY <1>3, <2>1 DEF CallInv, Discarding, Baseline
  <2>4. DataInv' /\ PhaseInv'
    BY <1>1, <1>3, <2>1, <2>2 DEF DataInv, PhaseInv
  <2>5. ManagerInv'
    BY <1>1, <1>3 DEF ManagerInv
  <2> QED
    BY <1>2, <2>3, <2>4, <2>5
<1>4. CASE Goto("ROLLBACK_FAILED") /\ UNCHANGED call
  <2>1. CallInv' /\ DataInv' /\ PhaseInv'
    BY <1>1, <1>4, CallKept DEF DataInv, PhaseInv, States, Busy
  <2>2. ManagerInv'
    BY <1>1, <1>4 DEF ManagerInv
  <2> QED
    BY <1>2, <2>1, <2>2
<1> QED
  BY <1>3, <1>4

\* The listeners are bound to the baseline again.
LEMMA StepRollbackBindingsStep == ASSUME NetInv, StepRollbackBindings PROVE NetInv'
<1> USE DEF NetInv, StepRollbackBindings, Free, Goto, disk, knownVars, netVars, flagVars
<1>1. child = Idle /\ cancelled = FALSE
  BY DEF PhaseInv, DataInv
<1>2. DiskInv' /\ ChildInv' /\ CallInv'
  BY QuietStep, CallKept
<1>3. DataInv' /\ PhaseInv'
  BY <1>1 DEF DataInv, PhaseInv, States, Busy
<1>4. ManagerInv'
  BY <1>1 DEF ManagerInv, Settled
<1> QED
  BY <1>2, <1>3, <1>4

\* The rollback took too long and is given up.
LEMMA RollbackOverdueStep == ASSUME NetInv, RollbackOverdue PROVE NetInv'
<1> USE DEF NetInv, RollbackOverdue, Free, Goto, disk, knownVars, netVars, flagVars
<1>1. DiskInv' /\ ChildInv' /\ CallInv'
  BY DiskKept, ChildEnded, CallKept
<1>2. DataInv'
  BY DEF DataInv, States, Busy, Calls, Commits, Idle
<1>3. PhaseInv'
  BY DEF PhaseInv, Idle
<1>4. ManagerInv'
  BY DEF ManagerInv
<1> QED
  BY <1>1, <1>2, <1>3, <1>4

-----------------------------------------------------------------------------
(* Starting again. *)

\* The gateway starts again and reads the store.
LEMMA RestartsStep == ASSUME NetInv, Restarts PROVE NetInv'
<1> USE DEF NetInv, Restarts, Goto, disk, netVars, flagVars
<1>1. call = Idle /\ child = Idle /\ cancelled = FALSE
  BY DEF PhaseInv, DataInv, Busy
<1>2. Boot(dir) \in Profiles
  <2>1. dir["confirmed"] # Absent /\ dir \in [Names -> Records]
    BY StoreAssumption DEF DiskInv, Names
  <2> QED
    BY <2>1, BootIs
<1>3. /\ maybe["guard"] \ {Absent} \subseteq Saved
      /\ Absent \in maybe["guard"] => maybe["confirmed"] \subseteq Saved
      /\ Saved \subseteq Profiles
  BY SavedIs DEF DiskInv, Names, Records
<1>4. DiskInv'
  BY <1>3 DEF DiskInv
<1>5. CallInv' /\ ChildInv'
  BY <1>1, CallEnded, ChildEnded
<1>6. DataInv' /\ PhaseInv'
  BY <1>1, <1>2, <1>3 DEF DataInv, PhaseInv, States
<1>7. ManagerInv'
  BY <1>1 DEF ManagerInv
<1> QED
  BY <1>4, <1>5, <1>6, <1>7

\* What a power cut leaves is a settled store with one policy for the boot.
LEMMA PowerCutStep == ASSUME NetInv, PowerCut PROVE NetInv'
<1> USE DEF NetInv, PowerCut, Cut, Goto
<1>1. /\ dir' \in [Names -> Records] /\ \A n \in Names : dir'[n] \in maybe[n]
      /\ maybe' = [n \in Names |-> {dir'[n]}]
  BY DEF Images
<1>2. /\ dir'["confirmed"] \in Profiles /\ dir'["good"] \in Profiles
      /\ maybe'["guard"] = {dir'["guard"]} /\ maybe'["confirmed"] = {dir'["confirmed"]}
      /\ maybe'["good"] = {dir'["good"]}
  BY <1>1 DEF DiskInv, Names
<1>3. /\ Boot(dir') = IF dir'["guard"] # Absent THEN dir'["guard"] ELSE dir'["confirmed"]
      /\ Boot(dir') \in Profiles
  BY <1>1, <1>2, BootIs, StoreAssumption
<1>4. DiskInv'
  BY <1>1, <1>2, <1>3 DEF DiskInv
<1>5. CallInv' /\ ChildInv'
  BY CallEnded, ChildEnded
<1>6. DataInv'
  BY <1>3, IdleType DEF DataInv, States, Records
<1>7. PhaseInv'
  BY DEF PhaseInv, Idle
<1>8. ManagerInv'
  BY DEF ManagerInv
<1> QED
  BY <1>4, <1>5, <1>6, <1>7, <1>8

\* The invariant holds at first.
LEMMA NetInit == Init => NetInv
<1> SUFFICES ASSUME Init PROVE NetInv
  OBVIOUS
<1>1. PICK p \in Profiles : Adopted(p) /\ believed = p /\ net = p
  BY DEF Init
<1>2. /\ dir = [n \in Names |-> IF n \in {"confirmed", "good"} THEN p ELSE Absent]
      /\ maybe = [n \in Names |-> {dir[n]}]
  BY <1>1 DEF Adopted
<1>3. /\ dir \in [Names -> Records] /\ dir["guard"] = Absent
      /\ dir["confirmed"] = p /\ dir["good"] = p /\ p # Absent
  BY <1>2, StoreAssumption DEF Names, Records
<1>4. Boot(dir) = p
  BY <1>3, BootIs
<1>5. DiskInv
  BY <1>1, <1>2, <1>3 DEF Init, DiskInv, Names
<1>6. DataInv
  BY <1>1, IdleType DEF Init, DataInv, States, Records
<1>7. PhaseInv /\ CallInv /\ ChildInv
  BY DEF Init, PhaseInv, CallInv, ChildInv, Idle
<1>8. ManagerInv
  BY <1>1, <1>4 DEF Init, ManagerInv
<1> QED
  BY <1>5, <1>6, <1>7, <1>8 DEF NetInv

-----------------------------------------------------------------------------
(* Changes of the disk and their sync. *)

\* What a change does to the records.
LEMMA MadeIs ==
    ASSUME DiskInv, NEW n \in Names, NEW v \in Records, Made(Change(n, v))
    PROVE  /\ dir' \in [Names -> Records] /\ maybe' \in [Names -> SUBSET Records]
           /\ \A m \in Names : dir'[m] = (IF m = n THEN v ELSE dir[m])
           /\ \A m \in Names : maybe'[m] = (IF m = n THEN maybe[m] \cup {v} ELSE maybe[m])
           /\ \A m \in Names : dir'[m] \in maybe'[m]
<1>1. /\ dir' = [dir EXCEPT ![n] = v]
      /\ maybe' = [maybe EXCEPT ![n] = @ \cup {v}]
  BY DEF Made, Change
<1> QED
  BY <1>1 DEF DiskInv

\* A sync settles the disk and takes no chance of a boot that was not authorised.
LEMMA SyncedIs ==
    ASSUME NetInv, Synced, UNCHANGED authorised
    PROVE  DiskInv' /\ Settled' /\ UNCHANGED dir
<1>1. dir' = dir /\ maybe' = [n \in Names |-> {dir[n]}]
  BY DEF Synced
<1>2. /\ maybe'["guard"] = {dir["guard"]} /\ maybe'["confirmed"] = {dir["confirmed"]}
      /\ maybe'["good"] = {dir["good"]}
  BY <1>1 DEF Names
<1>3. /\ dir["guard"] \in maybe["guard"] /\ dir["confirmed"] \in maybe["confirmed"]
      /\ dir["good"] \in maybe["good"]
  BY DEF NetInv, DiskInv, Names
<1> QED
  BY <1>1, <1>2, <1>3 DEF NetInv, DiskInv, Settled
\* The worker is at the store: what it changes there needs only this.
LEMMA CallMoves ==
    ASSUME NetInv, call.result = "running", call' \in Calls, call'.then = call.then,
           call'.result # "none", DiskInv', CallInv', Boot(dir') = Boot(dir),
           UNCHANGED <<state, knownVars, flagVars, child, cancelled, netVars>>
    PROVE  NetInv'
<1> USE DEF NetInv, knownVars, flagVars, netVars
<1>1. child = Idle /\ call # Idle /\ call' # Idle
  BY DEF PhaseInv, Idle
<1>2. state \in {"STAGING", "COMMITTING", "ROLLING_BACK"}
  BY <1>1 DEF PhaseInv
<1>3. ChildInv'
  BY <1>1, ChildEnded
<1>4. DataInv'
  BY DEF DataInv
<1>5. PhaseInv'
  BY <1>1 DEF PhaseInv, Idle
<1>6. ManagerInv'
  BY <1>1, <1>2 DEF ManagerInv
<1> QED
  BY <1>3, <1>4, <1>5, <1>6

\* A change by the worker - of an abort, of saving the candidate, of discarding it -
\* leaves what a boot selects as it is, now and after a power cut.
LEMMA CallMadeStep ==
    ASSUME NetInv, call.result = "running", ~call.dirty,
           Made(Head(call.todo)), call' = [call EXCEPT !.dirty = TRUE],
           UNCHANGED <<state, knownVars, flagVars, child, cancelled, netVars>>
    PROVE  NetInv' /\ Boot(dir') = Boot(dir) /\ Saved' = Saved
<1> USE DEF NetInv, knownVars, flagVars, netVars
<1>1. /\ call' \in Calls /\ call'.then = call.then /\ call'.result = "running"
      /\ call'.dirty = TRUE /\ call'.todo = call.todo
  BY DEF DataInv, Calls, Commits
<1>2. /\ dir \in [Names -> Records] /\ dir["confirmed"] \in Profiles /\ dir["confirmed"] # Absent
      /\ dir["guard"] \in maybe["guard"] /\ dir["guard"] \in Records /\ candidate \in Records
      /\ Absent \in Records
      /\ Boot(dir) = IF dir["guard"] # Absent THEN dir["guard"] ELSE dir["confirmed"]
  <2>1. dir["confirmed"] \in Profiles /\ Absent \notin Profiles
    BY StoreAssumption DEF DiskInv, Names
  <2> QED
    BY <2>1, BootIs DEF DiskInv, DataInv, Names, Records
<1>3. CASE Aborting /\ call.then \in {"stage", "restore", "baseline"}
  <2>1. CASE /\ dir["guard"] # Absent
             /\ call.todo = << Change("confirmed", dir["guard"]), Change("guard", Absent) >>
    <3>1. Made(Change("confirmed", dir["guard"]))
      BY <2>1, Scripts
    <3>2. /\ dir' \in [Names -> Records] /\ maybe' \in [Names -> SUBSET Records]
          /\ \A m \in Names : dir'[m] \in maybe'[m]
          /\ dir'["guard"] = dir["guard"] /\ dir'["confirmed"] = dir["guard"]
          /\ maybe'["guard"] = maybe["guard"] /\ maybe'["good"] = maybe["good"]
          /\ maybe'["confirmed"] = maybe["confirmed"] \cup {dir["guard"]}
      BY <1>2, <3>1, MadeIs DEF Names
    <3>3. dir["guard"] \in Profiles /\ dir["guard"] \in authorised
      BY <1>2, <2>1 DEF Records, DiskInv
    <3>4. DiskInv'
      BY <3>2, <3>3 DEF DiskInv
    <3>5. Boot(dir') = Boot(dir)
      BY <1>2, <2>1, <3>2, BootIs
    <3>6. CallInv'
      BY <1>1, <1>3, <2>1, <3>2 DEF CallInv, Aborting
    <3>7. Saved' = Saved
      <4>1. Saved' = (maybe'["guard"] \ {Absent})
                     \cup IF Absent \in maybe'["guard"] THEN maybe'["confirmed"] ELSE {}
        BY <3>4, SavedIsNext
      <4> QED
        BY <1>2, <2>1, <3>2, <4>1, SavedIs
    <3> QED
      BY <1>1, <3>4, <3>5, <3>6, <3>7, CallMoves
  <2>2. CASE /\ call.todo = << Change("guard", Absent) >>
             /\ maybe["confirmed"] = {dir["confirmed"]}
             /\ Settled /\ dir["guard"] = dir["confirmed"]
    <3>1. Made(Change("guard", Absent))
      BY <2>2, Scripts
    <3>2. /\ dir' \in [Names -> Records] /\ maybe' \in [Names -> SUBSET Records]
          /\ \A m \in Names : dir'[m] \in maybe'[m]
          /\ dir'["guard"] = Absent /\ dir'["confirmed"] = dir["confirmed"]
          /\ maybe'["guard"] = maybe["guard"] \cup {Absent} /\ maybe'["good"] = maybe["good"]
          /\ maybe'["confirmed"] = maybe["confirmed"]
      BY <1>2, <3>1, MadeIs DEF Names
    <3>3. maybe["guard"] = {dir["confirmed"]} /\ dir["confirmed"] \in authorised
      BY <1>2, <2>2 DEF Settled, Names, DiskInv
    <3>4. DiskInv'
      BY <1>2, <2>2, <3>2, <3>3 DEF DiskInv
    <3>5. Boot(dir') = Boot(dir)
      BY <1>2, <2>2, <3>2, BootIs
    <3>6. CallInv'
      BY <1>1, <1>3, <2>2, <3>2 DEF CallInv, Aborting
    <3>7. Saved' = Saved
      <4>1. Saved' = (maybe'["guard"] \ {Absent})
                     \cup IF Absent \in maybe'["guard"] THEN maybe'["confirmed"] ELSE {}
        BY <3>4, SavedIsNext
      <4> QED
        BY <1>2, <2>2, <3>2, <3>3, <4>1, SavedIs
    <3> QED
      BY <1>1, <3>4, <3>5, <3>6, <3>7, CallMoves
  <2> QED
    BY <1>3, <2>1, <2>2 DEF Aborting
<1>4. CASE \/ call.then = "save" /\ Saving
           \/ call.then = "discard" /\ Discarding
  <2>1. PICK v \in Records : Made(Change("candidate", v)) /\ (call.then = "save" => v = candidate)
    <3>1. CASE call.then = "save" /\ call.todo = << Change("candidate", candidate) >>
      BY <1>2, <3>1, Scripts
    <3>2. CASE call.then = "discard" /\ call.todo = << Change("candidate", Absent) >>
      BY <1>2, <3>2, Scripts
    <3> QED
      BY <1>4, <3>1, <3>2 DEF Saving, Discarding
  <2>2. /\ dir' \in [Names -> Records] /\ maybe' \in [Names -> SUBSET Records]
        /\ \A m \in Names : dir'[m] \in maybe'[m]
        /\ dir'["guard"] = dir["guard"] /\ dir'["confirmed"] = dir["confirmed"]
        /\ maybe'["guard"] = maybe["guard"] /\ maybe'["good"] = maybe["good"]
        /\ maybe'["confirmed"] = maybe["confirmed"] /\ dir'["candidate"] = v
    BY <2>1, MadeIs DEF Names
  <2>3. DiskInv'
    BY <2>2 DEF DiskInv
  <2>4. Boot(dir') = Boot(dir)
    BY <1>2, <2>2, BootIs
  <2>5. CallInv'
    BY <1>1, <1>4, <2>1, <2>2, <2>4 DEF CallInv, Saving, Discarding
  <2>6. Saved' = Saved
    <3>1. Saved' = (maybe'["guard"] \ {Absent})
                   \cup IF Absent \in maybe'["guard"] THEN maybe'["confirmed"] ELSE {}
      BY <2>3, SavedIsNext
    <3> QED
      BY <2>2, <3>1, SavedIs
  <2> QED
    BY <1>1, <2>3, <2>4, <2>5, <2>6, CallMoves
<1>5. call # Idle
  BY DEF Idle
<1> QED
  BY <1>3, <1>4, <1>5 DEF PhaseInv, CallInv
\* The change fails: the operation ends where it was.
LEMMA CallFailedStep ==
    ASSUME NetInv, call.result = "running", call' = [call EXCEPT !.result = "failed"],
           UNCHANGED <<disk, state, knownVars, flagVars, child, cancelled, netVars>>
    PROVE  NetInv'
<1> USE DEF NetInv
<1>1. /\ call' \in Calls /\ call'.then = call.then /\ call'.result = "failed"
  BY DEF DataInv, Calls, Commits
<1>2. DiskInv'
  BY DiskKept DEF knownVars
<1>3. CallInv'
  <2>1. call # Idle
    BY DEF Idle
  <2> QED
    BY <1>1 DEF CallInv, Aborting, Saving, Discarding, disk, netVars, knownVars
<1> QED
  BY <1>1, <1>2, <1>3, CallMoves DEF disk

\* A change of the worker is on the disk.
LEMMA CallSyncedStep ==
    ASSUME NetInv, call.result = "running", call.dirty, Synced, call' = Done(call),
           UNCHANGED <<state, knownVars, flagVars, child, cancelled, netVars>>
    PROVE  NetInv'
<1> USE DEF NetInv, knownVars, netVars
<1>1. DiskInv' /\ Settled' /\ UNCHANGED dir
  BY SyncedIs
<1>2. /\ call.todo \in Seq(Changes)
      /\ call.todo # << >> => Tail(call.todo) \in Seq(Changes)
      /\ call'.then = call.then /\ call'.dirty = FALSE /\ call'.todo = Tail(call.todo)
      /\ call'.result = IF Len(call.todo) = 1 THEN "ok" ELSE "running"
  BY DEF DataInv, Calls, Commits, Done
<1>3. call.todo # << >> => call' \in Calls
  <2>1. call.todo # << >> => Tail(call.todo) \in Seq(Changes)
    BY <1>2
  <2> QED
    BY <2>1 DEF DataInv, Calls, Commits, Done
<1>4. maybe'["confirmed"] = {dir["confirmed"]}
  BY <1>1 DEF Settled, Names
<1>5. CASE Aborting /\ call.then \in {"stage", "restore", "baseline"}
  <2>1. CASE call.todo = << Change("confirmed", dir["guard"]), Change("guard", Absent) >>
    <3>1. call.todo # << >> /\ call'.todo = << Change("guard", Absent) >> /\ call'.result = "running"
      BY <1>2, <2>1, Scripts
    <3>2. dir["guard"] = dir["confirmed"]
      BY <1>5, <2>1, Scripts DEF Aborting
    <3>3. CallInv'
      BY <1>1, <1>2, <1>4, <1>5, <3>1, <3>2 DEF CallInv, Aborting
    <3> QED
      BY <1>1, <1>2, <1>3, <3>1, <3>3, CallMoves
  <2>2. CASE call.todo = << Change("guard", Absent) >> /\ dir["guard"] = Absent
    <3>1. call.todo # << >> /\ call'.result = "ok"
      BY <1>2, <2>2, Scripts
    <3>2. CallInv'
      BY <1>1, <1>2, <1>5, <2>2, <3>1 DEF CallInv, Aborting
    <3> QED
      BY <1>1, <1>2, <1>3, <3>1, <3>2, CallMoves
  <2> QED
    BY <1>5, <2>1, <2>2 DEF Aborting
<1>6. CASE \/ call.then = "save" /\ Saving
           \/ call.then = "discard" /\ Discarding
  <2>1. PICK v : call.todo = << Change("candidate", v) >>
    BY <1>6 DEF Saving, Discarding
  <2>2. call.todo # << >> /\ call'.result = "ok"
    BY <1>2, <2>1, Scripts
  <2>3. CallInv'
    BY <1>1, <1>2, <1>6, <2>2 DEF CallInv, Saving, Discarding
  <2> QED
    BY <1>1, <1>2, <1>3, <2>2, <2>3, CallMoves
<1>7. call # Idle
  BY DEF Idle
<1> QED
  BY <1>5, <1>6, <1>7 DEF PhaseInv, CallInv

\* The commit is at the store: what it changes there needs only this.
LEMMA ChildMoves ==
    ASSUME NetInv, child.result = "running", child' \in Commits, child'.result # "none",
           DiskInv', ChildInv',
           UNCHANGED <<state, knownVars, flagVars, call, cancelled, netVars>>
    PROVE  NetInv'
<1> USE DEF NetInv, knownVars, flagVars, netVars
<1>1. child # Idle /\ child' # Idle /\ state = "COMMITTING" /\ call = Idle /\ cancelled = FALSE
  BY DEF PhaseInv, DataInv, Idle
<1>2. CallInv'
  BY <1>1, CallEnded
<1>3. DataInv'
  BY DEF DataInv
<1>4. PhaseInv'
  BY <1>1 DEF PhaseInv, Idle
<1>5. ManagerInv'
  BY <1>1 DEF ManagerInv
<1> QED
  BY <1>2, <1>3, <1>4, <1>5

\* A change that publishes a kept policy, or removes the guard of one that is settled,
\* adds at most one policy to what a boot may select.
LEMMA GuardedChange ==
    ASSUME DiskInv, NEW n \in Names, NEW v \in Records, Made(Change(n, v)), UNCHANGED authorised,
           n \in {"confirmed", "good"} => v \in Profiles,
           n # "candidate" /\ v # Absent => v \in authorised,
           n = "guard" /\ v = Absent => Settled /\ dir["confirmed"] \in authorised
    PROVE  DiskInv' /\ (Saved' = Saved \/ \E p \in Profiles : Saved' = Saved \cup {p})
<1>1. /\ dir' \in [Names -> Records] /\ maybe' \in [Names -> SUBSET Records]
      /\ \A m \in Names : maybe'[m] = (IF m = n THEN maybe[m] \cup {v} ELSE maybe[m])
      /\ \A m \in Names : dir'[m] \in maybe'[m]
  BY MadeIs
<1>2. /\ maybe'["guard"] = (IF n = "guard" THEN maybe["guard"] \cup {v} ELSE maybe["guard"])
      /\ maybe'["confirmed"] = (IF n = "confirmed" THEN maybe["confirmed"] \cup {v} ELSE maybe["confirmed"])
      /\ maybe'["good"] = (IF n = "good" THEN maybe["good"] \cup {v} ELSE maybe["good"])
  BY <1>1 DEF Names
<1>3. n = "guard" /\ v = Absent => maybe["confirmed"] = {dir["confirmed"]} /\ dir["confirmed"] \in Profiles
  <2>1. Settled => maybe["confirmed"] = {dir["confirmed"]}
    BY DEF Settled, Names
  <2>2. dir["confirmed"] \in Profiles
    BY DEF DiskInv, Names
  <2> QED
    BY <2>1, <2>2
<1>4. DiskInv'
  <2>1. maybe'["confirmed"] \subseteq Profiles /\ maybe'["good"] \subseteq Profiles
    BY <1>2 DEF DiskInv
  <2>2. maybe'["guard"] \ {Absent} \subseteq authorised'
    BY <1>2 DEF DiskInv
  <2>3. Absent \in maybe'["guard"] => maybe'["confirmed"] \subseteq authorised'
    <3>1. CASE n = "guard" /\ v = Absent
      BY <1>2, <1>3, <3>1
    <3>2. CASE ~(n = "guard" /\ v = Absent)
      BY <1>2, <3>2, StoreAssumption DEF DiskInv
    <3> QED
      BY <3>1, <3>2
  <2> QED
    BY <1>1, <2>1, <2>2, <2>3 DEF DiskInv
<1>5. /\ Saved = (maybe["guard"] \ {Absent})
                 \cup IF Absent \in maybe["guard"] THEN maybe["confirmed"] ELSE {}
      /\ Saved' = (maybe'["guard"] \ {Absent})
                  \cup IF Absent \in maybe'["guard"] THEN maybe'["confirmed"] ELSE {}
  BY <1>4, SavedIs, SavedIsNext
<1>6. CASE n = "guard" /\ v = Absent
  <2>1. Saved' = Saved \cup {dir["confirmed"]}
    BY <1>2, <1>3, <1>5, <1>6
  <2> QED
    BY <1>3, <1>4, <1>6, <2>1
<1>7. CASE n = "guard" /\ v # Absent
  <2>1. Saved' = Saved \cup {v} /\ v \in Profiles
    BY <1>2, <1>5, <1>7 DEF Records
  <2> QED
    BY <1>4, <2>1
<1>8. CASE n = "confirmed" /\ Absent \in maybe["guard"]
  <2>1. Saved' = Saved \cup {v} /\ v \in Profiles
    BY <1>2, <1>5, <1>8
  <2> QED
    BY <1>4, <2>1
<1>9. CASE n # "guard" /\ ~(n = "confirmed" /\ Absent \in maybe["guard"])
  <2>1. Saved' = Saved
    BY <1>2, <1>5, <1>9
  <2> QED
    BY <1>4, <2>1
<1> QED
  BY <1>6, <1>7, <1>8, <1>9

\* A change by the commit adds at most one policy to what a boot may select after a
\* power cut, and that one was kept by the user.
LEMMA ChildMadeStep ==
    ASSUME NetInv, child.result = "running", ~child.dirty,
           Made(Head(child.todo)), child' = [child EXCEPT !.dirty = TRUE],
           UNCHANGED <<state, knownVars, flagVars, call, cancelled, netVars>>
    PROVE  NetInv' /\ (Saved' = Saved \/ \E p \in Profiles : Saved' = Saved \cup {p})
<1> USE DEF NetInv, knownVars
<1>1. /\ child' \in Commits /\ child'.then = child.then /\ child'.result = "running"
      /\ child'.dirty = TRUE /\ child'.todo = child.todo
  BY DEF DataInv, Calls, Commits
<1>2. /\ dir \in [Names -> Records] /\ dir["good"] \in Profiles /\ dir["confirmed"] \in Profiles
      /\ candidate \in Profiles /\ believed \in Profiles
      /\ Absent \in Records /\ Absent \notin Profiles /\ Profiles \subseteq Records
      /\ {"confirmed", "good", "candidate", "guard"} = Names
  BY StoreAssumption DEF DiskInv, DataInv, Names, Records
<1> DEFINE Harmless(n, v) ==
        /\ n \in Names /\ v \in Records /\ Head(child.todo) = Change(n, v)
        /\ n \in {"confirmed", "good"} => v \in Profiles
        /\ n # "candidate" /\ v # Absent => v \in authorised
        /\ n = "guard" /\ v = Absent => Settled /\ dir["confirmed"] \in authorised
        Changed(n, v) ==
        /\ dir'[n] = v
        /\ \A m \in Names : m # n => dir'[m] = dir[m]
<1>3. \A n, v : Harmless(n, v) =>
           Changed(n, v) /\ DiskInv' /\ (Saved' = Saved \/ \E p \in Profiles : Saved' = Saved \cup {p})
  <2> TAKE n, v
  <2> HAVE Harmless(n, v)
  <2>1. n \in Names /\ v \in Records /\ Made(Change(n, v))
    OBVIOUS
  <2>2. \A m \in Names : dir'[m] = (IF m = n THEN v ELSE dir[m])
    BY <2>1, MadeIs
  <2> QED
    BY <2>1, <2>2, GuardedChange
<1>4. \E n, v : Harmless(n, v) /\ (Changed(n, v) => ChildInv')
  <2>1. CASE child.then = "ok" /\ Committing
    <3>1. CASE /\ child.todo = Confirm(believed, candidate)
               /\ dir["confirmed"] = believed /\ dir["candidate"] = candidate
      <4>1. Harmless("guard", believed)
        BY <1>2, <2>1, <3>1, Scripts DEF Committing
      <4>2. ASSUME Changed("guard", believed) PROVE ChildInv'
        BY <1>1, <1>2, <2>1, <3>1, <4>2 DEF ChildInv, Committing
      <4> QED
        BY <4>1, <4>2
    <3>2. CASE /\ child.todo = Tail(Confirm(believed, candidate)) /\ dir["guard"] = believed
      <4>1. Harmless("good", believed)
        BY <1>2, <2>1, <3>2, Scripts DEF Committing
      <4>2. ASSUME Changed("good", believed) PROVE ChildInv'
        BY <1>1, <1>2, <2>1, <3>2, <4>2 DEF ChildInv, Committing
      <4> QED
        BY <4>1, <4>2
    <3>3. CASE /\ child.todo = Tail(Tail(Confirm(believed, candidate)))
               /\ dir["guard"] = believed /\ dir["good"] = believed
      <4>1. Harmless("confirmed", candidate)
        BY <1>2, <2>1, <3>3, Scripts DEF Committing
      <4>2. ASSUME Changed("confirmed", candidate) PROVE ChildInv'
        BY <1>1, <1>2, <2>1, <3>3, <4>2 DEF ChildInv, Committing
      <4> QED
        BY <4>1, <4>2
    <3>4. CASE /\ child.todo = << Change("candidate", Absent), Change("guard", Absent) >>
               /\ dir["guard"] = believed /\ dir["good"] = believed /\ dir["confirmed"] = candidate
      <4>1. Harmless("candidate", Absent)
        BY <1>2, <2>1, <3>4, Scripts DEF Committing
      <4>2. ASSUME Changed("candidate", Absent) PROVE ChildInv'
        BY <1>1, <1>2, <2>1, <3>4, <4>2 DEF ChildInv, Committing
      <4> QED
        BY <4>1, <4>2
    <3>5. CASE /\ child.todo = << Change("guard", Absent) >>
               /\ dir["good"] = believed /\ dir["confirmed"] = candidate
      <4>1. Harmless("guard", Absent)
        BY <1>2, <2>1, <3>5, Scripts DEF Committing
      <4>2. ASSUME Changed("guard", Absent) PROVE ChildInv'
        BY <1>1, <1>2, <2>1, <3>5, <4>2 DEF ChildInv, Committing
      <4> QED
        BY <4>1, <4>2
    <3> QED
      BY <2>1, <3>1, <3>2, <3>3, <3>4, <3>5 DEF Committing
  <2>2. CASE child.then = "uncertain" /\ Reguarding
    <3>1. Harmless("guard", dir["good"])
      BY <1>2, <2>2, Scripts DEF Reguarding
    <3>2. ASSUME Changed("guard", dir["good"]) PROVE ChildInv'
      BY <1>1, <1>2, <2>2, <3>2 DEF ChildInv, Reguarding
    <3> QED
      BY <3>1, <3>2
  <2> QED
    BY <2>1, <2>2 DEF ChildInv
<1> QED
  BY <1>1, <1>3, <1>4, ChildMoves
\* A change of the commit fails: before it is published the store selects the old
\* policy still; the guard that cannot be brought back leaves it uncertain.
LEMMA ChildFailedStep ==
    ASSUME NetInv, child.result = "running", ~child.dirty,
           child' = [child EXCEPT !.result = IF child.then = "ok" THEN "error" ELSE "uncertain"],
           UNCHANGED <<disk, state, knownVars, flagVars, call, cancelled, netVars>>
    PROVE  NetInv'
<1> USE DEF NetInv, knownVars
<1>1. /\ child' \in Commits /\ child'.result = IF child.then = "ok" THEN "error" ELSE "uncertain"
  BY DEF DataInv, Calls, Commits
<1>2. DiskInv'
  BY DiskKept
<1>3. /\ dir["confirmed"] # Absent /\ dir \in [Names -> Records] /\ believed # Absent
      /\ Boot(dir) = IF dir["guard"] # Absent THEN dir["guard"] ELSE dir["confirmed"]
  <2>1. dir["confirmed"] # Absent /\ dir \in [Names -> Records] /\ believed # Absent
    BY StoreAssumption DEF DiskInv, DataInv, Names
  <2> QED
    BY <2>1, BootIs
<1>4. child.then = "ok" => Boot(dir) = believed
  BY <1>3 DEF ChildInv, Committing
<1>5. ChildInv'
  BY <1>1, <1>4 DEF ChildInv, disk
<1> QED
  BY <1>1, <1>2, <1>5, ChildMoves

\* A sync of the commit: the next change, or the end.
LEMMA ChildSyncedStep ==
    ASSUME NetInv, child.result = "running", child.dirty, Synced,
           child' = [Done(child) EXCEPT !.result = IF @ = "ok" THEN child.then ELSE @],
           UNCHANGED <<state, knownVars, flagVars, call, cancelled, netVars>>
    PROVE  NetInv'
<1> USE DEF NetInv, knownVars
<1>1. DiskInv' /\ Settled' /\ UNCHANGED dir
  BY SyncedIs
<1>2. /\ child.todo \in Seq(Changes)
      /\ child.todo # << >> => Tail(child.todo) \in Seq(Changes)
  BY DEF DataInv, Calls, Commits
<1>3. /\ child'.then = child.then /\ child'.dirty = FALSE /\ child'.todo = Tail(child.todo)
      /\ child'.result = IF Len(child.todo) = 1 THEN child.then ELSE "running"
      /\ child.todo # << >> /\ child.then \in {"ok", "uncertain"} => child' \in Commits
  BY <1>2 DEF DataInv, Calls, Commits, Done
<1>4. CASE child.then = "ok" /\ Committing
  <2>1. CASE child.todo = Confirm(believed, candidate) /\ dir["guard"] = believed
             /\ dir["confirmed"] = believed /\ dir["candidate"] = candidate
    <3>1. child'.result = "running" /\ child.todo # << >>
      BY <1>3, <2>1, Scripts DEF Confirm
    <3>2. ChildInv'
      BY <1>1, <1>3, <1>4, <2>1, <3>1 DEF ChildInv, Committing
    <3> QED
      BY <1>1, <1>3, <1>4, <3>1, <3>2, ChildMoves
  <2>2. CASE child.todo = Tail(Confirm(believed, candidate)) /\ dir["guard"] = believed
             /\ dir["good"] = believed
    <3>1. child'.result = "running" /\ child.todo # << >>
      BY <1>3, <2>2, Scripts DEF Confirm
    <3>2. ChildInv'
      BY <1>1, <1>3, <1>4, <2>2, <3>1 DEF ChildInv, Committing
    <3> QED
      BY <1>1, <1>3, <1>4, <3>1, <3>2, ChildMoves
  <2>3. CASE child.todo = Tail(Tail(Confirm(believed, candidate)))
             /\ dir["guard"] = believed /\ dir["good"] = believed /\ dir["confirmed"] = candidate
    <3>1. child'.result = "running" /\ child.todo # << >>
          /\ child'.todo = << Change("candidate", Absent), Change("guard", Absent) >>
      BY <1>3, <2>3, Scripts DEF Confirm
    <3>2. ChildInv'
      BY <1>1, <1>3, <1>4, <2>3, <3>1 DEF ChildInv, Committing
    <3> QED
      BY <1>1, <1>3, <1>4, <3>1, <3>2, ChildMoves
  <2>4. CASE child.todo = << Change("candidate", Absent), Change("guard", Absent) >>
             /\ dir["guard"] = believed /\ dir["good"] = believed /\ dir["confirmed"] = candidate
    <3>1. child'.result = "running" /\ child.todo # << >> /\ child'.todo = << Change("guard", Absent) >>
      BY <1>3, <2>4, Scripts
    <3>2. ChildInv'
      BY <1>1, <1>3, <1>4, <2>4, <3>1 DEF ChildInv, Committing
    <3> QED
      BY <1>1, <1>3, <1>4, <3>1, <3>2, ChildMoves
  <2>5. CASE child.todo = << Change("guard", Absent) >>
             /\ dir["guard"] = Absent /\ dir["confirmed"] = candidate
    <3>1. child'.result = "ok" /\ child.todo # << >>
      BY <1>3, <1>4, <2>5, Scripts
    <3>2. ChildInv'
      BY <1>1, <2>5, <3>1 DEF ChildInv
    <3> QED
      BY <1>1, <1>3, <1>4, <3>1, <3>2, ChildMoves
  <2> QED
    BY <1>4, <2>1, <2>2, <2>3, <2>4, <2>5 DEF Committing
<1>5. CASE child.then = "uncertain" /\ Reguarding
  <2>1. child'.result = "uncertain" /\ child.todo # << >>
    BY <1>3, <1>5, Scripts DEF Reguarding
  <2>2. ChildInv'
    BY <2>1 DEF ChildInv
  <2> QED
    BY <1>1, <1>3, <1>5, <2>1, <2>2, ChildMoves
<1> QED
  BY <1>4, <1>5 DEF ChildInv

\* A sync of the commit fails: the removal of the guard is taken back, anything else is
\* left to the manager.
LEMMA ChildUnsyncedStep ==
    ASSUME NetInv, child.result = "running", child.dirty,
           child' = IF child.todo = << Change("guard", Absent) >> THEN Reguarded(child)
                    ELSE [child EXCEPT !.result = "uncertain"],
           UNCHANGED <<disk, state, knownVars, flagVars, call, cancelled, netVars>>
    PROVE  NetInv'
<1> USE DEF NetInv, knownVars
<1>1. DiskInv'
  BY DiskKept
<1>2. CASE child.todo = << Change("guard", Absent) >>
  <2>1. dir["good"] \in Profiles /\ dir["good"] \in Records /\ dir["good"] # Absent
    BY StoreAssumption DEF DiskInv, Names, Records
  <2>2. child' = [child EXCEPT !.todo = << Change("guard", dir["good"]) >>, !.dirty = FALSE,
                               !.then = "uncertain"]
    BY <1>2 DEF Reguarded
  <2>3. << Change("guard", dir["good"]) >> \in Seq(Changes)
    BY <2>1, ScriptTypes DEF Names
  <2>4. /\ child' \in Commits /\ child'.result = "running" /\ child'.then = "uncertain"
        /\ child'.todo = << Change("guard", dir["good"]) >>
    BY <2>2, <2>3 DEF DataInv, Calls, Commits
  <2>5. child.then = "ok" /\ Committing
    <3>1. << Change("guard", Absent) >> # << Change("guard", dir["good"]) >>
      BY <2>1 DEF Change
    <3> QED
      BY <1>2, <3>1 DEF ChildInv, Reguarding
  <2>6. dir["good"] \in authorised
    <3>1. child.todo # Confirm(believed, candidate) /\ child.todo # Tail(Confirm(believed, candidate))
      BY <1>2, Scripts
    <3> QED
      BY <2>5, <3>1 DEF Committing
  <2>7. ChildInv'
    BY <2>4, <2>6 DEF ChildInv, Reguarding, disk
  <2> QED
    BY <1>1, <2>4, <2>7, ChildMoves
<1>3. CASE child.todo # << Change("guard", Absent) >>
  <2>1. child' \in Commits /\ child'.result = "uncertain"
    BY <1>3 DEF DataInv, Calls, Commits
  <2>2. ChildInv'
    BY <2>1 DEF ChildInv
  <2> QED
    BY <1>1, <2>1, <2>2, ChildMoves
<1> QED
  BY <1>2, <1>3
-----------------------------------------------------------------------------
(* Every step. *)

\* A change of the worker to the store leaves what a power cut may find.
LEMMA CallChangeStep == ASSUME NetInv, CallChange PROVE NetInv' /\ Saved' = Saved
<1>1. CASE Made(Head(call.todo)) /\ call' = [call EXCEPT !.dirty = TRUE]
  BY <1>1, CallMadeStep DEF CallChange
<1>2. CASE call' = [call EXCEPT !.result = "failed"] /\ UNCHANGED disk
  <2>1. NetInv'
    BY <1>2, CallFailedStep DEF CallChange
  <2> QED
    BY <1>2, <2>1 DEF disk, Saved, Images
<1> QED
  BY <1>1, <1>2 DEF CallChange

\* A synchronisation of the worker succeeds or fails.
LEMMA CallSyncStep == ASSUME NetInv, CallSync PROVE NetInv'
  BY CallSyncedStep, CallFailedStep DEF CallSync

\* A change of the commit to the store adds at most one policy to what a power cut may find.
LEMMA ChildChangeStep ==
    ASSUME NetInv, ChildChange
    PROVE  NetInv' /\ (Saved' = Saved \/ \E p \in Profiles : Saved' = Saved \cup {p})
<1>1. CASE Made(Head(child.todo)) /\ child' = [child EXCEPT !.dirty = TRUE]
  BY <1>1, ChildMadeStep DEF ChildChange
<1>2. CASE /\ UNCHANGED disk
           /\ child' = [child EXCEPT !.result = IF child.then = "ok" THEN "error" ELSE "uncertain"]
  <2>1. NetInv'
    BY <1>2, ChildFailedStep DEF ChildChange
  <2> QED
    BY <1>2, <2>1 DEF disk, Saved, Images
<1> QED
  BY <1>1, <1>2 DEF ChildChange

\* A synchronisation of the commit succeeds or fails.
LEMMA ChildSyncStep == ASSUME NetInv, ChildSync PROVE NetInv'
  BY ChildSyncedStep, ChildUnsyncedStep DEF ChildSync

\* Every step of supervisor, worker, commit, application and power keeps the invariant.
LEMMA NetStep == NetInv /\ [Next]_vars => NetInv'
<1> SUFFICES ASSUME NetInv, [Next]_vars PROVE NetInv'
  OBVIOUS
<1>1. CASE UNCHANGED vars
  BY <1>1 DEF vars, disk, knownVars, flagVars, netVars, NetInv, DiskInv, DataInv, PhaseInv,
     CallInv, Aborting, Saving, Discarding, ChildInv, Committing, Reguarding, ManagerInv, Settled
<1>2. ASSUME NEW p \in Profiles, Apply(p) \/ ApplyRefused(p) PROVE NetInv'
  BY <1>2, ApplyStep, ApplyRefusedStep
<1>3. CASE CallChange \/ CallSync \/ ChildChange \/ ChildSync
  BY <1>3, CallChangeStep, CallSyncStep, ChildChangeStep, ChildSyncStep
<1>4. CASE Return
  BY <1>4, RestoreReturnsStep, DiscardReturnsStep, StageReturnsStep, SaveReturnsStep,
     BaselineReturnsStep DEF Return
<1>5. CASE Step
  BY <1>5, GiveUpStep, StepApplyingStep, StepBindingsStep, StepConfirmStep, StepCommittingStep,
     CommitReapedStep, StepCancelledStep, StepRollingBackStep, StepRollbackBindingsStep,
     RollbackOverdueStep DEF Step
<1>6. CASE NetworkWritten \/ AskKeep \/ AskRevert \/ BindingsReady \/ Departs \/ Restarts \/ PowerCut
  BY <1>6, NetworkWrittenStep, AskStep, RestartsStep, PowerCutStep
<1> QED
  BY <1>1, <1>2, <1>3, <1>4, <1>5, <1>6 DEF Next

\* The inductive invariant holds of every behaviour.
THEOREM NetInvariance == Spec => []NetInv
  BY NetInit, NetStep, PTL DEF Spec

-----------------------------------------------------------------------------
(* What follows for the user and for the next boot. *)

\* A power cut at any time leaves one whole policy that the user kept, and worker and
\* commit never change the store at the same time.
THEOREM StoreKept == Spec => []StoreIsKept
<1>1. NetInv => TypeOK
  <2> SUFFICES ASSUME NetInv PROVE TypeOK
    OBVIOUS
  <2>1. \A p \in {call, child} : \A i \in 1..Len(p.todo) : p.todo[i] \in Changes
    <3>1. call.todo \in Seq(Changes) /\ child.todo \in Seq(Changes)
      BY DEF NetInv, DataInv, Calls, Commits
    <3> QED
      BY <3>1
  <2>2. cancelled => child # Idle /\ state = "ROLLING_BACK"
    BY DEF NetInv, PhaseInv
  <2> QED
    BY <2>1, <2>2 DEF NetInv, DiskInv, DataInv, Calls, Commits, TypeOK
<1>2. NetInv => OneWriter
  BY DEF NetInv, PhaseInv, OneWriter, Idle, Busy
<1>3. NetInv => BootsAuthorised
  BY DiskAuthorised DEF NetInv
<1> QED
  BY <1>1, <1>2, <1>3, NetInvariance, PTL DEF StoreIsKept

\* What the user is told of the end of a change is what is saved for good and what the
\* network runs.
THEOREM ToldSaved == Spec => []ToldIsSaved
<1>1. NetInv => ToldIsSaved
  <2> SUFFICES ASSUME NetInv PROVE ToldIsSaved
    OBVIOUS
  <2>1. Settled => Saved = {Boot(dir)}
    BY SettledSaved DEF NetInv
  <2> QED
    BY <2>1 DEF NetInv, ManagerInv, ToldIsSaved, KeptIsSaved, RevertedIsSaved, RevertedIsOld
<1> QED
  BY <1>1, NetInvariance, PTL

\* While the change is staged nothing is added to what the next boot may find.
LEMMA StagingStep ==
    NetInv /\ [Next]_vars => [state = "STAGING" /\ state' # "IDLE" => Saved' \subseteq Saved]_vars
<1> SUFFICES ASSUME NetInv, Next, state = "STAGING", state' # "IDLE" PROVE Saved' \subseteq Saved
  OBVIOUS
<1>1. CASE UNCHANGED disk
  BY <1>1 DEF disk, Saved, Images
<1>2. CASE CallChange
  BY <1>2, CallChangeStep
<1>3. CASE Synced
  <2>1. dir' = dir /\ maybe' = [n \in Names |-> {dir[n]}] /\ \A n \in Names : dir[n] \in maybe[n]
    BY <1>3 DEF Synced, NetInv, DiskInv
  <2>2. Images' \subseteq Images
    BY <2>1 DEF Images
  <2> QED
    BY <2>2 DEF Saved
<1>4. CASE ChildChange \/ ChildSync
  BY <1>4 DEF ChildChange, ChildSync, NetInv, PhaseInv
<1>5. CASE PowerCut
  BY <1>5 DEF PowerCut, Goto
<1> QED
  BY <1>1, <1>2, <1>3, <1>4, <1>5 DEF Next, Apply, ApplyRefused, CallSync, NetworkWritten, Return,
     RestoreReturns, DiscardReturns, StageReturns, SaveReturns, BaselineReturns,
     Step, GiveUp, StepApplying, StepBindings, StepConfirm, StepCommitting, CommitReaped,
     StepCancelled, StepRollingBack, StepRollbackBindings, RollbackOverdue,
     AskKeep, AskRevert, BindingsReady, Departs, Restarts

\* While the candidate is staged nothing is added to what the next boot may find
\* (gateway_network_store_stage).
THEOREM StagingSilent == Spec => StagingIsSilent
  BY NetInvariance, StagingStep, PTL DEF Spec, StagingIsSilent
-----------------------------------------------------------------------------
(* The change implements AtomicChange. *)

\* What the user sees of each state of the manager.
LEMMA ToldIs ==
    /\ state \in Busy => Told = "busy"
    /\ state = "IDLE" => Told = "none"
    /\ state = "KEPT" => Told = "kept"
    /\ state = "REVERTED" => Told = "reverted"
    /\ state = "DURABILITY_UNCERTAIN" => Told = "uncertain"
    /\ state \in {"FAILED", "ROLLBACK_FAILED"} => Told = "failed"
  BY DEF Told, Busy

\* The same after a step.
LEMMA ToldIsNext ==
    /\ state' \in Busy => Told' = "busy"
    /\ state' = "IDLE" => Told' = "none"
    /\ state' = "KEPT" => Told' = "kept"
    /\ state' = "REVERTED" => Told' = "reverted"
    /\ state' = "DURABILITY_UNCERTAIN" => Told' = "uncertain"
    /\ state' \in {"FAILED", "ROLLBACK_FAILED"} => Told' = "failed"
  BY DEF Told, Busy

\* One settled policy is found by every boot, and the one a reader sees always may be.
LEMMA BootSaved ==
    /\ NetInv => Boot(dir) \in Saved /\ Boot(dir) \in Profiles
    /\ NetInv /\ Settled => Saved = {Boot(dir)}
<1>1. ASSUME NetInv PROVE Boot(dir) \in Saved /\ Boot(dir) \in Profiles
  <2>1. dir["confirmed"] # Absent /\ dir \in [Names -> Records]
    BY <1>1, StoreAssumption DEF NetInv, DiskInv, Names
  <2>2. dir \in Images
    BY <1>1 DEF NetInv, DiskInv, Images
  <2> QED
    BY <2>1, <2>2, BootIs DEF Saved
<1> QED
  BY <1>1, SettledSaved DEF NetInv

\* The same after a step.
LEMMA BootSavedNext ==
    /\ NetInv' => Boot(dir') \in Saved' /\ Boot(dir') \in Profiles
    /\ NetInv' /\ Settled' => Saved' = {Boot(dir')}
<1>1. /\ NetInv => Boot(dir) \in Saved /\ Boot(dir) \in Profiles
      /\ NetInv /\ Settled => Saved = {Boot(dir)}
  BY BootSaved
<1>2. (/\ NetInv => Boot(dir) \in Saved /\ Boot(dir) \in Profiles
       /\ NetInv /\ Settled => Saved = {Boot(dir)})'
  BY <1>1, PTL
<1> QED
  BY <1>2

\* Every step is a step of AtomicChange or leaves what it promises as it is.
LEMMA AtomicStep == NetInv /\ NetInv' /\ [Next]_vars => [Atomic!Next]_<<Saved, Told>>
<1> SUFFICES ASSUME NetInv, NetInv', [Next]_vars
             PROVE  Atomic!Next \/ (Saved' = Saved /\ Told' = Told)
  OBVIOUS
<1> USE DEF Atomic!Next
<1>1. CASE UNCHANGED disk
  <2>1. Saved' = Saved
    BY <1>1 DEF disk, Saved, Images
  <2>2. CASE state' \in Busy
    BY <2>1, <2>2, ToldIsNext DEF Atomic!Begin
  <2>3. CASE state' = "IDLE"
    BY <2>1, <2>3, ToldIsNext DEF Atomic!Restart
  <2>4. CASE state' \in {"DURABILITY_UNCERTAIN", "FAILED", "ROLLBACK_FAILED"}
    BY <2>1, <2>4, ToldIsNext DEF Atomic!End
  <2>5. CASE state' \in {"KEPT", "REVERTED"}
    <3>1. Settled'
      BY <2>5 DEF NetInv, ManagerInv
    <3>2. Saved = {Boot(dir')} /\ Boot(dir') \in Profiles
      BY <2>1, <3>1, BootSavedNext
    <3>3. Atomic!Sure
      BY <3>2 DEF Atomic!Sure
    <3> QED
      BY <2>1, <2>5, <3>3, ToldIsNext DEF Atomic!End
  <2> QED
    BY <2>2, <2>3, <2>4, <2>5 DEF NetInv, DataInv, States
<1>2. CASE (CallSync \/ ChildSync) /\ Synced
  <2>1. Saved' = {Boot(dir)} /\ Boot(dir) \in Saved
    <3>1. Settled' /\ dir' = dir
      BY <1>2, SyncedIs DEF CallSync, ChildSync, knownVars
    <3> QED
      BY <3>1, BootSaved, BootSavedNext
  <2>2. state \in Busy /\ state' = state
    BY <1>2 DEF CallSync, ChildSync, NetInv, PhaseInv, Busy, Idle
  <2> QED
    BY <2>1, <2>2, ToldIs, ToldIsNext DEF Atomic!Settle
<1>3. CASE CallChange
  <2>1. Saved' = Saved /\ state' = state
    BY <1>3, CallChangeStep DEF CallChange
  <2> QED
    BY <2>1 DEF Told
<1>4. CASE ChildChange
  <2>1. state \in Busy /\ state' = state
    BY <1>4 DEF ChildChange, NetInv, PhaseInv, Busy
  <2>2. CASE Saved' = Saved
    BY <2>1, <2>2, ToldIs, ToldIsNext
  <2>3. CASE \E p \in Profiles : Saved' = Saved \cup {p}
    BY <2>1, <2>3, ToldIs, ToldIsNext DEF Atomic!Publish
  <2> QED
    BY <1>4, <2>2, <2>3, ChildChangeStep
<1>5. CASE PowerCut
  <2>1. dir' \in Images /\ Settled' /\ state' = "IDLE"
    BY <1>5 DEF PowerCut, Cut, Settled, Goto
  <2>2. Boot(dir') \in Saved /\ Saved' = {Boot(dir')}
    BY <2>1, BootSavedNext DEF Saved
  <2> QED
    BY <2>1, <2>2, ToldIsNext DEF Atomic!PowerCut
<1> QED
  BY <1>1, <1>2, <1>3, <1>4, <1>5 DEF Next, vars, Apply, ApplyRefused, CallSync, ChildSync,
     NetworkWritten,
     Return, RestoreReturns, DiscardReturns, StageReturns, SaveReturns, BaselineReturns,
     Step, GiveUp, StepApplying, StepBindings, StepConfirm, StepCommitting, CommitReaped,
     StepCancelled, StepRollingBack, StepRollbackBindings, RollbackOverdue,
     AskKeep, AskRevert, BindingsReady, Departs, Restarts

\* To power cuts and to the user a change of the network policy is atomic.
THEOREM ChangeIsAtomic == Spec => IsAtomic
<1>1. Init => Atomic!Init
  <2> SUFFICES ASSUME Init PROVE Atomic!Init
    OBVIOUS
  <2>1. NetInv
    BY NetInit
  <2>2. Settled
    BY DEF Init, Adopted, Settled
  <2>3. Saved = {Boot(dir)} /\ Boot(dir) \in Profiles
    BY <2>1, <2>2, BootSaved
  <2> QED
    BY <2>3, ToldIs DEF Init, Atomic!Init, Atomic!Sure
<1>2. NetInv /\ NetInv' /\ [Next]_vars => [Atomic!Next]_<<Saved, Told>>
  BY AtomicStep
<1> QED
  BY <1>1, <1>2, NetInvariance, PTL DEF Spec, IsAtomic, Atomic!Spec
=============================================================================
