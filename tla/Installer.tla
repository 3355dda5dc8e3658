----------------------------- MODULE Installer -----------------------------
(* The installer's transaction (installer/install_transaction.c), the two    *)
(* journal slots and the decisions around them (install_orchestrator.c), and *)
(* the boot entries that resume it (main.c, install_target.c).               *)
(*                                                                           *)
(* One process at a time holds the installer's lock.  It publishes one file  *)
(* at a time; a publication is atomic, but it may fail either before or      *)
(* after the new file is in place.  Power may be lost between any two steps, *)
(* and the compact flash is mounted late in a boot or not at all.  The       *)
(* application or an operator may edit a settings file at any moment.        *)
EXTENDS Naturals, Sequences, FiniteSets, SequencesExt

CONSTANTS Members,      \* the plan's paths, in the order of the plan
          NetworkGate,  \* S40networking: guards the early boot
          AppGate,      \* the application's boot script
          OnCf,         \* members on the compact flash
          Settings,     \* members that keep what is already there
          Packages,     \* versions that may be installed
          MaxInstalls,
          MaxTroubles,  \* power losses, deaths and failed steps together
          MaxEdits

Gates == {NetworkGate, AppGate}
Paths == ToSet(Members)
Contents == {"original", "gate", "edited"} \cup Packages

ASSUME InstallerAssumption ==
    /\ Members \in Seq(Paths) /\ IsInjective(Members)
    /\ Gates \cup OnCf \cup Settings \subseteq Paths
    /\ Gates \cap (OnCf \cup Settings) = {}
    /\ {MaxInstalls, MaxTroubles, MaxEdits} \subseteq Nat

VARIABLES root,      \* the installed files
          slots,     \* per slot: the journal and the markers beside it
          active,    \* the slot the boot scripts recover, or None
          cf,        \* is the compact flash mounted
          power,     \* how far the boot is: "rcS", "rc3", "up"
          running,   \* the application runs
          proc,      \* the process that holds the lock
          edited,    \* members edited since the active plan was made
          used       \* counters that bound the environment

vars == <<root, slots, active, cf, power, running, proc, edited, used>>

None == "none"
NoPlan == <<>>
Slots == {"slot0", "slot1"}
EmptySlot == [journal |-> NoPlan, cutover |-> NoPlan, completed |-> NoPlan,
              rolledBack |-> NoPlan]
Idle == [at |-> "idle", todo |-> {}, slot |-> "slot0", plan |-> NoPlan,
         cut |-> FALSE, pending |-> FALSE, then |-> None, package |-> None]

\* A loop over an order, at the first of what is left to do.
First(order, todo) == order[Min({i \in DOMAIN order : order[i] \in todo})]

\* install_file_equal over a whole plan: `matches'.
Matches(image) == \A m \in Paths : root[m] = image[m]
Changed(plan) == {m \in Paths : plan.before[m] # plan.after[m]}

\* `matches_after_gate': the gates are in place and nothing else has moved.
MatchesAfterGate(plan) ==
    \A m \in Paths : root[m] = IF m \in Gates THEN plan.after[m] ELSE plan.before[m]

\* `marked': 1, 0 or -1 for a marker that belongs to another journal.
Marked(slot, name) ==
    CASE slots[slot][name] = NoPlan -> 0
      [] slots[slot][name] = slots[slot].journal -> 1
      [] OTHER -> 0 - 1

\* install_transaction_status, and the decision of _recover.
Status(slot) ==
    LET c == Marked(slot, "completed")
        r == Marked(slot, "rolledBack")
    IN  CASE slots[slot].journal = NoPlan -> "unchanged"
          [] slots[slot].journal # NoPlan /\ (c < 0 \/ r < 0 \/ (c = 1 /\ r = 1)) ->
                 "recovery_required"
          [] slots[slot].journal # NoPlan /\ c = 1 /\ r = 0 -> "completed"
          [] slots[slot].journal # NoPlan /\ c = 0 /\ r = 1 -> "rolled_back"
          [] OTHER -> "unfinished"

\* A faulty step draws on the budget of troubles, a good one leaves it alone.
Fault == used.troubles < MaxTroubles /\ used' = [used EXCEPT !.troubles = @ + 1]
NoFault == UNCHANGED used

\* A stop of the services that fails may have stopped the application, a start
\* that fails may have left it running; one that succeeds leaves no doubt.
StopFails == Fault /\ running' \in {FALSE, running}
StartFails == Fault /\ running' \in {TRUE, running}

At(step) == proc.at = step
InEntry == proc.then \in {"network", "start", "stop"}
Plan == slots[proc.slot].journal

-----------------------------------------------------------------------------
(* Restoring.                                                                *)

\* Fault: what an operator edited before the cutover is written over.
RestoresAll(plan, cut, flash, m) == flash \/ m \notin OnCf \cup Gates

\* Fault: the gates are restored although the flash is not.
RestoresGates(plan, cut, flash, m) ==
    (cut \/ m \in Gates) /\ (flash \/ m \notin OnCf) /\ plan.before[m] # plan.after[m]

\* Whether `restore' publishes a member: before the cutover only gates; on an
\* absent flash nothing, nor the gates that must go on guarding it; and
\* nothing the plan does not change.
Restores(plan, cut, flash, m) ==
    /\ cut \/ m \in Gates
    /\ flash \/ ~cut \/ m \notin OnCf \cup Gates
    /\ m \in Changed(plan)

\* The members a restore publishes.
RestoreSet(plan, cut, flash) == {m \in Paths : Restores(plan, cut, flash, m)}

\* Fault: in the order of the plan.
FirstInOrder(todo) == First(Members, todo)

\* The second pass of the loop is for the gates: they come last.
FirstToRestore(todo) == First(Members, IF todo \subseteq Gates THEN todo ELSE todo \ Gates)

\* The process gives up its lock with a result, or goes on with what asked
\* for the recovery.
Finish(result) ==
    LET terminal == result \in {"completed", "rolled_back"}
    IN  \/ /\ proc.then = "install" /\ terminal
           /\ proc' = [Idle EXCEPT !.at = "retire", !.package = proc.package,
                                   !.slot = CHOOSE s \in Slots : s # proc.slot]
           /\ UNCHANGED running
        \/ /\ proc.then = "start" /\ terminal /\ cf
           /\ proc' = Idle
           /\ running' \in {TRUE, running}          \* start_application may fail
        \/ /\ proc.then = "stop" /\ terminal /\ cf
           /\ proc' = Idle
           /\ running' \in {FALSE, running}
        \/ /\ ~ (proc.then = "install" /\ terminal)
           /\ ~ (proc.then \in {"start", "stop"} /\ terminal /\ cf)
           /\ proc' = Idle
           /\ UNCHANGED running

\* Recovery is required: the lock is given up with the journal as it is.
GiveUp == proc' = Idle /\ UNCHANGED running

\* install_transaction_recover.
Recover ==
    /\ At("recover")
    /\ \/ /\ Status(proc.slot) # "unfinished"
          /\ Finish(Status(proc.slot))
       \/ /\ Status(proc.slot) = "unfinished"
          /\ proc' = [proc EXCEPT !.at = "restore"]
          /\ UNCHANGED running
    /\ UNCHANGED <<root, slots, active, cf, power, edited, used>>

\* restore, up to its loop: the services stop before anything is written.
RestoreStop ==
    /\ At("restore")
    /\ LET cut == Marked(proc.slot, "cutover")
       IN  \/ /\ NoFault /\ cut >= 0
              /\ running' = FALSE
              /\ proc' = [proc EXCEPT !.at = "restoring",
                            !.todo = RestoreSet(Plan, cut = 1, cf), !.cut = (cut = 1),
                            !.pending = cut = 1 /\ ~cf]
           \/ /\ NoFault /\ cut < 0
              /\ GiveUp
           \/ /\ StopFails
              /\ proc' = Idle
    /\ UNCHANGED <<root, slots, active, cf, power, edited>>

\* One pass of the loop: a before-image is published.
RestoreMember ==
    /\ At("restoring") /\ proc.todo # {}
    /\ LET m == FirstToRestore(proc.todo)
           restored == [root EXCEPT ![m] = Plan.before[m]]
       IN  \/ /\ NoFault /\ root' = restored
              /\ proc' = [proc EXCEPT !.todo = @ \ {m}]
              /\ UNCHANGED running
           \/ /\ Fault /\ root' \in {root, restored}
              /\ GiveUp
    /\ UNCHANGED <<slots, active, cf, power, edited>>

\* Fault: what is pending is taken for done.
RestoreEndAtOnce ==
    /\ At("restoring") /\ proc.todo = {}
    /\ NoFault /\ UNCHANGED running
    /\ proc' = [proc EXCEPT !.at = "mark"]
    /\ UNCHANGED <<root, slots, active, cf, power, edited>>

\* After the loop: wait for the flash, or compare, start the old services
\* (a boot entry starts none) and verify.
RestoreEnd ==
    /\ At("restoring") /\ proc.todo = {}
    /\ \/ /\ proc.pending
          /\ NoFault /\ Finish("wait_cf")
       \/ /\ ~proc.pending
          /\ proc.cut => Matches(Plan.before)
          /\ NoFault
          /\ running' = (running \/ (Plan.running /\ ~InEntry))
          /\ proc' = [proc EXCEPT !.at = "mark"]
       \/ /\ ~proc.pending /\ proc.cut /\ ~Matches(Plan.before)
          /\ NoFault /\ GiveUp
       \/ /\ ~proc.pending
          /\ IF Plan.running /\ ~InEntry THEN StartFails ELSE Fault /\ UNCHANGED running
          /\ proc' = Idle
    /\ UNCHANGED <<root, slots, active, cf, power, edited>>

RestoreMark ==
    /\ At("mark")
    /\ LET marked == [slots EXCEPT ![proc.slot].rolledBack = Plan]
       IN  \/ /\ NoFault /\ slots' = marked
              /\ Finish("rolled_back")
           \/ /\ Fault /\ slots' \in {slots, marked}
              /\ GiveUp
    /\ UNCHANGED <<root, active, cf, power, edited>>

-----------------------------------------------------------------------------
(* Installing.                                                               *)

\* Fault: the active file is not looked for.
InstallOverActive(package) ==
    /\ At("idle") /\ power = "up" /\ cf /\ used.installs < MaxInstalls
    /\ used' = [used EXCEPT !.installs = @ + 1]
    /\ proc' = [Idle EXCEPT !.at = "recover", !.slot = active, !.package = package]
    /\ UNCHANGED <<root, slots, active, cf, power, running, edited>>

\* install_orchestrate: a transaction that is still active is recovered
\* first, the other slot is used next.
Install(package) ==
    /\ At("idle") /\ power = "up" /\ cf /\ used.installs < MaxInstalls
    /\ used' = [used EXCEPT !.installs = @ + 1]
    /\ proc' = IF active = None
               THEN [Idle EXCEPT !.at = "retire", !.package = package]
               ELSE [Idle EXCEPT !.at = "recover", !.slot = active,
                                 !.then = "install", !.package = package]
    /\ UNCHANGED <<root, slots, active, cf, power, running, edited>>

\* retire_slot: an unfinished journal is disposed of only while every
\* before-image still matches; an unknown file in the slot refuses as well.
Retirable(slot) ==
    \/ Status(slot) \in {"unchanged", "completed", "rolled_back"}
    \/ Status(slot) = "unfinished" /\ Matches(slots[slot].journal.before)

\* Fault: the markers go first.
RetireMarkersFirst == <<"completed", "rolledBack", "cutover", "journal">>

\* The files of a slot in the order they are removed: the journal first.
RetireOrder == <<"journal", "cutover", "rolledBack", "completed">>

Retire ==
    /\ At("retire")
    /\ \/ /\ Retirable(proc.slot) /\ NoFault
          /\ proc' = [proc EXCEPT !.at = "retiring", !.todo = ToSet(RetireOrder)]
       \/ /\ IF Retirable(proc.slot) THEN Fault ELSE NoFault
          /\ proc' = Idle
    /\ UNCHANGED <<root, slots, active, cf, power, running, edited>>

RetireFile ==
    /\ At("retiring") /\ proc.todo # {}
    /\ LET name == First(RetireOrder, proc.todo)
           removed == [slots EXCEPT ![proc.slot][name] = NoPlan]
       IN  \/ /\ NoFault /\ slots' = removed
              /\ proc' = [proc EXCEPT !.todo = @ \ {name}]
           \/ /\ Fault /\ slots' \in {slots, removed}
              /\ proc' = Idle
    /\ UNCHANGED <<root, active, cf, power, running, edited>>

\* What the package makes of a member: a gate, the settings that are there,
\* or the new content.
After(package) ==
    [m \in Paths |-> CASE m \in Gates -> "gate"
                       [] m \in Settings /\ root[m] # "original" -> root[m]
                       [] OTHER -> package]

\* `plan' and the decision: an equal set whose services are healthy is left
\* alone, an equal set that is not is repaired by a transaction; what the plan
\* does not know how to change is refused.
MakePlan ==
    /\ At("retiring") /\ proc.todo = {}
    /\ LET plan == [before |-> root, after |-> After(proc.package),
                    running |-> running]
       IN  \/ NoFault /\ proc' = [proc EXCEPT !.at = "journal", !.plan = plan]
           \/ NoFault /\ Changed(plan) = {} /\ running /\ proc' = Idle
           \/ Fault /\ proc' = Idle
    /\ UNCHANGED <<root, slots, active, cf, power, running, edited>>

\* install_transaction_run: the installed set must still be the plan's.
PublishJournal ==
    /\ At("journal")
    /\ LET published == [slots EXCEPT ![proc.slot].journal = proc.plan]
       IN  \/ /\ ~Matches(proc.plan.before)
              /\ NoFault /\ UNCHANGED slots
              /\ proc' = Idle
           \/ /\ Matches(proc.plan.before)
              /\ NoFault /\ slots' = published
              /\ proc' = [proc EXCEPT !.at = "active"]
           \/ /\ Matches(proc.plan.before)
              /\ Fault /\ slots' \in {slots, published}
              /\ proc' = Idle
    /\ UNCHANGED <<root, active, cf, power, running, edited>>

\* `gate': first the slot is made active ...
PublishActive ==
    /\ At("active")
    /\ \/ /\ NoFault /\ active' = proc.slot
          /\ proc' = [proc EXCEPT !.at = "gates", !.todo = Gates]
       \/ /\ Fault /\ active' \in {active, proc.slot}
          /\ proc' = Idle
    /\ edited' = IF active' = active THEN edited
                 ELSE {m \in Paths : root[m] # proc.plan.before[m]}
    /\ UNCHANGED <<root, slots, cf, power, running>>

\* ... then every gate is published; a failure leaves it to a recovery.
PublishGate ==
    /\ At("gates") /\ proc.todo # {}
    /\ LET m == First(Members, proc.todo)
           gated == [root EXCEPT ![m] = proc.plan.after[m]]
       IN  \/ /\ NoFault /\ root' = gated
              /\ proc' = [proc EXCEPT !.todo = @ \ {m}]
           \/ /\ Fault /\ root' \in {root, gated}
              /\ proc' = Idle
    /\ UNCHANGED <<slots, active, cf, power, running, edited>>

Rollback == proc' = [proc EXCEPT !.at = "restore", !.then = None, !.plan = NoPlan]

\* The set is compared, and the services stop.
StopServices ==
    /\ At("gates") /\ proc.todo = {}
    /\ \/ /\ MatchesAfterGate(proc.plan) /\ NoFault
          /\ running' = FALSE
          /\ proc' = [proc EXCEPT !.at = "recheck"]
       \/ /\ MatchesAfterGate(proc.plan) /\ StopFails
          /\ Rollback
       \/ /\ ~MatchesAfterGate(proc.plan) /\ NoFault
          /\ UNCHANGED running
          /\ Rollback
    /\ UNCHANGED <<root, slots, active, cf, power, edited>>

\* The set is compared again, now that nothing of ours can write to it.
Recheck ==
    /\ At("recheck")
    /\ IF MatchesAfterGate(proc.plan)
       THEN proc' = [proc EXCEPT !.at = "cutover"]
       ELSE Rollback
    /\ UNCHANGED <<root, slots, active, cf, power, running, edited, used>>

Cutover ==
    /\ At("cutover")
    /\ LET marked == [slots EXCEPT ![proc.slot].cutover = Plan]
       IN  \/ /\ NoFault /\ slots' = marked
              /\ proc' = [proc EXCEPT !.at = "publish", !.todo = Changed(Plan)]
           \/ /\ Fault /\ slots' \in {slots, marked}
              /\ Rollback
    /\ UNCHANGED <<root, active, cf, power, running, edited>>

PublishMember ==
    /\ At("publish") /\ proc.todo # {}
    /\ LET m == First(Members, proc.todo)
           published == [root EXCEPT ![m] = proc.plan.after[m]]
       IN  \/ /\ NoFault /\ root' = published
              /\ proc' = [proc EXCEPT !.todo = @ \ {m}]
           \/ /\ Fault /\ root' \in {root, published}
              /\ Rollback
    /\ UNCHANGED <<slots, active, cf, power, running, edited>>

\* The whole new set is in place: the services start and are verified.
Activate ==
    /\ At("publish") /\ proc.todo = {}
    /\ \/ /\ Matches(proc.plan.after) /\ NoFault
          /\ running' = TRUE
          /\ proc' = [proc EXCEPT !.at = "verify"]
       \/ /\ ~Matches(proc.plan.after) /\ NoFault
          /\ UNCHANGED running /\ Rollback
       \/ /\ Matches(proc.plan.after) /\ StartFails
          /\ Rollback
    /\ UNCHANGED <<root, slots, active, cf, power, edited>>

\* Once `completed' may be durable no rollback races it.
Complete ==
    /\ At("verify")
    /\ LET marked == [slots EXCEPT ![proc.slot].completed = Plan]
       IN  \/ /\ NoFault /\ slots' = marked /\ proc' = Idle
           \/ /\ Fault /\ slots' \in {slots, marked} /\ proc' = Idle
           \/ /\ Fault /\ UNCHANGED slots /\ Rollback      \* verify failed
    /\ UNCHANGED <<root, active, cf, power, running, edited>>

-----------------------------------------------------------------------------
(* The boot, the entries and the environment.                                *)

\* install_recover_entry, up to the recovery: a gate leads here.
EnterWith(then) ==
    proc' = IF active = None THEN Idle
            ELSE [Idle EXCEPT !.at = "recover", !.slot = active, !.then = then]

\* rcS: the gate recovers with what flash there is; the vendor's script knows
\* nothing of the installer.
BootNetwork ==
    /\ At("idle") /\ power = "rcS" /\ power' = "rc3"
    /\ IF root[NetworkGate] = "gate" THEN EnterWith("network") ELSE UNCHANGED proc
    /\ UNCHANGED <<root, slots, active, cf, running, edited, used>>

\* rc3: the gate has waited for the flash; the script it replaces starts the
\* application whatever the set is.
BootApplication ==
    /\ At("idle") /\ power = "rc3" /\ power' = "up"
    /\ IF root[AppGate] = "gate"
       THEN EnterWith("start") /\ UNCHANGED running
       ELSE UNCHANGED proc /\ running' = cf
    /\ UNCHANGED <<root, slots, active, cf, edited, used>>

\* The operator's own use of the script: a start or a stop.
ApplicationEntry(then) ==
    /\ At("idle") /\ power = "up" /\ root[AppGate] = "gate" /\ active # None
    /\ EnterWith(then)
    /\ UNCHANGED <<root, slots, active, cf, power, running, edited, used>>

\* recovery --recover (install_recover_only).
RecoverOnly ==
    /\ At("idle") /\ power = "up" /\ active # None
    /\ proc' = [Idle EXCEPT !.at = "recover", !.slot = active, !.then = "only"]
    /\ UNCHANGED <<root, slots, active, cf, power, running, edited, used>>

MountCf ==
    /\ ~cf /\ power # "rcS" /\ cf' = TRUE
    /\ UNCHANGED <<root, slots, active, power, running, proc, edited, used>>

\* Power is lost, or only the installer's process dies.
PowerLoss ==
    /\ used.troubles < MaxTroubles /\ used' = [used EXCEPT !.troubles = @ + 1]
    /\ proc' = Idle /\ running' = FALSE /\ cf' = FALSE /\ power' = "rcS"
    /\ UNCHANGED <<root, slots, active, edited>>

ProcessDies ==
    /\ used.troubles < MaxTroubles /\ used' = [used EXCEPT !.troubles = @ + 1]
    /\ ~At("idle") /\ proc' = Idle
    /\ UNCHANGED <<root, slots, active, cf, power, running, edited>>

\* The application saves its configuration, or an operator edits a file.
Edit(m) ==
    /\ used.edits < MaxEdits /\ used' = [used EXCEPT !.edits = @ + 1]
    /\ root' = [root EXCEPT ![m] = "edited"] /\ edited' = edited \cup {m}
    /\ UNCHANGED <<slots, active, cf, power, running, proc>>

Init ==
    /\ root = [m \in Paths |-> "original"]
    /\ slots = [s \in Slots |-> EmptySlot]
    /\ active = None /\ cf = TRUE /\ power = "up" /\ running \in BOOLEAN
    /\ proc = Idle /\ edited = {}
    /\ used = [installs |-> 0, troubles |-> 0, edits |-> 0]

InstallerStep ==
    \/ Recover \/ RestoreStop \/ RestoreMember \/ RestoreEnd \/ RestoreMark
    \/ Retire \/ RetireFile \/ MakePlan \/ PublishJournal \/ PublishActive
    \/ PublishGate \/ StopServices \/ Recheck \/ Cutover \/ PublishMember
    \/ Activate \/ Complete

Next ==
    \/ InstallerStep \/ BootNetwork \/ BootApplication \/ RecoverOnly
    \/ \E package \in Packages : Install(package)
    \/ \E then \in {"start", "stop"} : ApplicationEntry(then)
    \/ MountCf \/ PowerLoss \/ ProcessDies
    \/ \E m \in Settings : Edit(m)

\* A running installer and a boot go on; the flash is mounted in the end; and
\* whoever finds the device not recovered asks for the recovery again.
Fairness ==
    /\ WF_vars(InstallerStep) /\ WF_vars(BootNetwork) /\ WF_vars(BootApplication)
    /\ WF_vars(MountCf) /\ SF_vars(RecoverOnly)

Spec == Init /\ [][Next]_vars
FairSpec == Spec /\ Fairness

-----------------------------------------------------------------------------
(* Properties.                                                               *)

TypeOK ==
    /\ root \in [Paths -> Contents]
    /\ DOMAIN slots = Slots /\ active \in Slots \cup {None}
    /\ {cf, running} \subseteq BOOLEAN /\ power \in {"rcS", "rc3", "up"}
    /\ proc.slot \in Slots /\ edited \subseteq Settings

\* The members, gates aside, form one side of the active plan; a member that
\* was edited since is its editor's.
OneSide ==
    \/ active = None
    \/ \E side \in {slots[active].journal.before, slots[active].journal.after} :
          \A m \in Paths \ (Gates \cup edited) : root[m] = side[m]

\* Hazard: power is lost between two publications, the flash comes late, a
\* gate is already restored.  The application never runs on half an
\* installation, by whichever script, entry or rollback it was started.
RunsWholeSet == running => OneSide

\* Hazard: a boot finds half an installation and the script it starts knows
\* nothing of it.  A mixed set is guarded by every gate, and by an active
\* journal that is past its cutover and not terminal.
MixedIsGuarded ==
    ~OneSide => /\ \A g \in Gates : root[g] = "gate"
                /\ Status(active) = "unfinished" /\ Marked(active, "cutover") = 1

\* Hazard: a crash while a slot is recycled, or between the journal and the
\* active file, leaves a slot no later installation can use, or the active
\* slot without its journal.  The next transaction can always begin: the
\* inactive slots are retirable but for edited files, markers belong to their
\* journal and are never both terminal.
SlotsUsable ==
    /\ TypeOK
    /\ active # None => slots[active].journal # NoPlan
    /\ \A s \in Slots :
          /\ \/ slots[s].journal = NoPlan
             \/ Status(s) # "recovery_required" /\ Marked(s, "cutover") >= 0
          /\ (s # active /\ Status(s) = "unfinished") =>
                \A m \in Paths \ edited : root[m] = slots[s].journal.before[m]

\* Hazard: an installation is refused because a file was edited under it, and
\* the rollback then writes a stale image over the edit.  The installer writes
\* no file but a gate unless the active journal's cutover is durable.
EditsSurviveRefusal ==
    [][\A m \in Paths \ Gates :
          (root'[m] # root[m] /\ edited' = edited) => Marked(active, "cutover") = 1]_vars

\* Hazard: an interrupted installation is never resolved.  Whatever was
\* interrupted, the installed set becomes whole again once the faults stop.
MixedIsHealed == ~OneSide ~> OneSide

=============================================================================
