--------------------------- MODULE InstallerProofs ---------------------------
(***************************************************************************)
(* Theorems about Installer, for every plan of members, every number of    *)
(* installations, troubles and edits.  They rest on InstallerAssumption    *)
(* only.                                                                   *)
(***************************************************************************)
EXTENDS Installer, SequenceTheorems, WellFoundedInduction, TLAPS

-----------------------------------------------------------------------------
(* The inductive invariant: the types. *)

PlanType == [before: [Paths -> Contents], after: [Paths -> Contents], running: BOOLEAN]

FileType == PlanType \cup {NoPlan}

SlotType == [journal: FileType, cutover: FileType, completed: FileType, rolledBack: FileType]

Files == {"journal", "cutover", "completed", "rolledBack"}

Recovering == {"recover", "restore", "restoring", "mark"}
Preparing == {"retire", "retiring", "journal", "active"}
Applying == {"gates", "recheck", "cutover", "publish", "verify"}

ProcType ==
    [at: {"idle"} \cup Recovering \cup Preparing \cup Applying, todo: SUBSET (Paths \cup Files),
     slot: Slots, plan: FileType, cut: BOOLEAN, pending: BOOLEAN,
     then: {None, "install", "network", "start", "stop", "only"}, package: Packages \cup {None}]

TypeInv ==
    /\ root \in [Paths -> Contents] /\ slots \in [Slots -> SlotType]
    /\ active \in Slots \cup {None} /\ cf \in BOOLEAN /\ running \in BOOLEAN
    /\ power \in {"rcS", "rc3", "up"} /\ proc \in ProcType /\ edited \in SUBSET Settings

-----------------------------------------------------------------------------
(* The inductive invariant: the installed files and the slots. *)

Journal(s) == slots[s].journal

Unfinished(s) ==
    /\ Journal(s) # NoPlan /\ slots[s].completed = NoPlan /\ slots[s].rolledBack = NoPlan

Terminal(s) ==
    /\ Journal(s) # NoPlan
    /\ \/ slots[s].completed = Journal(s) /\ slots[s].rolledBack = NoPlan
       \/ slots[s].completed = NoPlan /\ slots[s].rolledBack = Journal(s)

IsCut(s) == Journal(s) # NoPlan /\ slots[s].cutover = Journal(s)

\* A journal's markers are its own, and it has one end at most; what it makes of a gate.
SlotOK(s) ==
    Journal(s) # NoPlan =>
        /\ slots[s].cutover \in {NoPlan, Journal(s)}
        /\ Unfinished(s) \/ Terminal(s)
        /\ \A g \in Gates : Journal(s).after[g] = "gate"

\* The members that are neither gates nor edited.
Ours == Paths \ (Gates \cup edited)

IsBefore(plan) == \A m \in Ours : root[m] = plan.before[m]
IsAfter(plan) == \A m \in Ours : root[m] = plan.after[m]
IsMixed(plan) == \A m \in Ours : root[m] \in {plan.before[m], plan.after[m]}
Gated == \A g \in Gates : root[g] = "gate"

\* What is installed, by the journal of the active slot.
ActiveInv ==
    active # None =>
        /\ Journal(active) # NoPlan
        /\ Terminal(active) => IsBefore(Journal(active)) \/ IsAfter(Journal(active))
        /\ Unfinished(active) /\ ~IsCut(active) => IsBefore(Journal(active))
        /\ Unfinished(active) /\ IsCut(active) =>
              /\ IsMixed(Journal(active))
              /\ Gated \/ IsBefore(Journal(active))

\* A slot that is not active waits for the one that is, and nothing has moved since.
OthersInv ==
    \A s \in Slots : s # active /\ Unfinished(s) =>
        /\ active = None \/ Terminal(active)
        /\ \A m \in Paths \ edited : root[m] = Journal(s).before[m]

\* Before the first transaction only the first slot is used.
FirstInv == active = None => Journal("slot1") = NoPlan

\* The edits before a cutover are still there.
EditsInv ==
    active = None \/ ~IsCut(active) => \A m \in edited : root[m] = "edited"

RunInv == running => OneSide

FilesInv ==
    /\ \A s \in Slots : SlotOK(s)
    /\ ActiveInv /\ OthersInv /\ FirstInv /\ EditsInv

DiskInv == FilesInv /\ RunInv

-----------------------------------------------------------------------------
(* The inductive invariant: the process that holds the lock. *)

\* A recovery works on the active slot.
RecoveringInv ==
    /\ proc.at \in Recovering =>
          active = proc.slot /\ (proc.then = "install" => proc.package \in Packages)
    /\ proc.at \in {"restore", "restoring", "mark"} => Unfinished(active)
    /\ proc.at \in {"restoring", "mark"} => (proc.cut <=> IsCut(active))
    /\ proc.at = "restoring" =>
          /\ ~running /\ proc.todo \subseteq Paths
          /\ ~proc.cut => proc.todo \subseteq Gates /\ ~proc.pending
          /\ proc.pending => proc.todo \cap Gates = {}
          /\ proc.cut /\ ~proc.pending =>
                \A m \in Ours \ proc.todo : root[m] = Journal(active).before[m]
    /\ proc.at = "mark" => IsBefore(Journal(active))

\* A plan is prepared in the other slot, when the active one is at an end.
PreparingInv ==
    /\ proc.at \in Preparing =>
          /\ proc.slot # active /\ (active = None => proc.slot = "slot0")
          /\ active # None => Terminal(active)
    /\ proc.at \in {"retire", "retiring"} => proc.package \in Packages
    /\ proc.at = "retiring" =>
          /\ proc.todo \subseteq Files
          /\ \A name \in Files \ proc.todo : slots[proc.slot][name] = NoPlan
    /\ proc.at \in {"journal", "active"} =>
          /\ proc.plan \in PlanType /\ \A g \in Gates : proc.plan.after[g] = "gate"
          /\ \A m \in Paths : root[m] # proc.plan.before[m] => m \in Settings /\ root[m] = "edited"
          /\ \A name \in Files \ {"journal"} : slots[proc.slot][name] = NoPlan
    /\ proc.at = "journal" => Journal(proc.slot) = NoPlan
    /\ proc.at = "active" => Journal(proc.slot) = proc.plan

\* A plan is applied from the active slot.
ApplyingInv ==
    /\ proc.at \in Applying =>
          active = proc.slot /\ Unfinished(active) /\ Journal(active) = proc.plan
    /\ proc.at \in {"gates", "recheck", "cutover"} => ~IsCut(active)
    /\ proc.at = "gates" => proc.todo \subseteq Gates
    /\ proc.at \in {"recheck", "cutover", "publish"} => ~running
    /\ proc.at \in {"recheck", "cutover", "publish", "verify"} => Gated
    /\ proc.at \in {"publish", "verify"} => IsCut(active)
    /\ proc.at = "publish" => proc.todo \subseteq Paths
    /\ proc.at = "verify" => IsAfter(Journal(active))

InstInv == TypeInv /\ DiskInv /\ RecoveringInv /\ PreparingInv /\ ApplyingInv
-----------------------------------------------------------------------------
(* Lemmas about plans, slots and orders. *)

\* Every set of numbers has a least one.
LEMMA LeastOf ==
    ASSUME NEW S, S \subseteq Nat, S # {}
    PROVE  \E m \in S : \A n \in S : m <= n
<1> DEFINE Less == {ss \in Nat \X Nat : ss[1] < ss[2]}
<1>1. IsWellFoundedOn(Less, Nat)
  BY NatLessThanWellFounded, Zenon DEF OpToRel
<1>2. PICK m \in S : \A n \in S : <<n, m>> \notin Less
  <2> HIDE DEF Less
  <2> QED
    BY <1>1, WFMin
<1>3. \A n \in S : ~(n < m)
  BY <1>2
<1> QED
  BY <1>3

\* Min is the least element.
LEMMA MinIs ==
    ASSUME NEW S, S \subseteq Nat, S # {}
    PROVE  Min(S) \in S /\ \A n \in S : Min(S) <= n
BY LeastOf DEF Min

\* The first of what is left to do is left to do.
LEMMA FirstIs ==
    ASSUME NEW todo, todo \subseteq Paths, todo # {}
    PROVE  First(Members, todo) \in todo
<1> DEFINE S == {i \in DOMAIN Members : Members[i] \in todo}
<1>1. Members \in Seq(Paths) /\ Paths = {Members[i] : i \in DOMAIN Members}
  BY InstallerAssumption DEF Paths, ToSet
<1>2. DOMAIN Members = 1..Len(Members) /\ Len(Members) \in Nat
  BY <1>1, LenProperties
<1>3. S \subseteq Nat /\ S # {}
  BY <1>1, <1>2
<1>4. Min(S) \in S
  <2> HIDE DEF S
  <2> QED
    BY <1>3, MinIs
<1> QED
  BY <1>4 DEF First

\* A restore publishes what is left to do, and gates last.
LEMMA FirstToRestoreIs ==
    ASSUME NEW todo, todo \subseteq Paths, todo # {}
    PROVE  /\ FirstToRestore(todo) \in todo
           /\ FirstToRestore(todo) \in Gates => todo \subseteq Gates
<1>1. CASE todo \subseteq Gates
  BY <1>1, FirstIs DEF FirstToRestore
<1>2. CASE ~(todo \subseteq Gates)
  <2>1. todo \ Gates # {} /\ todo \ Gates \subseteq Paths
    BY <1>2
  <2>2. First(Members, todo \ Gates) \in todo \ Gates
    BY <2>1, FirstIs
  <2> QED
    BY <1>2, <2>2 DEF FirstToRestore
<1> QED
  BY <1>1, <1>2

\* A slot is emptied from the journal on.
LEMMA FirstToRetireIs ==
    ASSUME NEW todo, todo \subseteq Files, todo # {}
    PROVE  /\ First(RetireOrder, todo) \in todo
           /\ "journal" \in todo => First(RetireOrder, todo) = "journal"
<1> DEFINE S == {i \in DOMAIN RetireOrder : RetireOrder[i] \in todo}
<1>1. DOMAIN RetireOrder = 1..4
  BY DEF RetireOrder
<1>2. /\ RetireOrder[1] = "journal" /\ RetireOrder[2] = "cutover"
      /\ RetireOrder[3] = "rolledBack" /\ RetireOrder[4] = "completed"
  BY DEF RetireOrder
<1>3. S \subseteq 1..4 /\ S \subseteq Nat /\ S # {}
  <2>1. PICK name \in todo : name \in Files
    OBVIOUS
  <2>2. \E i \in 1..4 : RetireOrder[i] = name
    BY <1>2, <2>1 DEF Files
  <2> QED
    BY <1>1, <2>1, <2>2
<1>4. Min(S) \in S /\ \A n \in S : Min(S) <= n
  <2> HIDE DEF S
  <2> QED
    BY <1>3, MinIs
<1>5. "journal" \in todo => Min(S) = 1
  <2>1. "journal" \in todo => 1 \in S
    BY <1>1, <1>2
  <2>2. Min(S) \in 1..4 /\ (1 \in S => Min(S) <= 1)
    BY <1>3, <1>4
  <2> QED
    BY <2>1, <2>2
<1> QED
  BY <1>2, <1>4, <1>5 DEF First

\* What retire_slot removes.
LEMMA RetiredIs == ToSet(RetireOrder) = Files
<1>1. DOMAIN RetireOrder = 1..4
  BY DEF RetireOrder
<1>2. /\ RetireOrder[1] = "journal" /\ RetireOrder[2] = "cutover"
      /\ RetireOrder[3] = "rolledBack" /\ RetireOrder[4] = "completed"
  BY DEF RetireOrder
<1> QED
  BY <1>1, <1>2 DEF ToSet, Files

\* The gates are members, and never edited.
LEMMA GatesAre ==
    Gates \subseteq Paths /\ Settings \subseteq Paths /\ Gates \cap Settings = {}
    /\ Gates \cap OnCf = {}
BY InstallerAssumption

\* A plan is something.
LEMMA PlanIs == \A p \in PlanType : p # NoPlan
<1> SUFFICES ASSUME NEW p \in PlanType PROVE p # NoPlan
  OBVIOUS
<1>1. "running" \in DOMAIN p
  BY DEF PlanType
<1>2. DOMAIN NoPlan = {}
  BY DEF NoPlan
<1> QED
  BY <1>1, <1>2

\* The files of a slot.
LEMMA SlotFiles ==
    ASSUME TypeInv, NEW s \in Slots
    PROVE  /\ slots[s] \in SlotType /\ Journal(s) \in FileType
           /\ \A name \in Files : slots[s][name] \in FileType
BY DEF TypeInv, SlotType, Journal, Files

\* The status of a slot.
LEMMA StatusIs ==
    ASSUME TypeInv, NEW s \in Slots, SlotOK(s), Journal(s) # NoPlan
    PROVE  /\ Unfinished(s) => Status(s) = "unfinished"
           /\ Terminal(s) => Status(s) \in {"completed", "rolled_back"}
           /\ Unfinished(s) <=> ~Terminal(s)
           /\ Marked(s, "cutover") = IF IsCut(s) THEN 1 ELSE 0
<1>1. Marked(s, "cutover") = IF IsCut(s) THEN 1 ELSE 0
  BY DEF Marked, IsCut, SlotOK, Journal
<1>2. Unfinished(s) => Marked(s, "completed") = 0 /\ Marked(s, "rolledBack") = 0
  BY DEF Unfinished, Marked, Journal
<1>3. Terminal(s) => \/ Marked(s, "completed") = 1 /\ Marked(s, "rolledBack") = 0
                     \/ Marked(s, "completed") = 0 /\ Marked(s, "rolledBack") = 1
  BY DEF Terminal, Marked, Journal
<1>4. Unfinished(s) <=> ~Terminal(s)
  BY DEF SlotOK, Unfinished, Terminal
<1>5. Unfinished(s) => Status(s) = "unfinished"
  BY <1>2 DEF Status, Journal
<1>6. Terminal(s) => Status(s) \in {"completed", "rolled_back"}
  BY <1>3 DEF Status, Journal
<1> QED
  BY <1>1, <1>4, <1>5, <1>6

\* A slot without a journal, and one by its status.
LEMMA StatusSays ==
    ASSUME TypeInv, NEW s \in Slots, SlotOK(s)
    PROVE  /\ Status(s) = "unfinished" => Unfinished(s)
           /\ Status(s) \in {"completed", "rolled_back"} => Terminal(s)
           /\ Status(s) # "unfinished" => ~Unfinished(s)
<1>1. CASE Journal(s) # NoPlan
  BY <1>1, StatusIs DEF SlotOK
<1>2. CASE Journal(s) = NoPlan
  BY <1>2 DEF Status, Journal, Unfinished
<1> QED
  BY <1>1, <1>2

\* The one side of a plan.
LEMMA SideIs ==
    OneSide <=> active = None \/ IsBefore(Journal(active)) \/ IsAfter(Journal(active))
BY DEF OneSide, IsBefore, IsAfter, Journal, Ours
-----------------------------------------------------------------------------
(* The process. *)

\* The process in brief.
ProcInv == proc \in ProcType /\ RecoveringInv /\ PreparingInv /\ ApplyingInv

\* What is not about the process.
RestInv ==
    /\ root \in [Paths -> Contents] /\ slots \in [Slots -> SlotType]
    /\ active \in Slots \cup {None} /\ cf \in BOOLEAN /\ running \in BOOLEAN
    /\ power \in {"rcS", "rc3", "up"} /\ edited \in SUBSET Settings
    /\ DiskInv

\* The two of them are the invariant.
LEMMA PartsAre == InstInv <=> ProcInv /\ RestInv
BY DEF InstInv, TypeInv, ProcInv, RestInv

\* And so they are after a step.
LEMMA PartsMake == ProcInv' /\ RestInv' => InstInv'
BY DEF InstInv, TypeInv, ProcInv, RestInv

\* A process that is idle may be.
LEMMA IdleIs == Idle \in ProcType
<1>1. {} \in SUBSET (Paths \cup Files) /\ NoPlan \in FileType /\ "slot0" \in Slots
  BY DEF FileType, Slots
<1> QED
  BY <1>1 DEF Idle, ProcType, None

\* The lock is given up.
LEMMA IdleKeeps ==
    ASSUME proc' = Idle
    PROVE  ProcInv'
<1>1. proc' \in ProcType /\ proc'.at = "idle"
  BY IdleIs DEF Idle
<1> QED
  BY <1>1 DEF ProcInv, RecoveringInv, PreparingInv, ApplyingInv, Recovering, Preparing, Applying

\* The disk and the settings are left alone.
LEMMA RestKept ==
    ASSUME RestInv, UNCHANGED <<root, slots, active, edited>>, cf' \in BOOLEAN,
           power' \in {"rcS", "rc3", "up"}, running' \in BOOLEAN, running' => running \/ OneSide
    PROVE  RestInv'
<1>1. FilesInv'
  BY DEF RestInv, DiskInv, FilesInv, SlotOK, ActiveInv, OthersInv, FirstInv, EditsInv, Journal,
     Unfinished, Terminal, IsCut, IsBefore, IsAfter, IsMixed, Gated, Ours
<1>2. OneSide' <=> OneSide
  BY DEF OneSide
<1>3. RunInv'
  BY <1>2 DEF RunInv, RestInv, DiskInv
<1> QED
  BY <1>1, <1>3 DEF RestInv, DiskInv

\* A transaction that is at its end has left one side.
LEMMA EndIsOneSide ==
    ASSUME ActiveInv, active \in Slots, Terminal(active)
    PROVE  OneSide
<1>1. active # None
  BY DEF Slots, None
<1> QED
  BY <1>1, SideIs DEF ActiveInv

\* A recovery starts.
LEMMA EntersKeeps ==
    ASSUME RestInv, NEW slot \in Slots, active' = slot,
           NEW then \in {None, "install", "network", "start", "stop", "only"},
           NEW package \in Packages \cup {None}, then = "install" => package \in Packages,
           proc' = [Idle EXCEPT !.at = "recover", !.slot = slot, !.then = then,
                                !.package = package]
    PROVE  ProcInv'
<1>1. /\ proc' \in ProcType /\ proc'.at = "recover" /\ proc'.slot = slot
      /\ proc'.then = then /\ proc'.package = package
  BY IdleIs DEF ProcType, Recovering, Idle
<1> QED
  BY <1>1 DEF ProcInv, RecoveringInv, PreparingInv, ApplyingInv, Recovering, Preparing, Applying

\* An installation makes room.
LEMMA RetiresKeeps ==
    ASSUME NEW slot \in Slots, slot # active', active' = None => slot = "slot0",
           active' # None => Terminal(active)', NEW package \in Packages,
           proc' = [Idle EXCEPT !.at = "retire", !.slot = slot, !.package = package]
    PROVE  ProcInv'
<1>1. /\ proc' \in ProcType /\ proc'.at = "retire" /\ proc'.slot = slot
      /\ proc'.package = package
  BY IdleIs DEF ProcType, Preparing, Idle
<1> QED
  BY <1>1 DEF ProcInv, RecoveringInv, PreparingInv, ApplyingInv, Recovering, Preparing, Applying

\* A recovery ends, or leads on.
LEMMA FinishKeeps ==
    ASSUME proc \in ProcType, NEW result, Finish(result), running \in BOOLEAN,
           active' \in Slots, active' = proc.slot,
           proc.then = "install" => proc.package \in Packages,
           result \in {"completed", "rolled_back"} => Terminal(active)'
    PROVE  /\ ProcInv' /\ running' \in BOOLEAN
           /\ running' = running \/ Terminal(active)'
<1>1. CASE /\ proc.then = "install" /\ result \in {"completed", "rolled_back"}
           /\ proc' = [Idle EXCEPT !.at = "retire", !.package = proc.package,
                                   !.slot = CHOOSE s \in Slots : s # proc.slot]
           /\ UNCHANGED running
  <2>1. PICK slot \in Slots : slot # proc.slot /\ slot = CHOOSE s \in Slots : s # proc.slot
    <3>1. \E s \in Slots : s # proc.slot
      BY DEF Slots
    <3> QED
      BY <3>1
  <2>2. proc' = [Idle EXCEPT !.at = "retire", !.slot = slot, !.package = proc.package]
    BY <1>1, <2>1 DEF Idle
  <2>3. active' # None
    BY DEF Slots, None
  <2> QED
    BY <1>1, <2>1, <2>2, <2>3, RetiresKeeps
<1>2. CASE /\ proc.then \in {"start", "stop"} /\ result \in {"completed", "rolled_back"}
           /\ proc' = Idle
           /\ running' \in {TRUE, running} \/ running' \in {FALSE, running}
  BY <1>2, IdleKeeps
<1>3. CASE proc' = Idle /\ UNCHANGED running
  BY <1>3, IdleKeeps
<1> QED
  BY <1>1, <1>2, <1>3 DEF Finish

-----------------------------------------------------------------------------
(* The steps of a recovery. *)

\* Where a recovery is.
LEMMA RecoveryIs ==
    ASSUME InstInv, proc.at \in Recovering
    PROVE  /\ proc \in ProcType /\ running \in BOOLEAN
           /\ active = proc.slot /\ active \in Slots /\ active # None
           /\ SlotOK(active) /\ Journal(active) # NoPlan /\ Journal(active) \in PlanType
           /\ Plan = Journal(active)
           /\ proc.then = "install" => proc.package \in Packages
<1>1. proc \in ProcType /\ running \in BOOLEAN /\ active = proc.slot /\ proc.slot \in Slots
      /\ (proc.then = "install" => proc.package \in Packages)
  BY DEF InstInv, TypeInv, RecoveringInv, ProcType
<1>2. active # None
  BY <1>1 DEF Slots, None
<1>3. SlotOK(active) /\ Journal(active) # NoPlan
  BY <1>1, <1>2 DEF InstInv, DiskInv, FilesInv, ActiveInv
<1>4. Journal(active) \in FileType
  BY <1>1, SlotFiles DEF InstInv
<1> QED
  BY <1>1, <1>2, <1>3, <1>4 DEF FileType, Plan, Journal

\* install_transaction_recover.
LEMMA RecoverKeeps ==
    ASSUME InstInv, Recover
    PROVE  InstInv'
<1>1. proc.at = "recover" /\ UNCHANGED <<root, slots, active, cf, power, edited>>
  BY DEF Recover, At
<1>2. /\ proc \in ProcType /\ running \in BOOLEAN
      /\ active = proc.slot /\ active \in Slots /\ active # None
      /\ SlotOK(active) /\ Journal(active) # NoPlan
      /\ (proc.then = "install" => proc.package \in Packages)
  BY <1>1, RecoveryIs DEF Recovering
<1>3. (Terminal(active)' <=> Terminal(active)) /\ (Unfinished(active)' <=> Unfinished(active))
  BY <1>1 DEF Terminal, Unfinished, Journal
<1>4. RestInv /\ TypeInv
  BY PartsAre DEF InstInv
<1>5. CASE Status(proc.slot) # "unfinished" /\ Finish(Status(proc.slot))
  <2>1. Terminal(active)
    BY <1>2, <1>4, <1>5, StatusIs
  <2>2. ProcInv' /\ running' \in BOOLEAN
    BY <1>1, <1>2, <1>3, <1>5, <2>1, FinishKeeps
  <2>3. OneSide
    BY <1>2, <1>4, <2>1, EndIsOneSide DEF RestInv, DiskInv, FilesInv
  <2>4. RestInv'
    BY <1>1, <1>4, <2>2, <2>3, RestKept DEF RestInv
  <2> QED
    BY <2>2, <2>4, PartsMake
<1>6. CASE Status(proc.slot) = "unfinished" /\ proc' = [proc EXCEPT !.at = "restore"]
           /\ UNCHANGED running
  <2>1. Unfinished(active)
    BY <1>2, <1>4, <1>6, StatusSays
  <2>2. /\ proc' \in ProcType /\ proc'.at = "restore" /\ proc'.slot = proc.slot
        /\ proc'.then = proc.then /\ proc'.package = proc.package
    BY <1>2, <1>6 DEF ProcType, Recovering
  <2>3. ProcInv'
    BY <1>1, <1>2, <1>3, <2>1, <2>2 DEF ProcInv, RecoveringInv, PreparingInv, ApplyingInv,
       Recovering, Preparing, Applying
  <2>4. RestInv'
    BY <1>1, <1>4, <1>6, RestKept DEF RestInv
  <2> QED
    BY <2>3, <2>4, PartsMake
<1> QED
  BY <1>5, <1>6 DEF Recover

\* restore, up to its loop: what it will publish.
LEMMA RestoreStopKeeps ==
    ASSUME InstInv, RestoreStop
    PROVE  InstInv'
<1>1. proc.at = "restore" /\ UNCHANGED <<root, slots, active, cf, power, edited>>
  BY DEF RestoreStop, At
<1>2. /\ proc \in ProcType /\ running \in BOOLEAN
      /\ active = proc.slot /\ active \in Slots /\ active # None
      /\ SlotOK(active) /\ Journal(active) # NoPlan /\ Plan = Journal(active)
      /\ (proc.then = "install" => proc.package \in Packages)
  BY <1>1, RecoveryIs DEF Recovering
<1>3. RestInv /\ TypeInv /\ Unfinished(active)
  BY <1>1, PartsAre DEF InstInv, RecoveringInv
<1>4. Marked(proc.slot, "cutover") = IF IsCut(active) THEN 1 ELSE 0
  BY <1>2, <1>3, StatusIs
<1>5. \/ /\ proc' = [proc EXCEPT !.at = "restoring",
                         !.todo = RestoreSet(Plan, Marked(proc.slot, "cutover") = 1, cf),
                         !.cut = (Marked(proc.slot, "cutover") = 1),
                         !.pending = Marked(proc.slot, "cutover") = 1 /\ ~cf]
         /\ running' = FALSE
      \/ proc' = Idle /\ running' \in {FALSE, running}
  BY Zenon DEF RestoreStop, GiveUp, StopFails
<1>6. RestInv'
  <2>1. running' = FALSE \/ running' = running
    BY <1>5
  <2>2. running' \in BOOLEAN /\ (running' => running)
    <3>1. CASE running' = FALSE
      BY <3>1
    <3>2. CASE running' = running
      BY <1>2, <3>2
    <3> QED
      BY <2>1, <3>1, <3>2
  <2> QED
    BY <1>1, <1>3, <2>2, RestKept DEF RestInv
<1>7. CASE proc' = Idle
  BY <1>6, <1>7, IdleKeeps, PartsMake
<1>8. CASE /\ proc' = [proc EXCEPT !.at = "restoring",
                         !.todo = RestoreSet(Plan, Marked(proc.slot, "cutover") = 1, cf),
                         !.cut = (Marked(proc.slot, "cutover") = 1),
                         !.pending = Marked(proc.slot, "cutover") = 1 /\ ~cf]
           /\ running' = FALSE
  <2>1. PICK cut : cut = (Marked(proc.slot, "cutover") = 1)
    OBVIOUS
  <2>10. cut \in BOOLEAN /\ (cut <=> IsCut(active))
    <3>1. Marked(proc.slot, "cutover") = 1 <=> IsCut(active)
      BY <1>4
    <3> QED
      BY <2>1, <3>1, Zenon
  <2>2. PICK todo : todo = RestoreSet(Plan, cut, cf)
    OBVIOUS
  <2>3. PICK pending \in BOOLEAN : pending = (cut /\ ~cf)
    OBVIOUS
  <2>4. proc' = [proc EXCEPT !.at = "restoring", !.todo = todo, !.cut = cut, !.pending = pending]
    BY <1>8, <2>1, <2>2, <2>3
  <2>5. todo \subseteq Paths
    BY <2>2 DEF RestoreSet
  <2>6. /\ proc' \in ProcType /\ proc'.at = "restoring" /\ proc'.slot = proc.slot
        /\ proc'.todo = todo /\ (proc'.cut <=> cut) /\ (proc'.pending <=> pending)
        /\ proc'.then = proc.then /\ proc'.package = proc.package
    BY <1>2, <2>4, <2>5, <2>10 DEF ProcType, Recovering
  <2>7. /\ ~cut => todo \subseteq Gates /\ ~pending
        /\ pending => todo \cap Gates = {}
    BY <2>2, <2>3 DEF RestoreSet, Restores
  <2>8. ASSUME cut, ~pending, NEW m \in Ours \ todo
        PROVE  root[m] = Journal(active).before[m]
    <3>1. m \in Paths /\ cf
      BY <1>3, <2>3, <2>8 DEF Ours, RestInv
    <3>2. Journal(active).before[m] = Journal(active).after[m]
      BY <1>2, <2>2, <2>8, <3>1 DEF RestoreSet, Restores, Changed
    <3>3. IsMixed(Journal(active))
      BY <1>2, <1>3, <2>10, <2>8 DEF RestInv, DiskInv, FilesInv, ActiveInv
    <3> QED
      BY <2>8, <3>2, <3>3 DEF IsMixed
  <2>9. RecoveringInv'
    <3>1. (Unfinished(active)' <=> Unfinished(active)) /\ (IsCut(active)' <=> IsCut(active))
          /\ Ours' = Ours /\ Journal(active)' = Journal(active)
      BY <1>1 DEF Unfinished, IsCut, Journal, Ours
    <3>2. \A m \in Ours \ todo : cut /\ ~pending => root[m] = Journal(active).before[m]
      BY <2>8
    <3> QED
      BY <1>1, <1>2, <1>3, <1>8, <2>10, <2>5, <2>6, <2>7, <3>1, <3>2 DEF RecoveringInv, Recovering
  <2> QED
    BY <1>6, <2>6, <2>9, PartsMake DEF ProcInv, PreparingInv, ApplyingInv, Preparing, Applying
<1> QED
  BY <1>5, <1>7, <1>8

\* The definitions about the slots say the same when the slots are left alone.
LEMMA SlotsKept ==
    ASSUME UNCHANGED <<slots, active>>
    PROVE  /\ \A s : /\ Journal(s)' = Journal(s) /\ (Unfinished(s)' <=> Unfinished(s))
                     /\ (Terminal(s)' <=> Terminal(s)) /\ (IsCut(s)' <=> IsCut(s))
                     /\ (SlotOK(s)' <=> SlotOK(s))
           /\ Journal(active)' = Journal(active) /\ (Unfinished(active)' <=> Unfinished(active))
           /\ (Terminal(active)' <=> Terminal(active)) /\ (IsCut(active)' <=> IsCut(active))
BY DEF Journal, Unfinished, Terminal, IsCut, SlotOK

\* One before-image is published.
LEMMA RestoredKeeps ==
    ASSUME InstInv, proc.at = "restoring", proc.todo # {},
           NEW m, m = FirstToRestore(proc.todo), root' = [root EXCEPT ![m] = Plan.before[m]],
           UNCHANGED <<slots, active, cf, power, edited, running>>
    PROVE  RestInv'
<1>1. /\ active = proc.slot /\ active \in Slots /\ active # None
      /\ SlotOK(active) /\ Journal(active) # NoPlan /\ Plan = Journal(active)
      /\ Journal(active) \in PlanType
  BY RecoveryIs DEF Recovering
<1>2. /\ RestInv /\ TypeInv /\ Unfinished(active) /\ (proc.cut <=> IsCut(active)) /\ ~running
      /\ proc.todo \subseteq Paths
      /\ ~proc.cut => proc.todo \subseteq Gates
      /\ proc.pending => proc.todo \cap Gates = {}
      /\ proc.cut /\ ~proc.pending =>
            \A n \in Ours \ proc.todo : root[n] = Journal(active).before[n]
  BY PartsAre DEF InstInv, RecoveringInv
<1>3. /\ m \in proc.todo /\ m \in Paths
      /\ m \in Gates => proc.todo \subseteq Gates /\ ~proc.pending
  BY <1>2, FirstToRestoreIs
<1>4. ~Terminal(active)
  BY <1>1, <1>2, StatusIs
<1>5. PICK before : before = Journal(active).before /\ before \in [Paths -> Contents]
  BY <1>1 DEF PlanType
<1>6. /\ root \in [Paths -> Contents] /\ root' \in [Paths -> Contents] /\ root'[m] = before[m]
      /\ \A n \in Paths : n # m => root'[n] = root[n]
  <2>1. root \in [Paths -> Contents]
    BY <1>2 DEF RestInv
  <2> QED
    BY <1>1, <1>3, <1>5, <2>1
<1>7. Ours' = Ours /\ Ours \subseteq Paths /\ Ours \cap Gates = {} /\ edited \cap Gates = {}
      /\ edited \subseteq Paths
  BY <1>2, GatesAre DEF Ours, RestInv
<1>8. ActiveInv'
  <2>1. CASE ~IsCut(active)
    <3>1. m \in Gates
      BY <1>2, <1>3, <2>1
    <3>2. IsBefore(Journal(active))
      BY <1>1, <1>2, <2>1 DEF RestInv, DiskInv, FilesInv, ActiveInv
    <3>3. \A n \in Ours : root'[n] = before[n]
      BY <1>5, <1>6, <1>7, <3>1, <3>2 DEF IsBefore
    <3> QED
      BY <1>1, <1>4, <1>5, <1>7, <2>1, <3>3, SlotsKept DEF ActiveInv, IsBefore
  <2>2. CASE IsCut(active)
    <3>1. IsMixed(Journal(active)) /\ (Gated \/ IsBefore(Journal(active)))
      BY <1>1, <1>2, <2>2 DEF RestInv, DiskInv, FilesInv, ActiveInv
    <3>2. \A n \in Ours : root'[n] \in {before[n], Journal(active).after[n]}
      BY <1>5, <1>6, <1>7, <3>1 DEF IsMixed
    <3>3. IsBefore(Journal(active)) => \A n \in Ours : root'[n] = before[n]
      BY <1>5, <1>6, <1>7 DEF IsBefore
    <3>4. m \in Gates => IsBefore(Journal(active))
      BY <1>2, <1>3, <1>7, <2>2 DEF IsBefore
    <3>5. m \notin Gates => (Gated => Gated')
      BY <1>6, GatesAre DEF Gated
    <3>6. IsMixed(Journal(active))'
      BY <1>5, <1>7, <3>2, SlotsKept DEF IsMixed
    <3>7. Gated' \/ IsBefore(Journal(active))'
      BY <1>5, <1>7, <3>1, <3>3, <3>4, <3>5, SlotsKept DEF IsBefore
    <3> QED
      BY <1>1, <1>4, <2>2, <3>6, <3>7, SlotsKept DEF ActiveInv
  <2> QED
    BY <2>1, <2>2
<1>9. OthersInv'
  <2>1. OthersInv
    BY <1>2 DEF RestInv, DiskInv, FilesInv
  <2>2. \A s \in Slots : ~(s # active /\ Unfinished(s))
    BY <1>1, <1>4, <2>1 DEF OthersInv
  <2> QED
    BY <2>2, SlotsKept DEF OthersInv
<1>10. EditsInv'
  <2>1. CASE IsCut(active)
    BY <1>1, <2>1, SlotsKept DEF EditsInv
  <2>2. CASE ~IsCut(active)
    <3>1. m \notin edited
      BY <1>2, <1>3, <1>7, <2>2
    <3>2. \A n \in edited : root[n] = "edited"
      BY <1>2, <2>2 DEF RestInv, DiskInv, FilesInv, EditsInv
    <3> QED
      BY <1>6, <1>7, <3>1, <3>2 DEF EditsInv
  <2> QED
    BY <2>1, <2>2
<1>11. (\A s \in Slots : SlotOK(s))' /\ FirstInv'
  BY <1>2, SlotsKept DEF RestInv, DiskInv, FilesInv, FirstInv
<1>12. RunInv'
  BY <1>2 DEF RunInv
<1> QED
  BY <1>2, <1>6, <1>8, <1>9, <1>10, <1>11, <1>12 DEF RestInv, DiskInv, FilesInv

\* One pass of the loop.
LEMMA RestoreMemberKeeps ==
    ASSUME InstInv, RestoreMember
    PROVE  InstInv'
<1>1. PICK m : m = FirstToRestore(proc.todo)
  OBVIOUS
<1>2. /\ proc.at = "restoring" /\ proc.todo # {}
      /\ UNCHANGED <<slots, active, cf, power, edited>> /\ running' = running
      /\ \/ /\ root' = [root EXCEPT ![m] = Plan.before[m]]
            /\ proc' = [proc EXCEPT !.todo = @ \ {m}]
         \/ /\ root' = root \/ root' = [root EXCEPT ![m] = Plan.before[m]]
            /\ proc' = Idle
  BY <1>1 DEF RestoreMember, At, GiveUp
<1>3. /\ proc \in ProcType /\ active = proc.slot /\ active \in Slots /\ active # None
      /\ Plan = Journal(active) /\ Journal(active) \in PlanType
      /\ (proc.then = "install" => proc.package \in Packages)
  BY <1>2, RecoveryIs DEF Recovering
<1>4. /\ RestInv /\ TypeInv /\ Unfinished(active) /\ (proc.cut <=> IsCut(active)) /\ ~running
      /\ proc.todo \subseteq Paths
      /\ ~proc.cut => proc.todo \subseteq Gates /\ ~proc.pending
      /\ proc.pending => proc.todo \cap Gates = {}
      /\ proc.cut /\ ~proc.pending =>
            \A n \in Ours \ proc.todo : root[n] = Journal(active).before[n]
  BY <1>2, PartsAre DEF InstInv, RecoveringInv
<1>5. RestInv'
  <2>1. CASE root' = root
    BY <1>2, <1>4, <2>1, RestKept DEF RestInv
  <2>2. CASE root' = [root EXCEPT ![m] = Plan.before[m]]
    BY <1>1, <1>2, <2>2, RestoredKeeps
  <2> QED
    BY <1>2, <2>1, <2>2
<1>6. CASE proc' = Idle
  BY <1>5, <1>6, IdleKeeps, PartsMake
<1>7. CASE /\ root' = [root EXCEPT ![m] = Plan.before[m]]
           /\ proc' = [proc EXCEPT !.todo = @ \ {m}]
  <2>1. PICK left : left = proc.todo \ {m} /\ left \subseteq Paths
    BY <1>4
  <2>2. /\ proc' \in ProcType /\ proc'.at = "restoring" /\ proc'.slot = proc.slot
        /\ proc'.todo = left /\ (proc'.cut <=> proc.cut) /\ (proc'.pending <=> proc.pending)
        /\ proc'.then = proc.then /\ proc'.package = proc.package
    <3>1. proc' = [proc EXCEPT !.todo = left]
      BY <1>3, <1>7, <2>1 DEF ProcType
    <3> QED
      BY <1>2, <1>3, <2>1, <3>1 DEF ProcType
  <2>3. Ours' = Ours /\ Ours \subseteq Paths
    BY <1>2 DEF Ours
  <2>4. ASSUME proc.cut, ~proc.pending, NEW n \in Ours \ left
        PROVE  root'[n] = Journal(active).before[n]
    <3>1. root \in [Paths -> Contents] /\ n \in Paths
      BY <1>4, <2>3 DEF RestInv
    <3>2. CASE n = m
      BY <1>3, <1>7, <3>1, <3>2
    <3>3. CASE n # m
      BY <1>4, <1>7, <2>1, <2>4, <3>1, <3>3
    <3> QED
      BY <3>2, <3>3
  <2>5. RecoveringInv'
    BY <1>2, <1>3, <1>4, <2>1, <2>2, <2>3, <2>4, SlotsKept DEF RecoveringInv, Recovering
  <2> QED
    BY <1>5, <2>2, <2>5, PartsMake DEF ProcInv, PreparingInv, ApplyingInv, Preparing, Applying
<1> QED
  BY <1>2, <1>6, <1>7

\* After the loop: the old set is whole, or its end waits for the flash.
LEMMA RestoreEndKeeps ==
    ASSUME InstInv, RestoreEnd
    PROVE  InstInv'
<1>1. /\ proc.at = "restoring" /\ proc.todo = {}
      /\ UNCHANGED <<root, slots, active, cf, power, edited>>
      /\ \/ Finish("wait_cf")
         \/ /\ ~proc.pending /\ proc' = [proc EXCEPT !.at = "mark"]
            /\ running' = (running \/ (Plan.running /\ ~InEntry))
         \/ proc' = Idle /\ UNCHANGED running
         \/ /\ ~proc.pending /\ proc' = Idle
            /\ UNCHANGED running \/ running' \in {TRUE, running}
  BY DEF RestoreEnd, At, GiveUp, StartFails
<1>2. /\ proc \in ProcType /\ running \in BOOLEAN /\ active = proc.slot /\ active \in Slots
      /\ active # None /\ Plan = Journal(active) /\ Journal(active) \in PlanType
      /\ (proc.then = "install" => proc.package \in Packages)
  BY <1>1, RecoveryIs DEF Recovering
<1>3. /\ RestInv /\ TypeInv /\ Unfinished(active) /\ (proc.cut <=> IsCut(active))
      /\ proc.cut /\ ~proc.pending =>
            \A n \in Ours \ proc.todo : root[n] = Journal(active).before[n]
  BY <1>1, PartsAre DEF InstInv, RecoveringInv
<1>4. ~proc.pending => IsBefore(Journal(active))
  <2>1. CASE proc.cut
    BY <1>1, <1>3, <2>1 DEF IsBefore
  <2>2. CASE ~proc.cut
    BY <1>2, <1>3, <2>2 DEF RestInv, DiskInv, FilesInv, ActiveInv
  <2> QED
    BY <2>1, <2>2
<1>5. ~proc.pending => OneSide
  BY <1>4, SideIs
<1>6. CASE Finish("wait_cf")
  <2>1. ProcInv' /\ running' = running
    <3>1. \/ proc' = Idle /\ UNCHANGED running
          \/ "wait_cf" \in {"completed", "rolled_back"}
      BY <1>6 DEF Finish
    <3> QED
      BY <3>1, IdleKeeps
  <2>2. RestInv'
    BY <1>1, <1>3, <2>1, RestKept DEF RestInv
  <2> QED
    BY <2>1, <2>2, PartsMake
<1>7. CASE /\ ~proc.pending /\ proc' = [proc EXCEPT !.at = "mark"]
           /\ running' = (running \/ (Plan.running /\ ~InEntry))
  <2>1. /\ proc' \in ProcType /\ proc'.at = "mark" /\ proc'.slot = proc.slot
        /\ (proc'.cut <=> proc.cut)
        /\ proc'.then = proc.then /\ proc'.package = proc.package
    BY <1>2, <1>7 DEF ProcType, Recovering
  <2>2. IsBefore(Journal(active))'
    BY <1>1, <1>4, <1>7, SlotsKept DEF IsBefore, Ours
  <2>3. RecoveringInv'
    BY <1>1, <1>2, <1>3, <2>1, <2>2, SlotsKept DEF RecoveringInv, Recovering
  <2>4. running' \in BOOLEAN
    BY <1>7
  <2>5. RestInv'
    BY <1>1, <1>3, <1>5, <1>7, <2>4, RestKept DEF RestInv
  <2> QED
    BY <2>1, <2>3, <2>5, PartsMake DEF ProcInv, PreparingInv, ApplyingInv, Preparing, Applying
<1>8. CASE /\ proc' = Idle
           /\ UNCHANGED running \/ (~proc.pending /\ running' \in {TRUE, running})
  <2>1. running' \in BOOLEAN /\ (running' => running \/ OneSide)
    <3>1. CASE running' = running
      BY <1>2, <3>1
    <3>2. CASE ~proc.pending /\ running' = TRUE
      BY <1>5, <3>2
    <3> QED
      BY <1>8, <3>1, <3>2
  <2>2. RestInv'
    BY <1>1, <1>3, <2>1, RestKept DEF RestInv
  <2> QED
    BY <1>8, <2>2, IdleKeeps, PartsMake
<1> QED
  BY <1>1, <1>6, <1>7, <1>8

\* A marker is set beside the active journal.
LEMMA MarkedKeeps ==
    ASSUME RestInv, active \in Slots, Unfinished(active), NEW f \in SlotType,
           slots' = [slots EXCEPT ![active] = f], f.journal = Journal(active),
           f.cutover = slots[active].cutover \/ f.cutover = Journal(active),
           f.completed \in {NoPlan, Journal(active)}, f.rolledBack \in {NoPlan, Journal(active)},
           f.completed = NoPlan \/ f.rolledBack = NoPlan,
           Terminal(active)' => IsBefore(Journal(active)) \/ IsAfter(Journal(active)),
           Unfinished(active)' => f.cutover = slots[active].cutover
                                  \/ (Gated /\ IsBefore(Journal(active))),
           UNCHANGED <<root, active, cf, power, edited>>, running' \in BOOLEAN,
           running' => running \/ IsBefore(Journal(active)) \/ IsAfter(Journal(active))
    PROVE  RestInv'
<1>1. /\ slots \in [Slots -> SlotType] /\ active # None /\ Journal(active) # NoPlan
      /\ SlotOK(active)
  BY DEF RestInv, DiskInv, FilesInv, Slots, None, Unfinished
<1>2. /\ slots' \in [Slots -> SlotType] /\ slots'[active] = f
      /\ \A s \in Slots : s # active => slots'[s] = slots[s]
  BY <1>1
<1>3. /\ Journal(active)' = Journal(active)
      /\ IsBefore(Journal(active))' <=> IsBefore(Journal(active))
      /\ IsAfter(Journal(active))' <=> IsAfter(Journal(active))
      /\ IsMixed(Journal(active))' <=> IsMixed(Journal(active))
      /\ Gated' <=> Gated
  BY <1>2 DEF Journal, IsBefore, IsAfter, IsMixed, Gated, Ours
<1>4. Unfinished(active)' \/ Terminal(active)'
  BY <1>1, <1>2, <1>3 DEF Unfinished, Terminal, Journal
<1>5. SlotOK(active)'
  BY <1>1, <1>2, <1>3, <1>4 DEF SlotOK, Journal
<1>6. \A s \in Slots : s # active =>
        /\ SlotOK(s)' <=> SlotOK(s)
        /\ Unfinished(s)' <=> Unfinished(s)
        /\ Journal(s)' = Journal(s)
  BY <1>2 DEF SlotOK, Unfinished, Terminal, Journal
<1>7. ~Terminal(active)
  BY <1>1 DEF Unfinished, Terminal
<1>8. \A s \in Slots : ~(s # active /\ Unfinished(s))
  BY <1>1, <1>7 DEF RestInv, DiskInv, FilesInv, OthersInv
<1>9. OthersInv' /\ FirstInv' /\ \A s \in Slots : SlotOK(s)'
  BY <1>1, <1>5, <1>6, <1>8 DEF RestInv, DiskInv, FilesInv, OthersInv, FirstInv
<1>10. IsCut(active)' <=> IsCut(active) \/ f.cutover = Journal(active)
  BY <1>1, <1>2, <1>3 DEF IsCut, Journal
<1>11. EditsInv'
  BY <1>1, <1>10 DEF RestInv, DiskInv, FilesInv, EditsInv
<1>12. ActiveInv'
  <2>1. Terminal(active)' => IsBefore(Journal(active))' \/ IsAfter(Journal(active))'
    BY <1>3
  <2>2. CASE f.cutover = slots[active].cutover
    <3>1. IsCut(active)' <=> IsCut(active)
      BY <1>1, <1>2, <1>3, <2>2 DEF IsCut, Journal
    <3>2. ActiveInv
      BY DEF RestInv, DiskInv, FilesInv
    <3> QED
      BY <1>1, <1>3, <2>1, <3>1, <3>2 DEF ActiveInv
  <2>3. CASE Unfinished(active)' => Gated /\ IsBefore(Journal(active))
    <3>1. Unfinished(active)' => Gated' /\ IsBefore(Journal(active))' /\ IsMixed(Journal(active))'
      BY <1>3, <2>3 DEF IsBefore, IsMixed
    <3> QED
      BY <1>1, <1>3, <2>1, <3>1 DEF ActiveInv
  <2> QED
    BY <2>2, <2>3
<1>13. RunInv'
  <2>1. (OneSide <=> IsBefore(Journal(active)) \/ IsAfter(Journal(active)))
    BY <1>1, SideIs
  <2>2. OneSide' <=> OneSide
    <3>1. slots'[active].journal = slots[active].journal
      BY <1>2 DEF Journal
    <3> QED
      BY <3>1 DEF OneSide
  <2> QED
    BY <2>1, <2>2 DEF RunInv, RestInv, DiskInv
<1> QED
  BY <1>2, <1>9, <1>11, <1>12, <1>13 DEF RestInv, DiskInv, FilesInv

\* The markers of a slot, one at a time.
LEMMA MarkersAre ==
    ASSUME NEW x \in SlotType, NEW p \in FileType
    PROVE  /\ LET f == [x EXCEPT !.rolledBack = p]
              IN  /\ f \in SlotType /\ f.rolledBack = p /\ f.journal = x.journal
                  /\ f.cutover = x.cutover /\ f.completed = x.completed
           /\ LET f == [x EXCEPT !.completed = p]
              IN  /\ f \in SlotType /\ f.completed = p /\ f.journal = x.journal
                  /\ f.cutover = x.cutover /\ f.rolledBack = x.rolledBack
           /\ LET f == [x EXCEPT !.cutover = p]
              IN  /\ f \in SlotType /\ f.cutover = p /\ f.journal = x.journal
                  /\ f.completed = x.completed /\ f.rolledBack = x.rolledBack
           /\ LET f == [x EXCEPT !.journal = p]
              IN  /\ f \in SlotType /\ f.journal = p /\ f.cutover = x.cutover
                  /\ f.completed = x.completed /\ f.rolledBack = x.rolledBack
BY DEF SlotType

\* The end of a recovery is recorded.
LEMMA RestoreMarkKeeps ==
    ASSUME InstInv, RestoreMark
    PROVE  InstInv'
<1>1. PICK marked : marked = [slots EXCEPT ![proc.slot].rolledBack = Plan]
  OBVIOUS
<1>2. /\ proc.at = "mark" /\ UNCHANGED <<root, active, cf, power, edited>>
      /\ \/ slots' = marked /\ Finish("rolled_back")
         \/ /\ slots' = slots \/ slots' = marked
            /\ proc' = Idle /\ UNCHANGED running
  BY <1>1 DEF RestoreMark, At, GiveUp
<1>3. /\ proc \in ProcType /\ running \in BOOLEAN /\ active = proc.slot /\ active \in Slots
      /\ active # None /\ Plan = Journal(active) /\ Journal(active) \in PlanType
      /\ (proc.then = "install" => proc.package \in Packages)
  BY <1>2, RecoveryIs DEF Recovering
<1>4. RestInv /\ TypeInv /\ Unfinished(active) /\ IsBefore(Journal(active))
  BY <1>2, PartsAre DEF InstInv, RecoveringInv
<1>5. PICK f : f = [slots[active] EXCEPT !.rolledBack = Journal(active)]
  OBVIOUS
<1>6. marked = [slots EXCEPT ![active] = f] /\ slots[active] \in SlotType
  BY <1>1, <1>3, <1>4, <1>5 DEF RestInv
<1>7. /\ f \in SlotType /\ f.rolledBack = Journal(active) /\ f.journal = Journal(active)
      /\ f.cutover = slots[active].cutover /\ f.completed = NoPlan
  <2>1. Journal(active) \in FileType
    BY <1>3 DEF FileType
  <2>2. /\ f \in SlotType /\ f.rolledBack = Journal(active) /\ f.journal = slots[active].journal
        /\ f.cutover = slots[active].cutover /\ f.completed = slots[active].completed
    BY <1>5, <1>6, <2>1, MarkersAre
  <2> QED
    BY <1>4, <2>2 DEF Journal, Unfinished
<1>8. slots' = marked => Terminal(active)' /\ ~Unfinished(active)'
  <2> SUFFICES ASSUME slots' = marked PROVE Terminal(active)' /\ ~Unfinished(active)'
    OBVIOUS
  <2>1. slots'[active] = f /\ active' = active /\ f.rolledBack # NoPlan
    BY <1>2, <1>3, <1>4, <1>6, <1>7, PlanIs DEF RestInv
  <2> QED
    BY <1>7, <2>1 DEF Terminal, Unfinished, Journal
<1>9. slots' = marked /\ running' \in BOOLEAN => RestInv'
  BY <1>2, <1>3, <1>4, <1>6, <1>7, <1>8, MarkedKeeps
<1>10. CASE slots' = marked /\ Finish("rolled_back")
  <2>1. ProcInv' /\ running' \in BOOLEAN
    BY <1>2, <1>3, <1>8, <1>10, FinishKeeps
  <2> QED
    BY <1>9, <1>10, <2>1, PartsMake
<1>11. CASE /\ slots' = slots \/ slots' = marked
            /\ proc' = Idle /\ UNCHANGED running
  <2>1. slots' = slots => RestInv'
    BY <1>2, <1>3, <1>4, <1>11, RestKept DEF RestInv
  <2> QED
    BY <1>3, <1>9, <1>11, <2>1, IdleKeeps, PartsMake
<1> QED
  BY <1>2, <1>10, <1>11
-----------------------------------------------------------------------------
(* The steps that prepare a transaction. *)

\* Where a preparation is.
LEMMA PreparationIs ==
    ASSUME InstInv, proc.at \in Preparing
    PROVE  /\ proc \in ProcType /\ running \in BOOLEAN /\ RestInv /\ TypeInv
           /\ proc.slot \in Slots /\ proc.slot # active
           /\ active = None => proc.slot = "slot0"
           /\ active # None => Terminal(active)
           /\ slots[proc.slot] \in SlotType
BY PartsAre DEF InstInv, TypeInv, PreparingInv, ProcType

\* The slot that is not active is changed.
LEMMA OtherKeeps ==
    ASSUME RestInv, NEW s \in Slots, s # active, active = None => s = "slot0", NEW f \in SlotType,
           slots' = [slots EXCEPT ![s] = f],
           UNCHANGED <<root, active, cf, power, edited, running>>, SlotOK(s)',
           Unfinished(s)' => /\ active = None \/ Terminal(active)
                             /\ \A m \in Paths \ edited : root[m] = f.journal.before[m]
    PROVE  RestInv'
<1>1. slots \in [Slots -> SlotType]
  BY DEF RestInv
<1>2. /\ slots' \in [Slots -> SlotType] /\ slots'[s] = f
      /\ \A r \in Slots : r # s => slots'[r] = slots[r]
  BY <1>1
<1>3. \A r \in Slots : r # s =>
        /\ SlotOK(r)' <=> SlotOK(r)
        /\ Unfinished(r)' <=> Unfinished(r)
        /\ Terminal(r)' <=> Terminal(r)
        /\ IsCut(r)' <=> IsCut(r)
        /\ Journal(r)' = Journal(r)
  BY <1>2 DEF SlotOK, Unfinished, Terminal, Journal, IsCut
<1>4. /\ active \in Slots \/ active = None
      /\ active \in Slots =>
            /\ Terminal(active)' <=> Terminal(active)
            /\ Unfinished(active)' <=> Unfinished(active)
            /\ IsCut(active)' <=> IsCut(active)
            /\ Journal(active)' = Journal(active)
  <2>1. active' = active
    OBVIOUS
  <2> QED
    BY <1>2, <2>1 DEF RestInv, Terminal, Unfinished, IsCut, Journal
<1>5. \A r \in Slots : SlotOK(r)'
  BY <1>3 DEF RestInv, DiskInv, FilesInv
<1>6. ActiveInv'
  BY <1>4 DEF RestInv, DiskInv, FilesInv, ActiveInv, IsBefore, IsAfter, IsMixed, Gated, Ours
<1>7. OthersInv'
  <2> SUFFICES ASSUME NEW r \in Slots, r # active, Unfinished(r)'
               PROVE  /\ active = None \/ Terminal(active)'
                      /\ \A m \in Paths \ edited : root[m] = Journal(r)'.before[m]
    BY DEF OthersInv
  <2>1. CASE r = s
    BY <1>2, <1>4, <2>1 DEF Journal
  <2>2. CASE r # s
    BY <1>3, <1>4, <2>2 DEF RestInv, DiskInv, FilesInv, OthersInv
  <2> QED
    BY <2>1, <2>2
<1>8. FirstInv'
  BY <1>3 DEF RestInv, DiskInv, FilesInv, FirstInv, Slots
<1>9. EditsInv'
  BY <1>4 DEF RestInv, DiskInv, FilesInv, EditsInv
<1>10. RunInv'
  <2>1. active \in Slots => slots'[active] = slots[active]
    BY <1>2
  <2>2. OneSide' <=> OneSide
    BY <1>4, <2>1 DEF OneSide
  <2> QED
    BY <2>2 DEF RestInv, DiskInv, RunInv
<1> QED
  BY <1>2, <1>5, <1>6, <1>7, <1>8, <1>9, <1>10 DEF RestInv, DiskInv, FilesInv

\* retire_slot, up to its loop.
LEMMA RetireKeeps ==
    ASSUME InstInv, Retire
    PROVE  InstInv'
<1>1. /\ proc.at = "retire" /\ UNCHANGED <<root, slots, active, cf, power, running, edited>>
      /\ \/ proc' = [proc EXCEPT !.at = "retiring", !.todo = Files]
         \/ proc' = Idle
  BY RetiredIs DEF Retire, At
<1>2. /\ proc \in ProcType /\ running \in BOOLEAN /\ RestInv
      /\ proc.slot \in Slots /\ proc.slot # active
      /\ (active = None => proc.slot = "slot0") /\ (active # None => Terminal(active))
  BY <1>1, PreparationIs DEF Preparing
<1>3. RestInv'
  BY <1>1, <1>2, RestKept DEF RestInv
<1>4. CASE proc' = Idle
  BY <1>3, <1>4, IdleKeeps, PartsMake
<1>5. CASE proc' = [proc EXCEPT !.at = "retiring", !.todo = Files]
  <2>1. proc.package \in Packages
    BY <1>1 DEF InstInv, PreparingInv
  <2>2. /\ proc' \in ProcType /\ proc'.at = "retiring" /\ proc'.slot = proc.slot
        /\ proc'.todo = Files /\ proc'.package = proc.package
    BY <1>2, <1>5 DEF ProcType, Preparing
  <2> QED
    BY <1>1, <1>2, <1>3, <2>1, <2>2, SlotsKept, PartsMake DEF ProcInv, RecoveringInv, PreparingInv,
       ApplyingInv, Recovering, Preparing, Applying
<1> QED
  BY <1>1, <1>4, <1>5

\* A file of a slot, by its name.
LEMMA FileRemoved ==
    ASSUME NEW x \in SlotType, NEW name \in Files
    PROVE  LET f == [x EXCEPT ![name] = NoPlan]
           IN  /\ f \in SlotType /\ f[name] = NoPlan
               /\ \A other \in Files : other # name => f[other] = x[other]
               /\ f.journal = f["journal"]
<1>1. NoPlan \in FileType
  BY DEF FileType
<1> QED
  BY <1>1 DEF SlotType, Files

\* One file of the slot is removed.
LEMMA RetireFileKeeps ==
    ASSUME InstInv, RetireFile
    PROVE  InstInv'
<1>1. PICK name : name = First(RetireOrder, proc.todo)
  OBVIOUS
<1>2. PICK removed : removed = [slots EXCEPT ![proc.slot][name] = NoPlan]
  OBVIOUS
<1>3. /\ proc.at = "retiring" /\ proc.todo # {}
      /\ UNCHANGED <<root, active, cf, power, running, edited>>
      /\ \/ slots' = removed /\ proc' = [proc EXCEPT !.todo = @ \ {name}]
         \/ (slots' = slots \/ slots' = removed) /\ proc' = Idle
  BY <1>1, <1>2 DEF RetireFile, At
<1>4. /\ proc \in ProcType /\ running \in BOOLEAN /\ RestInv
      /\ proc.slot \in Slots /\ proc.slot # active /\ slots[proc.slot] \in SlotType
      /\ (active = None => proc.slot = "slot0") /\ (active # None => Terminal(active))
  BY <1>3, PreparationIs DEF Preparing
<1>5. /\ proc.todo \subseteq Files /\ proc.package \in Packages
      /\ \A other \in Files \ proc.todo : slots[proc.slot][other] = NoPlan
  BY <1>3 DEF InstInv, PreparingInv
<1>6. name \in proc.todo /\ name \in Files /\ ("journal" \in proc.todo => name = "journal")
  BY <1>1, <1>3, <1>5, FirstToRetireIs
<1>7. PICK f : f = [slots[proc.slot] EXCEPT ![name] = NoPlan]
  OBVIOUS
<1>8. /\ f \in SlotType /\ f[name] = NoPlan /\ f.journal = f["journal"]
      /\ \A other \in Files : other # name => f[other] = slots[proc.slot][other]
  BY <1>4, <1>6, <1>7, FileRemoved
<1>9. removed = [slots EXCEPT ![proc.slot] = f] /\ slots \in [Slots -> SlotType]
  BY <1>2, <1>4, <1>7 DEF RestInv
<1>10. f.journal = NoPlan
  <2>1. "journal" \in Files
    BY DEF Files
  <2>2. CASE name = "journal"
    BY <1>8, <2>2
  <2>3. CASE name # "journal"
    BY <1>5, <1>6, <1>8, <2>1, <2>3
  <2> QED
    BY <2>2, <2>3
<1>11. slots' = removed => RestInv'
  <2> SUFFICES ASSUME slots' = removed PROVE RestInv'
    OBVIOUS
  <2>1. slots'[proc.slot] = f /\ slots' = [slots EXCEPT ![proc.slot] = f]
    BY <1>4, <1>9
  <2>2. PICK s : s = proc.slot
    OBVIOUS
  <2>3. SlotOK(s)' /\ ~Unfinished(s)'
    BY <1>10, <2>1, <2>2 DEF SlotOK, Unfinished, Journal
  <2> QED
    BY <1>3, <1>4, <1>8, <2>1, <2>2, <2>3, OtherKeeps
<1>12. CASE slots' = removed /\ proc' = [proc EXCEPT !.todo = @ \ {name}]
  <2>1. PICK left : left = proc.todo \ {name}
    OBVIOUS
  <2>2. /\ proc' \in ProcType /\ proc'.at = "retiring" /\ proc'.slot = proc.slot
        /\ proc'.todo = left /\ proc'.package = proc.package
    <3>1. proc' = [proc EXCEPT !.todo = left] /\ left \subseteq Paths \cup Files
      BY <1>4, <1>5, <1>12, <2>1 DEF ProcType
    <3> QED
      BY <1>3, <1>4, <3>1 DEF ProcType
  <2>3. \A other \in Files \ left : slots'[proc.slot][other] = NoPlan
    <3>1. slots'[proc.slot] = f
      BY <1>4, <1>9, <1>12
    <3> QED
      BY <1>5, <1>8, <2>1, <3>1
  <2>4. active # None => Terminal(active)'
    <3>1. active # None => active \in Slots /\ slots'[active] = slots[active]
      BY <1>4, <1>9, <1>12 DEF RestInv
    <3> QED
      BY <1>3, <1>4, <3>1 DEF Terminal, Journal
  <2>5. PreparingInv'
    BY <1>3, <1>4, <1>5, <2>1, <2>2, <2>3, <2>4 DEF PreparingInv, Preparing
  <2> QED
    BY <1>11, <1>12, <2>2, <2>5, PartsMake DEF ProcInv, RecoveringInv, ApplyingInv, Recovering,
       Applying
<1>13. CASE (slots' = slots \/ slots' = removed) /\ proc' = Idle
  <2>1. slots' = slots => RestInv'
    BY <1>3, <1>4, RestKept DEF RestInv
  <2> QED
    BY <1>11, <1>13, <2>1, IdleKeeps, PartsMake
<1> QED
  BY <1>3, <1>12, <1>13

\* What a package makes of the members.
LEMMA AfterIs ==
    ASSUME root \in [Paths -> Contents], NEW package \in Packages
    PROVE  After(package) \in [Paths -> Contents] /\ \A g \in Gates : After(package)[g] = "gate"
<1>1. package \in Contents /\ "gate" \in Contents
  BY DEF Contents
<1>2. ASSUME NEW m \in Paths
      PROVE  (CASE m \in Gates -> "gate"
                [] m \in Settings /\ root[m] # "original" -> root[m]
                [] OTHER -> package) \in Contents
  BY <1>1
<1>3. After(package) \in [Paths -> Contents]
  BY <1>2 DEF After
<1>4. ASSUME NEW g \in Gates
      PROVE  After(package)[g] = "gate"
  <2>1. g \in Paths /\ g \notin Settings
    BY GatesAre
  <2> QED
    BY <2>1 DEF After
<1> QED
  BY <1>3, <1>4

\* The plan is made of what is installed.
LEMMA MakePlanKeeps ==
    ASSUME InstInv, MakePlan
    PROVE  InstInv'
<1>1. PICK plan : plan = [before |-> root, after |-> After(proc.package), running |-> running]
  OBVIOUS
<1>2. /\ proc.at = "retiring" /\ proc.todo = {}
      /\ UNCHANGED <<root, slots, active, cf, power, running, edited>>
      /\ proc' = [proc EXCEPT !.at = "journal", !.plan = plan] \/ proc' = Idle
  BY <1>1 DEF MakePlan, At
<1>3. /\ proc \in ProcType /\ running \in BOOLEAN /\ RestInv
      /\ proc.slot \in Slots /\ proc.slot # active
      /\ (active = None => proc.slot = "slot0") /\ (active # None => Terminal(active))
  BY <1>2, PreparationIs DEF Preparing
<1>4. RestInv'
  BY <1>2, <1>3, RestKept DEF RestInv
<1>5. CASE proc' = Idle
  BY <1>4, <1>5, IdleKeeps, PartsMake
<1>6. CASE proc' = [proc EXCEPT !.at = "journal", !.plan = plan]
  <2>1. proc.package \in Packages /\ \A name \in Files : slots[proc.slot][name] = NoPlan
    BY <1>2 DEF InstInv, PreparingInv
  <2>2. root \in [Paths -> Contents]
    BY <1>3 DEF RestInv
  <2>3. /\ plan \in PlanType /\ plan.before = root /\ \A g \in Gates : plan.after[g] = "gate"
    BY <1>1, <1>3, <2>1, <2>2, AfterIs DEF PlanType
  <2>4. /\ proc' \in ProcType /\ proc'.at = "journal" /\ proc'.slot = proc.slot
        /\ proc'.plan = plan
    BY <1>3, <1>6, <2>3 DEF ProcType, Preparing, FileType
  <2>5. Journal(proc.slot) = NoPlan
    <3>1. "journal" \in Files
      BY DEF Files
    <3> QED
      BY <2>1, <3>1 DEF Journal
  <2>6. PreparingInv'
    BY <1>2, <1>3, <2>1, <2>3, <2>4, <2>5, SlotsKept DEF PreparingInv, Preparing
  <2> QED
    BY <1>4, <2>4, <2>6, PartsMake DEF ProcInv, RecoveringInv, ApplyingInv, Recovering, Applying
<1> QED
  BY <1>2, <1>5, <1>6

\* The plan of a preparation.
LEMMA PlannedIs ==
    ASSUME InstInv, proc.at \in {"journal", "active"}
    PROVE  /\ proc.plan \in PlanType /\ \A g \in Gates : proc.plan.after[g] = "gate"
           /\ \A m \in Paths : root[m] # proc.plan.before[m] => m \in Settings /\ root[m] = "edited"
           /\ slots[proc.slot].cutover = NoPlan /\ slots[proc.slot].completed = NoPlan
           /\ slots[proc.slot].rolledBack = NoPlan
           /\ proc.at = "journal" => Journal(proc.slot) = NoPlan
           /\ proc.at = "active" => Journal(proc.slot) = proc.plan
<1>1. \A name \in Files \ {"journal"} : slots[proc.slot][name] = NoPlan
  BY DEF InstInv, PreparingInv
<1>2. {"cutover", "completed", "rolledBack"} \subseteq Files \ {"journal"}
  BY DEF Files
<1> QED
  BY <1>1, <1>2 DEF InstInv, PreparingInv

\* The journal of the new transaction is published.
LEMMA PublishJournalKeeps ==
    ASSUME InstInv, PublishJournal
    PROVE  InstInv'
<1>1. PICK published : published = [slots EXCEPT ![proc.slot].journal = proc.plan]
  OBVIOUS
<1>2. /\ proc.at = "journal" /\ UNCHANGED <<root, active, cf, power, running, edited>>
      /\ \/ slots' = slots /\ proc' = Idle
         \/ /\ Matches(proc.plan.before) /\ slots' = published
            /\ proc' = [proc EXCEPT !.at = "active"] \/ proc' = Idle
  BY <1>1 DEF PublishJournal, At
<1>3. /\ proc \in ProcType /\ running \in BOOLEAN /\ RestInv /\ slots[proc.slot] \in SlotType
      /\ proc.slot \in Slots /\ proc.slot # active
      /\ (active = None => proc.slot = "slot0") /\ (active # None => Terminal(active))
  BY <1>2, PreparationIs DEF Preparing
<1>4. /\ proc.plan \in PlanType /\ \A g \in Gates : proc.plan.after[g] = "gate"
      /\ \A m \in Paths : root[m] # proc.plan.before[m] => m \in Settings /\ root[m] = "edited"
      /\ slots[proc.slot].cutover = NoPlan /\ slots[proc.slot].completed = NoPlan
      /\ slots[proc.slot].rolledBack = NoPlan
  BY <1>2, PlannedIs
<1>5. CASE slots' = slots /\ proc' = Idle
  BY <1>2, <1>3, <1>5, RestKept, IdleKeeps, PartsMake DEF RestInv
<1>6. CASE /\ Matches(proc.plan.before) /\ slots' = published
           /\ proc' = [proc EXCEPT !.at = "active"] \/ proc' = Idle
  <2>1. PICK s : s = proc.slot
    OBVIOUS
  <2>2. PICK f : f = [slots[s] EXCEPT !.journal = proc.plan]
    OBVIOUS
  <2>3. /\ f \in SlotType /\ f.journal = proc.plan /\ f.cutover = NoPlan
        /\ f.completed = NoPlan /\ f.rolledBack = NoPlan
    <3>1. proc.plan \in FileType
      BY <1>4 DEF FileType
    <3>2. slots[s] \in SlotType
      BY <1>3, <2>1
    <3>3. /\ f \in SlotType /\ f.journal = proc.plan /\ f.cutover = slots[s].cutover
          /\ f.completed = slots[s].completed /\ f.rolledBack = slots[s].rolledBack
      BY <2>2, <3>1, <3>2, MarkersAre
    <3> QED
      BY <1>4, <2>1, <3>3
  <2>4. slots' = [slots EXCEPT ![s] = f] /\ slots'[s] = f
        /\ \A r \in Slots : r # s => slots'[r] = slots[r]
    BY <1>1, <1>3, <1>6, <2>1, <2>2 DEF RestInv
  <2>5. SlotOK(s)'
    BY <1>4, <2>3, <2>4 DEF SlotOK, Unfinished, Terminal, Journal
  <2>6. \A m \in Paths \ edited : root[m] = f.journal.before[m]
    BY <1>6, <2>3 DEF Matches
  <2>7. RestInv'
    BY <1>2, <1>3, <2>1, <2>3, <2>4, <2>5, <2>6, OtherKeeps
  <2>8. CASE proc' = Idle
    BY <2>7, <2>8, IdleKeeps, PartsMake
  <2>9. CASE proc' = [proc EXCEPT !.at = "active"]
    <3>1. /\ proc' \in ProcType /\ proc'.at = "active" /\ proc'.slot = s
          /\ proc'.plan = proc.plan
      BY <1>3, <2>1, <2>9 DEF ProcType, Preparing
    <3>2. active # None => Terminal(active)'
      <4>1. active # None => active \in Slots /\ slots'[active] = slots[active]
        BY <1>3, <2>1, <2>4 DEF RestInv
      <4> QED
        BY <1>2, <1>3, <4>1 DEF Terminal, Journal
    <3>3. \A name \in Files \ {"journal"} : slots'[s][name] = NoPlan
      BY <2>3, <2>4 DEF Files
    <3>4. Journal(s)' = proc.plan
      BY <2>3, <2>4 DEF Journal
    <3>5. PreparingInv'
      BY <1>2, <1>3, <1>4, <2>1, <3>1, <3>2, <3>3, <3>4 DEF PreparingInv, Preparing, Journal
    <3> QED
      BY <2>7, <3>1, <3>5, PartsMake DEF ProcInv, RecoveringInv, ApplyingInv, Recovering, Applying
  <2> QED
    BY <1>6, <2>8, <2>9
<1> QED
  BY <1>2, <1>5, <1>6

\* The slot becomes the active one.
LEMMA PublishActiveKeeps ==
    ASSUME InstInv, PublishActive
    PROVE  InstInv'
<1>1. PICK s : s = proc.slot
  OBVIOUS
<1>2. /\ proc.at = "active" /\ UNCHANGED <<root, slots, cf, power, running>>
      /\ \/ active' = s /\ proc' = [proc EXCEPT !.at = "gates", !.todo = Gates]
         \/ (active' = active \/ active' = s) /\ proc' = Idle
      /\ edited' = IF active' = active THEN edited
                   ELSE {m \in Paths : root[m] # proc.plan.before[m]}
  BY <1>1 DEF PublishActive, At
<1>3. /\ proc \in ProcType /\ running \in BOOLEAN /\ RestInv /\ slots[s] \in SlotType
      /\ s \in Slots /\ s # active
      /\ (active = None => s = "slot0") /\ (active # None => Terminal(active))
  BY <1>1, <1>2, PreparationIs DEF Preparing
<1>4. /\ proc.plan \in PlanType /\ \A g \in Gates : proc.plan.after[g] = "gate"
      /\ \A m \in Paths : root[m] # proc.plan.before[m] => m \in Settings /\ root[m] = "edited"
      /\ slots[s].cutover = NoPlan /\ slots[s].completed = NoPlan
      /\ slots[s].rolledBack = NoPlan /\ Journal(s) = proc.plan
  BY <1>1, <1>2, PlannedIs
<1>5. CASE active' = active /\ proc' = Idle
  <2>1. edited' = edited
    BY <1>2, <1>5
  <2> QED
    BY <1>2, <1>3, <1>5, <2>1, RestKept, IdleKeeps, PartsMake DEF RestInv
<1>6. ASSUME active' = s
      PROVE  RestInv' /\ Unfinished(s)' /\ ~IsCut(s)' /\ Journal(s)' = proc.plan
  <2>1. edited' = {m \in Paths : root[m] # proc.plan.before[m]} /\ s # None
    BY <1>2, <1>3, <1>6 DEF Slots, None
  <2>2. Journal(s) # NoPlan /\ Unfinished(s) /\ ~IsCut(s) /\ ~Terminal(s)
    BY <1>4, PlanIs DEF Unfinished, IsCut, Terminal
  <2>3. \A r \in Slots : /\ (Unfinished(r)' <=> Unfinished(r)) /\ (IsCut(r)' <=> IsCut(r))
                         /\ (Terminal(r)' <=> Terminal(r)) /\ Journal(r)' = Journal(r)
                         /\ (SlotOK(r)' <=> SlotOK(r))
    BY <1>2 DEF Unfinished, IsCut, Terminal, Journal, SlotOK
  <2>4. \A m \in Ours' : root'[m] = Journal(s).before[m]
    BY <1>2, <1>4, <2>1 DEF Ours
  <2>5. ActiveInv'
    <3>1. IsBefore(Journal(s))'
      BY <1>2, <2>3, <2>4, <1>3 DEF IsBefore
    <3> QED
      BY <1>3, <1>6, <2>1, <2>2, <2>3, <3>1 DEF ActiveInv, Journal, IsBefore, Unfinished, IsCut,
         Terminal
  <2>6. \A r \in Slots : r # s => ~Unfinished(r)
    <3> SUFFICES ASSUME NEW r \in Slots, r # s PROVE ~Unfinished(r)
      OBVIOUS
    <3>1. CASE active = None
      <4>1. r = "slot1"
        BY <1>3, <3>1 DEF Slots
      <4> QED
        BY <1>3, <3>1, <4>1 DEF RestInv, DiskInv, FilesInv, FirstInv, Unfinished
    <3>2. CASE active # None
      <4>1. r = active
        BY <1>3, <3>2 DEF Slots, RestInv
      <4> QED
        BY <1>3, <3>2, <4>1 DEF Terminal, Unfinished
    <3> QED
      BY <3>1, <3>2
  <2>7. OthersInv'
    BY <1>6, <2>3, <2>6 DEF OthersInv
  <2>8. FirstInv' /\ \A r \in Slots : SlotOK(r)'
    BY <1>3, <1>6, <2>1, <2>3 DEF RestInv, DiskInv, FilesInv, FirstInv
  <2>9. EditsInv'
    BY <1>2, <1>4, <2>1 DEF EditsInv
  <2>10. RunInv'
    <3>1. slots'[active'].journal.before = Journal(s).before
      BY <1>2, <1>6 DEF Journal
    <3> QED
      BY <2>4, <3>1 DEF RunInv, OneSide, Ours
  <2>11. edited' \in SUBSET Settings
    BY <1>4, <2>1
  <2> QED
    BY <1>2, <1>3, <1>4, <1>6, <2>2, <2>3, <2>5, <2>7, <2>8, <2>9, <2>10, <2>11
       DEF RestInv, DiskInv, FilesInv
<1>7. CASE active' = s /\ proc' = Idle
  BY <1>6, <1>7, IdleKeeps, PartsMake
<1>8. CASE active' = s /\ proc' = [proc EXCEPT !.at = "gates", !.todo = Gates]
  <2>1. Gates \subseteq Paths
    BY GatesAre
  <2>2. /\ proc' \in ProcType /\ proc'.at = "gates" /\ proc'.slot = s /\ proc'.todo = Gates
        /\ proc'.plan = proc.plan
    BY <1>1, <1>3, <1>8, <2>1 DEF ProcType, Applying
  <2>3. Unfinished(active)' /\ ~IsCut(active)' /\ Journal(active)' = proc.plan
    BY <1>6, <1>8 DEF Unfinished, IsCut, Journal
  <2>4. ApplyingInv'
    BY <1>8, <2>2, <2>3 DEF ApplyingInv, Applying
  <2> QED
    BY <1>6, <1>8, <2>2, <2>4, PartsMake DEF ProcInv, RecoveringInv, PreparingInv, Recovering,
       Preparing
<1> QED
  BY <1>2, <1>5, <1>7, <1>8
-----------------------------------------------------------------------------
(* The steps that apply a transaction. *)

\* Where an application of a plan is.
LEMMA ApplicationIs ==
    ASSUME InstInv, proc.at \in Applying
    PROVE  /\ proc \in ProcType /\ running \in BOOLEAN /\ RestInv /\ TypeInv
           /\ active = proc.slot /\ active \in Slots /\ active # None
           /\ SlotOK(active) /\ Unfinished(active) /\ ~Terminal(active)
           /\ Journal(active) = proc.plan /\ Plan = proc.plan /\ proc.plan \in PlanType
           /\ \A g \in Gates : proc.plan.after[g] = "gate"
           /\ slots[active] \in SlotType
<1>1. /\ proc \in ProcType /\ running \in BOOLEAN /\ RestInv /\ TypeInv /\ active = proc.slot
      /\ Unfinished(active) /\ Journal(active) = proc.plan
  BY PartsAre DEF InstInv, TypeInv, ApplyingInv
<1>2. active \in Slots /\ active # None /\ slots[active] \in SlotType
  BY <1>1 DEF ProcType, Slots, None, RestInv
<1>3. SlotOK(active) /\ Journal(active) # NoPlan
  BY <1>1, <1>2 DEF RestInv, DiskInv, FilesInv, Unfinished
<1>4. ~Terminal(active)
  BY <1>1 DEF Unfinished, Terminal
<1>5. proc.plan \in PlanType
  BY <1>1, <1>3 DEF ProcType, FileType
<1> QED
  BY <1>1, <1>2, <1>3, <1>4, <1>5 DEF SlotOK, Plan, Journal

\* The transaction is rolled back.
LEMMA RollbackKeeps ==
    ASSUME proc \in ProcType, Rollback, proc.slot = active', Unfinished(active)'
    PROVE  ProcInv'
<1>1. NoPlan \in FileType
  BY DEF FileType
<1>2. /\ proc' \in ProcType /\ proc'.at = "restore" /\ proc'.slot = proc.slot
      /\ proc'.then = None
  BY <1>1 DEF Rollback, ProcType, Recovering
<1>3. None # "install"
  BY DEF None
<1> QED
  BY <1>2, <1>3 DEF ProcInv, RecoveringInv, PreparingInv, ApplyingInv, Recovering, Preparing,
     Applying

\* A member of the active transaction is published.
LEMMA PublishedKeeps ==
    ASSUME RestInv, active \in Slots, Unfinished(active), ~Terminal(active),
           NEW m \in Paths, NEW content \in Contents, root' = [root EXCEPT ![m] = content],
           UNCHANGED <<slots, active, cf, power, edited, running>>, m \in Gates \/ ~running,
           \/ m \in Gates /\ (IsCut(active) => content = "gate")
           \/ /\ IsCut(active) /\ content = Journal(active).after[m] /\ Gated /\ m \notin Gates
    PROVE  RestInv'
<1>1. /\ root' \in [Paths -> Contents] /\ root'[m] = content
      /\ \A n \in Paths : n # m => root'[n] = root[n]
  BY DEF RestInv
<1>2. active # None /\ Journal(active) # NoPlan
  BY DEF Slots, None, Unfinished
<1>3. /\ Ours' = Ours /\ Ours \subseteq Paths /\ Ours \cap Gates = {} /\ edited \cap Gates = {}
      /\ edited \subseteq Paths /\ Gates \subseteq Paths
  BY GatesAre DEF Ours, RestInv
<1>4. ActiveInv
  BY DEF RestInv, DiskInv, FilesInv
<1>5. ActiveInv'
  <2>1. CASE m \in Gates /\ (IsCut(active) => content = "gate")
    <3>1. \A n \in Ours : root'[n] = root[n]
      BY <1>1, <1>3, <2>1
    <3>2. \A p : /\ IsBefore(p) => \A n \in Ours : root'[n] = p.before[n]
                 /\ IsMixed(p) => \A n \in Ours : root'[n] \in {p.before[n], p.after[n]}
      BY <3>1 DEF IsBefore, IsMixed
    <3>3. IsCut(active) /\ Gated => Gated'
      BY <1>1, <1>3, <2>1 DEF Gated
    <3> QED
      BY <1>2, <1>3, <1>4, <3>2, <3>3, SlotsKept DEF ActiveInv, IsBefore, IsMixed
  <2>2. CASE /\ IsCut(active) /\ content = Journal(active).after[m] /\ Gated /\ m \notin Gates
    <3>1. IsMixed(Journal(active))
      BY <1>2, <1>4, <2>2 DEF ActiveInv
    <3>2. \A n \in Ours : root'[n] \in {Journal(active).before[n], Journal(active).after[n]}
      BY <1>1, <1>3, <2>2, <3>1 DEF IsMixed
    <3>3. Gated'
      BY <1>1, <1>3, <2>2 DEF Gated
    <3> QED
      BY <1>2, <1>3, <2>2, <3>2, <3>3, SlotsKept DEF ActiveInv, IsMixed
  <2> QED
    BY <2>1, <2>2
<1>6. OthersInv'
  <2>1. \A s \in Slots : ~(s # active /\ Unfinished(s))
    BY <1>2 DEF RestInv, DiskInv, FilesInv, OthersInv
  <2> QED
    BY <2>1, SlotsKept DEF OthersInv
<1>7. EditsInv'
  <2>1. CASE IsCut(active)
    BY <1>2, <2>1, SlotsKept DEF EditsInv
  <2>2. CASE ~IsCut(active)
    <3>1. \A n \in edited : root[n] = "edited"
      BY <2>2 DEF RestInv, DiskInv, FilesInv, EditsInv
    <3> QED
      BY <1>1, <1>3, <2>2, <3>1 DEF EditsInv
  <2> QED
    BY <2>1, <2>2
<1>8. (\A s \in Slots : SlotOK(s))' /\ FirstInv'
  BY SlotsKept DEF RestInv, DiskInv, FilesInv, FirstInv
<1>9. RunInv'
  <2>1. m \in Gates => (OneSide => OneSide')
    BY <1>1, <1>3 DEF OneSide, Ours
  <2> QED
    BY <2>1 DEF RunInv, RestInv, DiskInv
<1> QED
  BY <1>1, <1>5, <1>6, <1>7, <1>8, <1>9 DEF RestInv, DiskInv, FilesInv

\* A gate is put in place.
LEMMA PublishGateKeeps ==
    ASSUME InstInv, PublishGate
    PROVE  InstInv'
<1>1. PICK m : m = First(Members, proc.todo)
  OBVIOUS
<1>2. /\ proc.at = "gates" /\ proc.todo # {}
      /\ UNCHANGED <<slots, active, cf, power, running, edited>>
      /\ \/ /\ root' = [root EXCEPT ![m] = proc.plan.after[m]]
            /\ proc' = [proc EXCEPT !.todo = @ \ {m}]
         \/ /\ root' = root \/ root' = [root EXCEPT ![m] = proc.plan.after[m]]
            /\ proc' = Idle
  BY <1>1 DEF PublishGate, At
<1>3. /\ proc \in ProcType /\ running \in BOOLEAN /\ RestInv /\ active = proc.slot
      /\ active \in Slots /\ active # None /\ Unfinished(active) /\ ~Terminal(active)
      /\ Journal(active) = proc.plan /\ \A g \in Gates : proc.plan.after[g] = "gate"
  BY <1>2, ApplicationIs DEF Applying
<1>4. ~IsCut(active) /\ proc.todo \subseteq Gates /\ Gates \subseteq Paths
  BY <1>2, GatesAre DEF InstInv, ApplyingInv
<1>5. m \in Gates /\ m \in Paths /\ proc.plan.after[m] = "gate" /\ "gate" \in Contents
  BY <1>1, <1>2, <1>3, <1>4, FirstIs DEF Contents
<1>6. RestInv'
  <2>1. CASE root' = root
    BY <1>2, <1>3, <2>1, RestKept DEF RestInv
  <2>2. CASE root' = [root EXCEPT ![m] = proc.plan.after[m]]
    <3>1. root' = [root EXCEPT ![m] = "gate"]
      BY <1>5, <2>2
    <3> QED
      BY <1>2, <1>3, <1>4, <1>5, <3>1, PublishedKeeps
  <2> QED
    BY <1>2, <2>1, <2>2
<1>7. CASE proc' = Idle
  BY <1>6, <1>7, IdleKeeps, PartsMake
<1>8. CASE proc' = [proc EXCEPT !.todo = @ \ {m}]
  <2>1. PICK left : left = proc.todo \ {m} /\ left \subseteq Gates
    BY <1>4
  <2>2. proc' = [proc EXCEPT !.todo = left]
    BY <1>3, <1>8, <2>1 DEF ProcType
  <2>3. /\ proc' \in ProcType /\ proc'.at = "gates" /\ proc'.slot = proc.slot
        /\ proc'.todo = left /\ proc'.plan = proc.plan
    BY <1>2, <1>3, <1>4, <2>1, <2>2 DEF ProcType
  <2>4. ApplyingInv'
    BY <1>2, <1>3, <1>4, <2>1, <2>3, SlotsKept DEF ApplyingInv, Applying
  <2> QED
    BY <1>6, <2>3, <2>4, PartsMake DEF ProcInv, RecoveringInv, PreparingInv, Recovering, Preparing
<1> QED
  BY <1>2, <1>7, <1>8

\* The set is the plan's, behind its gates.
LEMMA GatedIs ==
    ASSUME NEW plan, \A g \in Gates : plan.after[g] = "gate", MatchesAfterGate(plan)
    PROVE  Gated
BY GatesAre DEF MatchesAfterGate, Gated

\* The services stop.
LEMMA StopServicesKeeps ==
    ASSUME InstInv, StopServices
    PROVE  InstInv'
<1>1. /\ proc.at = "gates" /\ UNCHANGED <<root, slots, active, cf, power, edited>>
      /\ \/ /\ MatchesAfterGate(proc.plan) /\ running' = FALSE
            /\ proc' = [proc EXCEPT !.at = "recheck"]
         \/ Rollback /\ (running' = FALSE \/ running' = running)
  BY DEF StopServices, StopFails, At
<1>2. /\ proc \in ProcType /\ running \in BOOLEAN /\ RestInv /\ active = proc.slot
      /\ active \in Slots /\ active # None /\ Unfinished(active)
      /\ Journal(active) = proc.plan /\ \A g \in Gates : proc.plan.after[g] = "gate"
  BY <1>1, ApplicationIs DEF Applying
<1>3. ~IsCut(active)
  BY <1>1 DEF InstInv, ApplyingInv
<1>4. RestInv'
  <2>1. running' = FALSE \/ running' = running
    BY <1>1
  <2>2. running' \in BOOLEAN /\ (running' => running)
    <3>1. CASE running' = FALSE
      BY <3>1
    <3>2. CASE running' = running
      BY <1>2, <3>2
    <3> QED
      BY <2>1, <3>1, <3>2
  <2> QED
    BY <1>1, <1>2, <2>2, RestKept DEF RestInv
<1>5. CASE Rollback
  BY <1>1, <1>2, <1>4, <1>5, SlotsKept, RollbackKeeps, PartsMake
<1>6. CASE /\ MatchesAfterGate(proc.plan) /\ running' = FALSE
           /\ proc' = [proc EXCEPT !.at = "recheck"]
  <2>1. Gated'
    <3>1. Gated
      BY <1>2, <1>6, GatedIs
    <3> QED
      BY <1>1, <3>1 DEF Gated
  <2>2. /\ proc' \in ProcType /\ proc'.at = "recheck" /\ proc'.slot = proc.slot
        /\ proc'.plan = proc.plan
    BY <1>2, <1>6 DEF ProcType, Applying
  <2>3. ApplyingInv'
    BY <1>1, <1>2, <1>3, <1>6, <2>1, <2>2, SlotsKept DEF ApplyingInv, Applying
  <2> QED
    BY <1>4, <2>2, <2>3, PartsMake DEF ProcInv, RecoveringInv, PreparingInv, Recovering, Preparing
<1> QED
  BY <1>1, <1>5, <1>6

\* The set is compared again.
LEMMA RecheckKeeps ==
    ASSUME InstInv, Recheck
    PROVE  InstInv'
<1>1. /\ proc.at = "recheck" /\ UNCHANGED <<root, slots, active, cf, power, running, edited>>
      /\ proc' = [proc EXCEPT !.at = "cutover"] \/ Rollback
  BY DEF Recheck, At
<1>2. /\ proc \in ProcType /\ running \in BOOLEAN /\ RestInv /\ active = proc.slot
      /\ active \in Slots /\ active # None /\ Unfinished(active) /\ Journal(active) = proc.plan
  BY <1>1, ApplicationIs DEF Applying
<1>3. ~IsCut(active) /\ Gated /\ ~running
  BY <1>1 DEF InstInv, ApplyingInv
<1>4. RestInv'
  BY <1>1, <1>2, RestKept DEF RestInv
<1>5. CASE Rollback
  BY <1>1, <1>2, <1>4, <1>5, SlotsKept, RollbackKeeps, PartsMake
<1>6. CASE proc' = [proc EXCEPT !.at = "cutover"]
  <2>1. Gated' /\ ~running'
    BY <1>1, <1>3 DEF Gated
  <2>2. /\ proc' \in ProcType /\ proc'.at = "cutover" /\ proc'.slot = proc.slot
        /\ proc'.plan = proc.plan
    BY <1>2, <1>6 DEF ProcType, Applying
  <2>3. ApplyingInv'
    BY <1>1, <1>2, <1>3, <2>1, <2>2, SlotsKept DEF ApplyingInv, Applying
  <2> QED
    BY <1>4, <2>2, <2>3, PartsMake DEF ProcInv, RecoveringInv, PreparingInv, Recovering, Preparing
<1> QED
  BY <1>1, <1>5, <1>6

\* From the cutover on the installation goes forward, or back to the old set.
LEMMA CutoverKeeps ==
    ASSUME InstInv, Cutover
    PROVE  InstInv'
<1>1. PICK marked : marked = [slots EXCEPT ![proc.slot].cutover = Plan]
  OBVIOUS
<1>2. /\ proc.at = "cutover" /\ UNCHANGED <<root, active, cf, power, running, edited>>
      /\ \/ /\ slots' = marked
            /\ proc' = [proc EXCEPT !.at = "publish", !.todo = Changed(Plan)]
         \/ /\ slots' = slots \/ slots' = marked
            /\ Rollback
  BY <1>1 DEF Cutover, At
<1>3. /\ proc \in ProcType /\ running \in BOOLEAN /\ RestInv /\ active = proc.slot
      /\ active \in Slots /\ active # None /\ Unfinished(active) /\ Plan = Journal(active)
      /\ Journal(active) = proc.plan /\ proc.plan \in PlanType /\ slots[active] \in SlotType
  BY <1>2, ApplicationIs DEF Applying
<1>4. ~IsCut(active) /\ Gated /\ ~running
  BY <1>2 DEF InstInv, ApplyingInv
<1>5. IsBefore(Journal(active))
  BY <1>3, <1>4 DEF RestInv, DiskInv, FilesInv, ActiveInv
<1>6. PICK f : f = [slots[active] EXCEPT !.cutover = Journal(active)]
  OBVIOUS
<1>7. marked = [slots EXCEPT ![active] = f]
  BY <1>1, <1>3, <1>6 DEF RestInv
<1>8. /\ f \in SlotType /\ f.cutover = Journal(active) /\ f.journal = Journal(active)
      /\ f.completed = NoPlan /\ f.rolledBack = NoPlan
  <2>1. Journal(active) \in FileType
    BY <1>3 DEF FileType
  <2>2. /\ f \in SlotType /\ f.cutover = Journal(active) /\ f.journal = slots[active].journal
        /\ f.completed = slots[active].completed /\ f.rolledBack = slots[active].rolledBack
    BY <1>3, <1>6, <2>1, MarkersAre
  <2> QED
    BY <1>3, <2>2 DEF Journal, Unfinished
<1>9. slots' = marked =>
        Unfinished(active)' /\ IsCut(active)' /\ Journal(active)' = Journal(active)
  <2> SUFFICES ASSUME slots' = marked
               PROVE  Unfinished(active)' /\ IsCut(active)' /\ Journal(active)' = Journal(active)
    OBVIOUS
  <2>1. slots'[active] = f /\ active' = active /\ Journal(active) # NoPlan
    BY <1>2, <1>3, <1>7 DEF RestInv, Unfinished
  <2> QED
    BY <1>8, <2>1 DEF IsCut, Unfinished, Journal
<1>10. slots' = marked => RestInv'
  BY <1>2, <1>3, <1>4, <1>5, <1>7, <1>8, MarkedKeeps
<1>11. slots' = slots => RestInv' /\ Unfinished(active)'
  BY <1>2, <1>3, RestKept, SlotsKept DEF RestInv
<1>12. CASE (slots' = slots \/ slots' = marked) /\ Rollback
  BY <1>2, <1>3, <1>9, <1>10, <1>11, <1>12, RollbackKeeps, PartsMake
<1>13. CASE /\ slots' = marked
            /\ proc' = [proc EXCEPT !.at = "publish", !.todo = Changed(Plan)]
  <2>1. PICK todo : todo = Changed(Plan) /\ todo \subseteq Paths
    BY DEF Changed
  <2>2. /\ proc' \in ProcType /\ proc'.at = "publish" /\ proc'.slot = proc.slot
        /\ proc'.todo = todo /\ proc'.plan = proc.plan
    BY <1>3, <1>13, <2>1 DEF ProcType, Applying
  <2>3. Gated' /\ ~running'
    BY <1>2, <1>4 DEF Gated
  <2>4. ApplyingInv'
    BY <1>2, <1>3, <1>9, <1>13, <2>1, <2>2, <2>3 DEF ApplyingInv, Applying
  <2> QED
    BY <1>10, <1>13, <2>2, <2>4, PartsMake DEF ProcInv, RecoveringInv, PreparingInv, Recovering,
       Preparing
<1> QED
  BY <1>2, <1>12, <1>13

\* A member of the new set is published.
LEMMA PublishMemberKeeps ==
    ASSUME InstInv, PublishMember
    PROVE  InstInv'
<1>1. PICK m : m = First(Members, proc.todo)
  OBVIOUS
<1>2. /\ proc.at = "publish" /\ proc.todo # {}
      /\ UNCHANGED <<slots, active, cf, power, running, edited>>
      /\ \/ /\ root' = [root EXCEPT ![m] = proc.plan.after[m]]
            /\ proc' = [proc EXCEPT !.todo = @ \ {m}]
         \/ /\ root' = root \/ root' = [root EXCEPT ![m] = proc.plan.after[m]]
            /\ Rollback
  BY <1>1 DEF PublishMember, At
<1>3. /\ proc \in ProcType /\ running \in BOOLEAN /\ RestInv /\ active = proc.slot
      /\ active \in Slots /\ active # None /\ Unfinished(active) /\ ~Terminal(active)
      /\ Journal(active) = proc.plan /\ \A g \in Gates : proc.plan.after[g] = "gate"
      /\ proc.plan \in PlanType
  BY <1>2, ApplicationIs DEF Applying
<1>4. IsCut(active) /\ Gated /\ ~running /\ proc.todo \subseteq Paths
  BY <1>2 DEF InstInv, ApplyingInv
<1>5. m \in Paths
  BY <1>1, <1>2, <1>4, FirstIs
<1>6. PICK content : content = proc.plan.after[m] /\ content \in Contents
  BY <1>3, <1>5 DEF PlanType
<1>7. RestInv'
  <2>1. CASE root' = root
    BY <1>2, <1>3, <2>1, RestKept DEF RestInv
  <2>2. CASE root' = [root EXCEPT ![m] = content]
    <3>1. m \in Gates => content = "gate"
      BY <1>3, <1>6
    <3>2. content = Journal(active).after[m]
      BY <1>3, <1>6
    <3> QED
      BY <1>2, <1>3, <1>4, <1>5, <1>6, <2>2, <3>1, <3>2, PublishedKeeps
  <2> QED
    BY <1>2, <1>6, <2>1, <2>2
<1>8. CASE Rollback
  BY <1>2, <1>3, <1>7, <1>8, SlotsKept, RollbackKeeps, PartsMake
<1>9. CASE /\ root' = [root EXCEPT ![m] = proc.plan.after[m]]
           /\ proc' = [proc EXCEPT !.todo = @ \ {m}]
  <2>1. PICK left : left = proc.todo \ {m} /\ left \subseteq Paths
    BY <1>4
  <2>2. proc' = [proc EXCEPT !.todo = left]
    BY <1>3, <1>9, <2>1 DEF ProcType
  <2>3. /\ proc' \in ProcType /\ proc'.at = "publish" /\ proc'.slot = proc.slot
        /\ proc'.todo = left /\ proc'.plan = proc.plan
    BY <1>2, <1>3, <2>1, <2>2 DEF ProcType
  <2>4. Gated'
    <3>1. root \in [Paths -> Contents] /\ Gates \subseteq Paths
      BY <1>3, GatesAre DEF RestInv
    <3> QED
      BY <1>3, <1>4, <1>9, <3>1 DEF Gated
  <2>5. ApplyingInv'
    BY <1>2, <1>3, <1>4, <2>1, <2>3, <2>4, SlotsKept DEF ApplyingInv, Applying
  <2> QED
    BY <1>7, <2>3, <2>5, PartsMake DEF ProcInv, RecoveringInv, PreparingInv, Recovering, Preparing
<1> QED
  BY <1>2, <1>8, <1>9

\* The new set starts.
LEMMA ActivateKeeps ==
    ASSUME InstInv, Activate
    PROVE  InstInv'
<1>1. /\ proc.at = "publish" /\ UNCHANGED <<root, slots, active, cf, power, edited>>
      /\ \/ /\ Matches(proc.plan.after) /\ running' = TRUE
            /\ proc' = [proc EXCEPT !.at = "verify"]
         \/ UNCHANGED running /\ Rollback
         \/ /\ Matches(proc.plan.after) /\ running' \in {TRUE, running}
            /\ Rollback
  BY DEF Activate, StartFails, At
<1>2. /\ proc \in ProcType /\ running \in BOOLEAN /\ RestInv /\ active = proc.slot
      /\ active \in Slots /\ active # None /\ Unfinished(active)
      /\ Journal(active) = proc.plan
  BY <1>1, ApplicationIs DEF Applying
<1>3. IsCut(active) /\ Gated /\ ~running
  BY <1>1 DEF InstInv, ApplyingInv
<1>4. Matches(proc.plan.after) => IsAfter(Journal(active)) /\ OneSide
  <2>1. Matches(proc.plan.after) => IsAfter(Journal(active))
    BY <1>2 DEF Matches, IsAfter, Ours
  <2> QED
    BY <2>1, SideIs
<1>5. RestInv'
  <2>1. running' \in BOOLEAN /\ (running' => running \/ OneSide)
    <3>1. CASE running' = running
      BY <1>2, <3>1
    <3>2. CASE Matches(proc.plan.after) /\ running' = TRUE
      BY <1>4, <3>2
    <3> QED
      BY <1>1, <3>1, <3>2
  <2> QED
    BY <1>1, <1>2, <2>1, RestKept DEF RestInv
<1>6. CASE Rollback
  BY <1>1, <1>2, <1>5, <1>6, SlotsKept, RollbackKeeps, PartsMake
<1>7. CASE Matches(proc.plan.after) /\ proc' = [proc EXCEPT !.at = "verify"]
  <2>1. Gated' /\ IsAfter(Journal(active))'
    <3>1. Gated /\ IsAfter(Journal(active))
      BY <1>3, <1>4, <1>7
    <3> QED
      BY <1>1, <3>1, SlotsKept DEF Gated, IsAfter, Ours
  <2>2. /\ proc' \in ProcType /\ proc'.at = "verify" /\ proc'.slot = proc.slot
        /\ proc'.plan = proc.plan
    BY <1>2, <1>7 DEF ProcType, Applying
  <2>3. ApplyingInv'
    BY <1>1, <1>2, <1>3, <2>1, <2>2, SlotsKept DEF ApplyingInv, Applying
  <2> QED
    BY <1>5, <2>2, <2>3, PartsMake DEF ProcInv, RecoveringInv, PreparingInv, Recovering, Preparing
<1> QED
  BY <1>1, <1>6, <1>7

\* The end of an installation is recorded.
LEMMA CompleteKeeps ==
    ASSUME InstInv, Complete
    PROVE  InstInv'
<1>1. PICK marked : marked = [slots EXCEPT ![proc.slot].completed = Plan]
  OBVIOUS
<1>2. /\ proc.at = "verify" /\ UNCHANGED <<root, active, cf, power, running, edited>>
      /\ \/ (slots' = slots \/ slots' = marked) /\ proc' = Idle
         \/ slots' = slots /\ Rollback
  BY <1>1 DEF Complete, At
<1>3. /\ proc \in ProcType /\ running \in BOOLEAN /\ RestInv /\ active = proc.slot
      /\ active \in Slots /\ active # None /\ Unfinished(active) /\ Plan = Journal(active)
      /\ Journal(active) = proc.plan /\ proc.plan \in PlanType /\ slots[active] \in SlotType
  BY <1>2, ApplicationIs DEF Applying
<1>4. IsAfter(Journal(active))
  BY <1>2 DEF InstInv, ApplyingInv
<1>5. PICK f : f = [slots[active] EXCEPT !.completed = Journal(active)]
  OBVIOUS
<1>6. marked = [slots EXCEPT ![active] = f]
  BY <1>1, <1>3, <1>5 DEF RestInv
<1>7. /\ f \in SlotType /\ f.completed = Journal(active) /\ f.journal = Journal(active)
      /\ f.cutover = slots[active].cutover /\ f.rolledBack = NoPlan
  <2>1. Journal(active) \in FileType
    BY <1>3 DEF FileType
  <2>2. /\ f \in SlotType /\ f.completed = Journal(active) /\ f.journal = slots[active].journal
        /\ f.cutover = slots[active].cutover /\ f.rolledBack = slots[active].rolledBack
    BY ZenonT(60), <1>3, <1>5, <2>1, MarkersAre
  <2> QED
    BY <1>3, <2>2 DEF Journal, Unfinished
<1>8. slots' = marked => ~Unfinished(active)'
  <2> SUFFICES ASSUME slots' = marked PROVE ~Unfinished(active)'
    OBVIOUS
  <2>1. slots'[active] = f /\ active' = active /\ f.completed # NoPlan
    BY <1>2, <1>3, <1>6, <1>7, PlanIs DEF RestInv
  <2> QED
    BY <2>1 DEF Unfinished
<1>9. slots' = marked => RestInv'
  BY <1>2, <1>3, <1>4, <1>6, <1>7, <1>8, MarkedKeeps
<1>10. slots' = slots => RestInv' /\ Unfinished(active)'
  BY <1>2, <1>3, RestKept, SlotsKept DEF RestInv
<1>11. CASE (slots' = slots \/ slots' = marked) /\ proc' = Idle
  BY <1>9, <1>10, <1>11, IdleKeeps, PartsMake
<1>12. CASE slots' = slots /\ Rollback
  BY <1>2, <1>3, <1>10, <1>12, RollbackKeeps, PartsMake
<1> QED
  BY <1>2, <1>11, <1>12
-----------------------------------------------------------------------------
(* The boot, the entries and the environment. *)

\* A boot script or the operator asks for the recovery of what is active.
LEMMA EnterWithKeeps ==
    ASSUME RestInv, NEW then \in {"network", "start", "stop", "only"}, active' = active,
           EnterWith(then)
    PROVE  ProcInv'
<1>1. CASE active = None
  BY <1>1, IdleKeeps DEF EnterWith
<1>2. CASE active # None
  <2>1. active \in Slots /\ then # "install" /\ None \in Packages \cup {None}
    BY <1>2 DEF RestInv
  <2>2. /\ proc' \in ProcType /\ proc'.at = "recover" /\ proc'.slot = active
        /\ proc'.then = then
    BY <1>2, <2>1, IdleIs DEF EnterWith, ProcType, Recovering, Idle
  <2> QED
    BY <2>1, <2>2 DEF ProcInv, RecoveringInv, PreparingInv, ApplyingInv, Recovering, Preparing,
       Applying
<1> QED
  BY <1>1, <1>2

\* A process that is left alone is where it was.
LEMMA ProcKept ==
    ASSUME ProcInv, UNCHANGED <<root, slots, active, running, proc, edited>>
    PROVE  ProcInv'
<1>1. Ours' = Ours /\ (Gated' <=> Gated)
  BY DEF Ours, Gated
<1>2. /\ IsBefore(Journal(active))' <=> IsBefore(Journal(active))
      /\ IsAfter(Journal(active))' <=> IsAfter(Journal(active))
  BY <1>1, SlotsKept DEF IsBefore, IsAfter
<1>3. RecoveringInv'
  BY <1>1, <1>2, SlotsKept DEF ProcInv, RecoveringInv
<1>4. PreparingInv'
  BY SlotsKept DEF ProcInv, PreparingInv, Journal
<1>5. ApplyingInv'
  BY <1>1, <1>2, SlotsKept DEF ProcInv, ApplyingInv
<1> QED
  BY <1>3, <1>4, <1>5 DEF ProcInv

\* The gate of rcS.
LEMMA BootNetworkKeeps ==
    ASSUME InstInv, BootNetwork
    PROVE  InstInv'
<1>1. /\ UNCHANGED <<root, slots, active, cf, running, edited>> /\ power' = "rc3"
      /\ EnterWith("network") \/ UNCHANGED proc
  BY DEF BootNetwork
<1>2. ProcInv /\ RestInv
  BY PartsAre
<1>3. RestInv'
  BY <1>1, <1>2, RestKept DEF RestInv
<1>4. ProcInv'
  BY <1>1, <1>2, EnterWithKeeps, ProcKept
<1> QED
  BY <1>3, <1>4, PartsMake

\* The gate of rc3; the script it replaces is there only when the set is whole.
LEMMA BootApplicationKeeps ==
    ASSUME InstInv, BootApplication
    PROVE  InstInv'
<1>1. /\ UNCHANGED <<root, slots, active, cf, edited>> /\ power' = "up" /\ proc.at = "idle"
      /\ \/ EnterWith("start") /\ UNCHANGED running
         \/ root[AppGate] # "gate" /\ UNCHANGED proc /\ running' = cf
  BY DEF BootApplication, At
<1>2. ProcInv /\ RestInv
  BY PartsAre
<1>3. CASE EnterWith("start") /\ UNCHANGED running
  <2>1. RestInv'
    BY <1>1, <1>2, <1>3, RestKept DEF RestInv
  <2>2. ProcInv'
    BY <1>1, <1>2, <1>3, EnterWithKeeps
  <2> QED
    BY <2>1, <2>2, PartsMake
<1>4. CASE root[AppGate] # "gate" /\ UNCHANGED proc /\ running' = cf
  <2>1. ~Gated
    BY <1>4 DEF Gated, Gates
  <2>2. OneSide
    <3>1. CASE active = None
      BY <3>1, SideIs
    <3>2. CASE active # None
      <4>1. active \in Slots /\ SlotOK(active) /\ Journal(active) # NoPlan /\ ActiveInv
        BY <1>2, <3>2 DEF RestInv, DiskInv, FilesInv, ActiveInv
      <4>2. Unfinished(active) \/ Terminal(active)
        BY <4>1 DEF SlotOK
      <4>3. IsBefore(Journal(active)) \/ IsAfter(Journal(active))
        BY <2>1, <3>2, <4>1, <4>2 DEF ActiveInv
      <4> QED
        BY <4>3, SideIs
    <3> QED
      BY <3>1, <3>2
  <2>3. running' \in BOOLEAN
    BY <1>2, <1>4 DEF RestInv
  <2>4. RestInv'
    BY <1>1, <1>2, <2>2, <2>3, RestKept DEF RestInv
  <2>5. ProcInv'
    <3>1. proc' = proc /\ proc.at = "idle" /\ proc \in ProcType
      BY <1>1, <1>2, <1>4 DEF ProcInv
    <3> QED
      BY <3>1 DEF ProcInv, RecoveringInv, PreparingInv, ApplyingInv, Recovering, Preparing, Applying
  <2> QED
    BY <2>4, <2>5, PartsMake
<1> QED
  BY <1>1, <1>3, <1>4

\* The operator's start or stop.
LEMMA ApplicationEntryKeeps ==
    ASSUME InstInv, NEW then \in {"start", "stop"}, ApplicationEntry(then)
    PROVE  InstInv'
<1>1. UNCHANGED <<root, slots, active, cf, power, running, edited>> /\ EnterWith(then)
  BY DEF ApplicationEntry
<1>2. RestInv
  BY PartsAre
<1>3. RestInv'
  BY <1>1, <1>2, RestKept DEF RestInv
<1>4. ProcInv'
  BY <1>1, <1>2, EnterWithKeeps
<1> QED
  BY <1>3, <1>4, PartsMake

\* install_recover_only.
LEMMA RecoverOnlyKeeps ==
    ASSUME InstInv, RecoverOnly
    PROVE  InstInv'
<1>1. UNCHANGED <<root, slots, active, cf, power, running, edited>> /\ EnterWith("only")
  BY DEF RecoverOnly, EnterWith
<1>2. RestInv
  BY PartsAre
<1>3. RestInv'
  BY <1>1, <1>2, RestKept DEF RestInv
<1>4. ProcInv'
  BY <1>1, <1>2, EnterWithKeeps
<1> QED
  BY <1>3, <1>4, PartsMake

\* install_orchestrate: the first slot, or a recovery of the active one.
LEMMA InstallKeeps ==
    ASSUME InstInv, NEW package \in Packages, Install(package)
    PROVE  InstInv'
<1>1. /\ UNCHANGED <<root, slots, active, cf, power, running, edited>>
      /\ proc' = IF active = None
                 THEN [Idle EXCEPT !.at = "retire", !.package = package]
                 ELSE [Idle EXCEPT !.at = "recover", !.slot = active,
                                   !.then = "install", !.package = package]
  BY DEF Install
<1>2. RestInv
  BY PartsAre
<1>3. RestInv'
  BY <1>1, <1>2, RestKept DEF RestInv
<1>4. CASE active = None
  <2>1. "slot0" \in Slots /\ "slot0" # active' /\ active' = None
    BY <1>1, <1>4 DEF Slots, None
  <2>2. /\ proc' \in ProcType /\ proc'.at = "retire" /\ proc'.slot = "slot0"
        /\ proc'.package = package
    BY <1>1, <1>4, IdleIs DEF ProcType, Preparing, Idle
  <2> QED
    BY <1>3, <2>1, <2>2, PartsMake DEF ProcInv, RecoveringInv, PreparingInv, ApplyingInv,
       Recovering, Preparing, Applying
<1>5. CASE active # None
  <2>1. active \in Slots /\ active' = active
    BY <1>1, <1>2, <1>5 DEF RestInv
  <2>2. proc' = [Idle EXCEPT !.at = "recover", !.slot = active, !.then = "install",
                             !.package = package]
    BY <1>1, <1>5
  <2> QED
    BY <1>2, <1>3, <2>1, <2>2, EntersKeeps, PartsMake
<1> QED
  BY <1>4, <1>5

\* The flash is mounted.
LEMMA MountCfKeeps ==
    ASSUME InstInv, MountCf
    PROVE  InstInv'
<1>1. UNCHANGED <<root, slots, active, power, running, proc, edited>> /\ cf' = TRUE
  BY DEF MountCf
<1>2. ProcInv /\ RestInv
  BY PartsAre
<1>3. RestInv'
  BY <1>1, <1>2, RestKept DEF RestInv
<1>4. ProcInv'
  BY <1>1, <1>2, ProcKept
<1> QED
  BY <1>3, <1>4, PartsMake

\* Power is lost, or the process dies.
LEMMA StopsKeep ==
    ASSUME InstInv, PowerLoss \/ ProcessDies
    PROVE  InstInv'
<1>1. RestInv
  BY PartsAre
<1>2. CASE PowerLoss
  <2>1. UNCHANGED <<root, slots, active, edited>> /\ proc' = Idle /\ running' = FALSE
        /\ cf' = FALSE /\ power' = "rcS"
    BY <1>2 DEF PowerLoss
  <2>2. RestInv'
    BY <1>1, <2>1, RestKept
  <2> QED
    BY <2>1, <2>2, IdleKeeps, PartsMake
<1>3. CASE ProcessDies
  <2>1. UNCHANGED <<root, slots, active, cf, power, running, edited>> /\ proc' = Idle
    BY <1>3 DEF ProcessDies
  <2>2. RestInv'
    BY <1>1, <2>1, RestKept DEF RestInv
  <2> QED
    BY <2>1, <2>2, IdleKeeps, PartsMake
<1> QED
  BY <1>2, <1>3

\* A settings file is edited: from then on it is its editor's.
LEMMA EditKeeps ==
    ASSUME InstInv, NEW m \in Settings, Edit(m)
    PROVE  InstInv'
<1>1. /\ root' = [root EXCEPT ![m] = "edited"] /\ edited' = edited \cup {m}
      /\ UNCHANGED <<slots, active, cf, power, running, proc>>
  BY DEF Edit
<1>2. ProcInv /\ RestInv
  BY PartsAre
<1>3. m \in Paths /\ m \notin Gates /\ Gates \subseteq Paths /\ edited \subseteq Paths
  BY <1>2, GatesAre DEF RestInv
<1>4. /\ root' \in [Paths -> Contents] /\ root'[m] = "edited"
      /\ \A n \in Paths : n # m => root'[n] = root[n]
  <2>1. root \in [Paths -> Contents] /\ "edited" \in Contents
    BY <1>2 DEF RestInv, Contents
  <2> QED
    BY <1>1, <1>3, <2>1
<1>5. /\ Ours' \subseteq Ours /\ Ours \subseteq Paths /\ \A n \in Ours' : root'[n] = root[n]
      /\ edited' \in SUBSET Settings
  BY <1>1, <1>2, <1>4 DEF Ours, RestInv
<1>6. \A plan : /\ IsBefore(plan) => \A n \in Ours' : root'[n] = plan.before[n]
                /\ IsAfter(plan) => \A n \in Ours' : root'[n] = plan.after[n]
                /\ IsMixed(plan) => \A n \in Ours' : root'[n] \in {plan.before[n], plan.after[n]}
  BY <1>5 DEF IsBefore, IsAfter, IsMixed
<1>7. /\ IsBefore(Journal(active)) => IsBefore(Journal(active))'
      /\ IsAfter(Journal(active)) => IsAfter(Journal(active))'
      /\ IsMixed(Journal(active)) => IsMixed(Journal(active))'
  BY <1>1, <1>6, SlotsKept DEF IsBefore, IsAfter, IsMixed
<1>8. Gated => Gated'
  BY <1>3, <1>4 DEF Gated
<1>9. ActiveInv'
  BY <1>1, <1>2, <1>7, <1>8, SlotsKept DEF RestInv, DiskInv, FilesInv, ActiveInv
<1>10. OthersInv'
  <2> SUFFICES ASSUME NEW s \in Slots, s # active, Unfinished(s)'
               PROVE  /\ active = None \/ Terminal(active)'
                      /\ \A n \in Paths \ edited' : root'[n] = Journal(s)'.before[n]
    BY <1>1 DEF OthersInv
  <2>1. Unfinished(s) /\ Journal(s)' = Journal(s) /\ (Terminal(active)' <=> Terminal(active))
    BY <1>1, SlotsKept
  <2>2. /\ active = None \/ Terminal(active)
        /\ \A n \in Paths \ edited : root[n] = Journal(s).before[n]
    BY <1>2, <2>1 DEF RestInv, DiskInv, FilesInv, OthersInv
  <2> QED
    BY <1>1, <1>4, <2>1, <2>2
<1>11. EditsInv'
  <2>1. active = None \/ ~IsCut(active) => \A n \in edited : root[n] = "edited"
    BY <1>2 DEF RestInv, DiskInv, FilesInv, EditsInv
  <2> QED
    BY <1>1, <1>3, <1>4, <2>1, SlotsKept DEF EditsInv
<1>12. RunInv'
  <2>1. OneSide => OneSide'
    BY <1>1, <1>5 DEF OneSide, Ours
  <2> QED
    BY <1>1, <1>2, <2>1 DEF RunInv, RestInv, DiskInv
<1>13. (\A s \in Slots : SlotOK(s))' /\ FirstInv'
  BY <1>1, <1>2, SlotsKept DEF RestInv, DiskInv, FilesInv, FirstInv
<1>14. RestInv'
  BY <1>1, <1>2, <1>4, <1>5, <1>9, <1>10, <1>11, <1>12, <1>13 DEF RestInv, DiskInv, FilesInv
<1>15. RecoveringInv'
  <2>1. \A n \in Ours' \ proc.todo : n \in Ours \ proc.todo /\ root'[n] = root[n]
    BY <1>5
  <2> QED
    BY <1>1, <1>2, <1>7, <2>1, SlotsKept DEF ProcInv, RecoveringInv
<1>16. PreparingInv'
  <2>1. (\A n \in Paths : root[n] # proc.plan.before[n] => n \in Settings /\ root[n] = "edited")
        => \A n \in Paths : root'[n] # proc.plan.before[n] => n \in Settings /\ root'[n] = "edited"
    BY <1>4
  <2>2. Journal(proc.slot)' = Journal(proc.slot)
    BY <1>1 DEF Journal
  <2> QED
    BY <1>1, <1>2, <2>1, <2>2, SlotsKept DEF ProcInv, PreparingInv
<1>17. ApplyingInv'
  BY <1>1, <1>2, <1>7, <1>8, SlotsKept DEF ProcInv, ApplyingInv
<1> QED
  BY <1>1, <1>2, <1>14, <1>15, <1>16, <1>17, PartsMake DEF ProcInv
-----------------------------------------------------------------------------
(* The theorems. *)

\* A device on which nothing was installed.
LEMMA InitInst == Init => InstInv
<1> SUFFICES ASSUME Init PROVE InstInv
  OBVIOUS
<1>1. /\ root = [m \in Paths |-> "original"] /\ slots = [s \in Slots |-> EmptySlot]
      /\ active = None /\ cf = TRUE /\ power = "up" /\ running \in BOOLEAN
      /\ proc = Idle /\ edited = {}
  BY DEF Init
<1>2. /\ root \in [Paths -> Contents] /\ EmptySlot \in SlotType
      /\ EmptySlot.journal = NoPlan
  BY <1>1 DEF Contents, EmptySlot, SlotType, FileType
<1>3. /\ slots \in [Slots -> SlotType] /\ \A s \in Slots : Journal(s) = NoPlan
      /\ "slot1" \in Slots
  BY <1>1, <1>2 DEF Journal, Slots
<1>4. FilesInv
  BY <1>1, <1>3 DEF FilesInv, SlotOK, ActiveInv, OthersInv, FirstInv, EditsInv, Unfinished
<1>5. RunInv
  BY <1>1 DEF RunInv, OneSide
<1>6. RestInv
  BY <1>1, <1>2, <1>3, <1>4, <1>5 DEF RestInv, DiskInv
<1>7. ProcInv
  <2>1. proc \in ProcType /\ proc.at = "idle"
    BY <1>1, IdleIs DEF Idle
  <2> QED
    BY <2>1 DEF ProcInv, RecoveringInv, PreparingInv, ApplyingInv, Recovering, Preparing, Applying
<1> QED
  BY <1>6, <1>7, PartsAre

\* Every step keeps the invariant.
LEMMA NextInst ==
    ASSUME InstInv, [Next]_vars
    PROVE  InstInv'
<1>1. CASE InstallerStep
  BY <1>1, RecoverKeeps, RestoreStopKeeps, RestoreMemberKeeps, RestoreEndKeeps, RestoreMarkKeeps,
     RetireKeeps, RetireFileKeeps, MakePlanKeeps, PublishJournalKeeps, PublishActiveKeeps,
     PublishGateKeeps, StopServicesKeeps, RecheckKeeps, CutoverKeeps, PublishMemberKeeps,
     ActivateKeeps, CompleteKeeps DEF InstallerStep
<1>2. CASE BootNetwork
  BY <1>2, BootNetworkKeeps
<1>3. CASE BootApplication
  BY <1>3, BootApplicationKeeps
<1>4. CASE RecoverOnly
  BY <1>4, RecoverOnlyKeeps
<1>5. CASE \E package \in Packages : Install(package)
  BY <1>5, InstallKeeps
<1>6. CASE \E then \in {"start", "stop"} : ApplicationEntry(then)
  BY <1>6, ApplicationEntryKeeps
<1>7. CASE MountCf
  BY <1>7, MountCfKeeps
<1>8. CASE PowerLoss \/ ProcessDies
  BY <1>8, StopsKeep
<1>9. CASE \E m \in Settings : Edit(m)
  BY <1>9, EditKeeps
<1>10. CASE UNCHANGED vars
  <2>1. UNCHANGED <<root, slots, active, cf, power, running, proc, edited>>
    BY <1>10 DEF vars
  <2>2. ProcInv /\ RestInv
    BY PartsAre
  <2>3. RestInv'
    BY <2>1, <2>2, RestKept DEF RestInv
  <2>4. ProcInv'
    BY <2>1, <2>2, ProcKept
  <2> QED
    BY <2>3, <2>4, PartsMake
<1> QED
  BY <1>1, <1>2, <1>3, <1>4, <1>5, <1>6, <1>7, <1>8, <1>9, <1>10 DEF Next

\* The types, the files and the process agree in every reachable state
\* (install_transaction.c, install_orchestrator.c).
THEOREM InstallerInvariance == Spec => []InstInv
<1>1. Init => InstInv
  BY InitInst
<1>2. InstInv /\ [Next]_vars => InstInv'
  BY NextInst
<1> QED
  BY <1>1, <1>2, PTL DEF Spec

\* The application never runs on half an installation: whoever starts it, the
\* members form one side of the active plan (restore and activate in
\* install_transaction.c, install_recover_entry, the scripts of the boot).
THEOREM RunsOnOneSide == Spec => []RunsWholeSet
<1>1. InstInv => RunsWholeSet
  BY DEF InstInv, DiskInv, RunInv, RunsWholeSet
<1> QED
  BY <1>1, InstallerInvariance, PTL

\* A set that is neither the old nor the new one is behind every gate, and its
\* journal makes the next boot go on with it (the two passes of restore, the
\* order of gate, cutover and publish in install_transaction_run).
THEOREM MixedBehindGates == Spec => []MixedIsGuarded
<1>1. ASSUME InstInv, ~OneSide
      PROVE  /\ \A g \in Gates : root[g] = "gate"
             /\ Status(active) = "unfinished" /\ Marked(active, "cutover") = 1
  <2>1. active # None /\ ~IsBefore(Journal(active)) /\ ~IsAfter(Journal(active))
    BY <1>1, SideIs
  <2>2. /\ active \in Slots /\ TypeInv /\ SlotOK(active) /\ Journal(active) # NoPlan
        /\ ActiveInv
    BY <1>1, <2>1 DEF InstInv, TypeInv, DiskInv, FilesInv, ActiveInv
  <2>3. Unfinished(active)
    BY <2>1, <2>2 DEF ActiveInv, SlotOK
  <2>4. IsCut(active) /\ Gated
    BY <2>1, <2>2, <2>3 DEF ActiveInv
  <2> QED
    BY <2>2, <2>3, <2>4, StatusIs DEF Gated
<1>2. InstInv => MixedIsGuarded
  BY <1>1 DEF MixedIsGuarded
<1> QED
  BY <1>2, InstallerInvariance, PTL

\* The next transaction can always begin (retire_slot and its order, publish_active,
\* the markers of install_transaction.c).
THEOREM SlotsStayUsable == Spec => []SlotsUsable
<1>1. ASSUME InstInv
      PROVE  SlotsUsable
  <2>1. TypeInv /\ FilesInv
    BY <1>1 DEF InstInv, DiskInv
  <2>2. TypeOK
    <3>1. proc.slot \in Slots /\ DOMAIN slots = Slots /\ {cf, running} \subseteq BOOLEAN
      BY <2>1 DEF TypeInv, ProcType
    <3> QED
      BY <2>1, <3>1 DEF TypeInv, TypeOK
  <2>3. active # None => slots[active].journal # NoPlan
    BY <2>1 DEF FilesInv, ActiveInv, Journal
  <2>4. ASSUME NEW s \in Slots
        PROVE  \/ slots[s].journal = NoPlan
               \/ Status(s) # "recovery_required" /\ Marked(s, "cutover") >= 0
    <3>1. CASE Journal(s) # NoPlan
      <4>1. SlotOK(s) /\ (Unfinished(s) \/ Terminal(s))
        BY <2>1, <3>1 DEF FilesInv, SlotOK
      <4>2. Status(s) \in {"unfinished", "completed", "rolled_back"}
        BY <2>1, <3>1, <4>1, StatusIs
      <4>3. Marked(s, "cutover") = 1 \/ Marked(s, "cutover") = 0
        BY <2>1, <3>1, <4>1, StatusIs
      <4> QED
        BY <4>2, <4>3
    <3> QED
      BY <3>1 DEF Journal
  <2>5. ASSUME NEW s \in Slots, s # active, Status(s) = "unfinished"
        PROVE  \A m \in Paths \ edited : root[m] = slots[s].journal.before[m]
    <3>1. Unfinished(s)
      BY <2>1, <2>5, StatusSays DEF FilesInv
    <3> QED
      BY <2>1, <2>5, <3>1 DEF FilesInv, OthersInv, Journal
  <2> QED
    BY <2>2, <2>3, <2>4, <2>5 DEF SlotsUsable
<1> QED
  BY <1>1, InstallerInvariance, PTL

\* The installer writes no file but a gate before its cutover is durable, so a
\* refusal leaves what was edited (matches_after_gate, cutover and restore of
\* install_transaction.c).
THEOREM EditsSurvive == Spec => EditsSurviveRefusal
<1>1. ASSUME InstInv, [Next]_vars, NEW m \in Paths \ Gates, root'[m] # root[m], edited' = edited
      PROVE  Marked(active, "cutover") = 1
  <2>0. root'[m] # root[m]
    BY ZenonT(60), <1>1
  <2>1. root \in [Paths -> Contents] /\ m \in Paths /\ m \notin Gates /\ TypeInv
    BY <1>1 DEF InstInv, TypeInv
  <2>2. ASSUME active \in Slots, IsCut(active)
        PROVE  Marked(active, "cutover") = 1
    <3>1. SlotOK(active) /\ Journal(active) # NoPlan
      BY <1>1, <2>2 DEF InstInv, DiskInv, FilesInv, IsCut
    <3> QED
      BY <2>1, <2>2, <3>1, StatusIs
  <2>3. CASE RestoreMember
    <3>1. proc.at = "restoring" /\ proc.todo # {}
      BY <2>3 DEF RestoreMember, At
    <3>2. PICK n : n = FirstToRestore(proc.todo)
      OBVIOUS
    <3>3. root' = root \/ root' = [root EXCEPT ![n] = Plan.before[n]]
      BY <2>3, <3>2 DEF RestoreMember
    <3>4. m = n
      BY <1>1, <2>1, <3>3
    <3>5. /\ proc.todo \subseteq Paths /\ (~proc.cut => proc.todo \subseteq Gates)
          /\ (proc.cut <=> IsCut(active))
      BY <1>1, <3>1 DEF InstInv, RecoveringInv
    <3>6. m \in proc.todo
      BY <3>1, <3>2, <3>4, <3>5, FirstToRestoreIs
    <3>7. active \in Slots /\ IsCut(active)
      BY <1>1, <2>1, <3>1, <3>5, <3>6, RecoveryIs DEF Recovering
    <3> QED
      BY <2>2, <3>7
  <2>4. CASE PublishGate
    <3>1. proc.at = "gates" /\ proc.todo # {}
      BY <2>4 DEF PublishGate, At
    <3>2. PICK n : n = First(Members, proc.todo)
      OBVIOUS
    <3>3. root' = root \/ root' = [root EXCEPT ![n] = proc.plan.after[n]]
      BY <2>4, <3>2 DEF PublishGate
    <3>4. proc.todo \subseteq Gates /\ Gates \subseteq Paths
      BY <1>1, <3>1, GatesAre DEF InstInv, ApplyingInv
    <3>5. n \in Gates
      BY <3>1, <3>2, <3>4, FirstIs
    <3> QED
      BY <1>1, <2>1, <3>3, <3>5
  <2>5. CASE PublishMember
    <3>1. proc.at = "publish"
      BY <2>5 DEF PublishMember, At
    <3>2. active \in Slots /\ IsCut(active)
      BY <1>1, <3>1, ApplicationIs DEF InstInv, ApplyingInv, Applying
    <3> QED
      BY <2>2, <3>2
  <2>6. CASE \E n \in Settings : Edit(n)
    <3>1. PICK n \in Settings : root' = [root EXCEPT ![n] = "edited"] /\ edited' = edited \cup {n}
      BY ZenonT(60), <2>6 DEF Edit
    <3>2. m = n /\ m \in edited
      BY <1>1, <2>1, <3>1
    <3>3. root[m] # "edited"
      BY <1>1, <2>1, <3>1, <3>2
    <3>4. active # None /\ IsCut(active)
      BY <1>1, <3>2, <3>3 DEF InstInv, DiskInv, FilesInv, EditsInv
    <3> QED
      BY <2>1, <2>2, <3>4 DEF TypeInv
  <2>7. CASE UNCHANGED root
    BY <2>0, <2>7
  <2>8. RestoreMember \/ PublishGate \/ PublishMember \/ (\E n \in Settings : Edit(n))
        \/ UNCHANGED root
    BY ZenonT(60), <1>1 DEF Next, InstallerStep, vars, Recover, RestoreStop, RestoreEnd, RestoreMark, Retire,
       RetireFile, MakePlan, PublishJournal, PublishActive, StopServices, Recheck, Cutover,
       Activate, Complete, BootNetwork, BootApplication, RecoverOnly, Install, ApplicationEntry,
       MountCf, PowerLoss, ProcessDies
  <2> QED
    BY <2>3, <2>4, <2>5, <2>6, <2>7, <2>8
<1>2. InstInv /\ [Next]_vars =>
        [\A m \in Paths \ Gates :
            (root'[m] # root[m] /\ edited' = edited) => Marked(active, "cutover") = 1]_vars
  BY <1>1
<1> QED
  BY <1>2, InstallerInvariance, PTL DEF EditsSurviveRefusal, Spec
=============================================================================
