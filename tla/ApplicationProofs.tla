-------------------------- MODULE ApplicationProofs ---------------------------
(***************************************************************************)
(* Theorems about Application, for every number of ports, every set of     *)
(* configurations and whatever fails.  They rest on FilesAssumption and    *)
(* ApplicationAssumption only.                                             *)
(***************************************************************************)
EXTENDS Application, TLAPS

-----------------------------------------------------------------------------
(* The inductive invariant, part by part. *)

Lives == {"DISABLED", "CHANGING", "READY", "NETWORK_WAIT", "DOWN", "STOPPING"}

PortConfigs == UNION {{c.port[p] : p \in Ports} : c \in Configs}

SlotType == [life: Lives, current: PortConfigs, target: PortConfigs \cup {NoConfig},
             owned: BOOLEAN, wait: BOOLEAN]

TxType == [state: TxStates, index: 1..(PortCount + 1), waiting: BOOLEAN,
           rollbackFailed: BOOLEAN, candidate: Configs, previous: Configs]

TypeInv == TypeOK /\ slots \in [Ports -> SlotType] /\ tx \in TxType

\* What a boot may select was told; while the outcome of the last rename is open, it
\* may be the candidate as well.
FilesInv ==
    /\ dir \in images
    /\ Saved \subseteq told \cup (IF call = "renamed" THEN {tx.candidate} ELSE {})
    /\ tx.state \in {"ACTIVATING", "PROMOTING"} /\ call # "renamed" => staged = tx.candidate
    /\ call = "renamed" => dir.active = tx.candidate
    /\ call # "none" => tx.state = "PROMOTING" /\ turn = "transaction"

\* A port of which nothing more than its current configuration is to be expected.
Quiet(p) == p.target = NoConfig \/ p.life = "DOWN"

\* The port that the transaction waits for.
Awaited(p) == tx.state \in {"ACTIVATING", "ROLLING_BACK"} /\ tx.waiting /\ p = tx.index

Live == coord \in {"STARTING_PORTS", "SERVING"}

SlotsInv ==
    /\ \A p \in Ports : slots[p].life \in {"READY", "NETWORK_WAIT", "DISABLED"} =>
          slots[p].target = NoConfig
    /\ Live => \A p \in Ports : Quiet(slots[p]) \/ Awaited(p)

\* How far the ports are: all of them, or those the transaction has been to.
ChangeInv ==
    /\ coord \in {"LOADING", "INITIALIZING", "STARTING_PORTS"} =>
          tx.state \notin InProgress /\ ~strayed
    /\ Live /\ tx.state \notin InProgress /\ ~strayed =>
          \A p \in Ports : slots[p].current = selected.port[p]
    /\ tx.state = "ACTIVATING" => tx.candidate.port # tx.previous.port
    /\ Live /\ tx.state = "ACTIVATING" =>
          \A p \in Ports : p < tx.index => slots[p].current = tx.candidate.port[p]
    /\ Live /\ tx.state = "PROMOTING" =>
          \/ \A p \in Ports : slots[p].current = tx.candidate.port[p]
          \/ strayed /\ tx.candidate.port = tx.previous.port
    /\ Live /\ tx.state = "ROLLING_BACK" =>
          \/ \A p \in Ports : p < tx.index => slots[p].current = tx.previous.port[p]
          \/ tx.rollbackFailed
          \/ strayed /\ tx.candidate.port = tx.previous.port

AppInv == TypeInv /\ FilesInv /\ SlotsInv /\ ChangeInv
-----------------------------------------------------------------------------
(* Lemmas about what a boot selects and about what a port's operations do. *)

\* A boot always finds a configuration.
LEMMA Selects == ASSUME NEW d PROVE Select(d) \in Configs
BY ApplicationAssumption DEF Select

\* The active file is selected if it can be decoded, the backup if there is no other.
LEMMA SelectsActive ==
    ASSUME NEW d \in Dirs, d.active \in Configs
    PROVE  Select(d) = d.active
BY FilesAssumption DEF Select

\* Without an active file the backup is selected.
LEMMA SelectsBackup ==
    ASSUME NEW c \in Configs
    PROVE  Select([active |-> Absent, backup |-> c]) = c
BY FilesAssumption DEF Select

\* What is read in spite of unreadable files is a configuration as well.
LEMMA UnreadIs == ASSUME NEW d, NEW c \in Unread(d) PROVE c \in Configs
BY Selects DEF Unread

\* A port as it is attached.
LEMMA FreshIs == ASSUME NEW c \in PortConfigs PROVE Port!Fresh(c) \in SlotType
BY DEF Port!Fresh, SlotType, Lives

\* The operations of a port keep its type.
LEMMA PortOps ==
    ASSUME NEW p \in SlotType, NEW c \in PortConfigs
    PROVE  /\ Port!Fresh(c) \in SlotType
           /\ Port!Started(p) \in SlotType
           /\ Port!Changed(p, c) \in SlotType
<1>1. Port!Fresh(c) \in SlotType
  BY FreshIs
<1>2. \A q \in SlotType : Port!Started(q) \in SlotType
  BY DEF Port!Started, SlotType, Lives
<1>3. [p EXCEPT !.current = c] \in SlotType
  BY DEF SlotType
<1>4. [p EXCEPT !.life = IF c.enabled THEN "CHANGING" ELSE "STOPPING",
                !.target = c, !.owned = FALSE] \in SlotType
  BY DEF SlotType, Lives
<1> QED
  BY <1>1, <1>2, <1>3, <1>4 DEF Port!Changed

\* A step of a port that is quiet leaves its configuration and keeps it quiet; a
\* port that is in service, disabled or waiting has no change ahead of it.
LEMMA PortStepIs ==
    ASSUME NEW p \in SlotType, NEW q \in Port!AfterStep(p)
    PROVE  /\ q \in SlotType
           /\ Quiet(p) => Quiet(q) /\ q.current = p.current
           /\ (p.life \in {"READY", "NETWORK_WAIT", "DISABLED"} => p.target = NoConfig)
              => (q.life \in {"READY", "NETWORK_WAIT", "DISABLED"} => q.target = NoConfig)
<1>1. CASE p.life = "CHANGING"
  <2>1. q \in Port!AfterChange(p)
    BY <1>1 DEF Port!AfterStep
  <2> DEFINE left == [p EXCEPT !.target = NoConfig]
  <2>2. left \in SlotType /\ left.target = NoConfig /\ left.current = p.current /\ left.life = p.life
    BY DEF SlotType
  <2>3. CASE q \in {p, left, [left EXCEPT !.life = "DOWN"], [left EXCEPT !.life = "STOPPING"]}
    <3> HIDE DEF left
    <3> QED
      BY <1>1, <2>2, <2>3 DEF SlotType, Lives, Quiet
  <2>4. CASE \E c \in {p.current, p.target} \ {NoConfig} :
               q = IF p.wait THEN Port!Waiting(p, c) ELSE Port!Serving(p, c)
    <3>1. PICK c \in {p.current, p.target} \ {NoConfig} :
               q = IF p.wait THEN Port!Waiting(p, c) ELSE Port!Serving(p, c)
      BY <2>4
    <3>2. c \in PortConfigs
      BY <3>1 DEF SlotType
    <3>3. /\ Port!Waiting(p, c) \in SlotType /\ Port!Waiting(p, c).current = c
          /\ Port!Waiting(p, c).target = NoConfig
      BY <3>2 DEF Port!Waiting, SlotType, Lives
    <3>4. /\ Port!Serving(p, c) \in SlotType /\ Port!Serving(p, c).current = c
          /\ Port!Serving(p, c).target = NoConfig
      BY <3>2 DEF Port!Serving, SlotType, Lives
    <3> QED
      BY <1>1, <3>1, <3>3, <3>4 DEF Quiet
  <2> QED
    BY <2>1, <2>3, <2>4 DEF Port!AfterChange
<1>2. CASE p.life = "READY"
  BY <1>2 DEF Port!AfterStep, SlotType, Lives, Quiet
<1>3. CASE p.life = "STOPPING"
  <2>1. q \in Port!AfterStop(p)
    BY <1>3 DEF Port!AfterStep
  <2> QED
    BY <1>3, <2>1 DEF Port!AfterStop, SlotType, Lives, Quiet
<1>4. CASE p.life \notin {"CHANGING", "READY", "STOPPING"}
  BY <1>4 DEF Port!AfterStep
<1> QED
  BY <1>1, <1>2, <1>3, <1>4
\* What a shutdown makes of a port.
LEMMA ShutdownIs ==
    ASSUME NEW p \in SlotType, NEW q \in Port!AfterShutdown(p)
    PROVE  /\ q \in SlotType
           /\ (p.life \in {"READY", "NETWORK_WAIT", "DISABLED"} => p.target = NoConfig)
              => (q.life \in {"READY", "NETWORK_WAIT", "DISABLED"} => q.target = NoConfig)
<1> DEFINE stopped == {[p EXCEPT !.life = life] :
                          life \in IF p.life \in {"DISABLED", "STOPPING"} THEN {p.life}
                                   ELSE {"STOPPING"} \cup ({p.life} \cap {"DOWN"})}
           released == stopped \cup {[r EXCEPT !.owned = FALSE] : r \in stopped}
<1>1. q \in released \cup {[r EXCEPT !.target = NoConfig] : r \in released}
  BY DEF Port!AfterShutdown
<1>2. \A r \in stopped : /\ r \in SlotType /\ r.target = p.target
                         /\ r.life = p.life \/ r.life \in {"STOPPING", "DOWN"}
  BY DEF SlotType, Lives
<1>3. \A r \in released : /\ r \in SlotType /\ r.target = p.target
                          /\ r.life = p.life \/ r.life \in {"STOPPING", "DOWN"}
  <2> HIDE DEF stopped
  <2>1. ASSUME NEW r \in SlotType
        PROVE  /\ [r EXCEPT !.owned = FALSE] \in SlotType
               /\ [r EXCEPT !.owned = FALSE].target = r.target
               /\ [r EXCEPT !.owned = FALSE].life = r.life
    BY DEF SlotType
  <2> QED
    BY <1>2, <2>1
<1> HIDE DEF released
<1> QED
  BY <1>1, <1>3 DEF SlotType

\* The controller steps every port.
LEMMA StepPortsIs ==
    ASSUME slots \in [Ports -> SlotType], StepPorts
    PROVE  /\ slots' \in [Ports -> SlotType]
           /\ \A p \in Ports : slots'[p] \in Port!AfterStep(slots[p])
<1>1. /\ slots' \in [Ports -> UNION {PortSteps(p) : p \in Ports}]
      /\ \A p \in Ports : slots'[p] \in PortSteps(p)
  BY DEF StepPorts
<1>2. \A p \in Ports : slots'[p] \in Port!AfterStep(slots[p])
  BY <1>1 DEF PortSteps
<1>3. \A p \in Ports : slots[p] \in SlotType
  OBVIOUS
<1>4. \A p \in Ports : slots'[p] \in SlotType
  BY <1>2, <1>3, PortStepIs
<1> QED
  BY <1>1, <1>2, <1>4

\* ... and stops every port.
LEMMA BeginShutdownIs ==
    ASSUME slots \in [Ports -> SlotType], BeginShutdown
    PROVE  /\ slots' \in [Ports -> SlotType]
           /\ \A p \in Ports : slots'[p] \in Port!AfterShutdown(slots[p]) \/ slots'[p] = slots[p]
<1>1. CASE initialized
  <2>1. /\ slots' \in [Ports -> UNION {Port!AfterShutdown(slots[p]) : p \in Ports}]
        /\ \A p \in Ports : slots'[p] \in Port!AfterShutdown(slots[p])
    BY <1>1 DEF BeginShutdown
  <2>2. \A p \in Ports : slots[p] \in SlotType
    OBVIOUS
  <2>3. \A p \in Ports : slots'[p] \in SlotType
    BY <2>1, <2>2, ShutdownIs
  <2> QED
    BY <2>1, <2>3
<1>2. CASE ~initialized
  BY <1>2 DEF BeginShutdown
<1> QED
  BY <1>1, <1>2

\* The ports of a configuration.
LEMMA PortConfigIs == ASSUME NEW c \in Configs, NEW p \in Ports PROVE c.port[p] \in PortConfigs
BY DEF PortConfigs

\* What a boot may select changes with the files only.
LEMMA SavedKept == ASSUME UNCHANGED images PROVE Saved' = Saved
BY DEF Saved
-----------------------------------------------------------------------------
(* The turns of the coordinator preserve the invariant. *)

\* The configuration is selected.
LEMMA LoadKeeps ==
    ASSUME AppInv, LoadConfiguration
    PROVE  AppInv'
<1>1. TypeInv'
  BY SavedKept, Selects, UnreadIs DEF AppInv, TypeInv, TypeOK, FilesInv, SlotsInv, ChangeInv,
     LoadConfiguration, CoordinatorTurn, files, history, InProgress
<1>2. FilesInv'
  BY SavedKept DEF AppInv, TypeInv, TypeOK, FilesInv, SlotsInv, ChangeInv, LoadConfiguration,
     CoordinatorTurn, files, history, InProgress
<1>3. SlotsInv'
  BY SavedKept DEF AppInv, TypeInv, TypeOK, FilesInv, SlotsInv, ChangeInv, Awaited, Live, Quiet,
     LoadConfiguration, CoordinatorTurn, files, history, InProgress
<1>4. ChangeInv'
  BY SavedKept DEF AppInv, TypeInv, TypeOK, FilesInv, SlotsInv, ChangeInv, Live, Quiet,
     LoadConfiguration, CoordinatorTurn, files, history, InProgress
<1> QED
  BY <1>1, <1>2, <1>3, <1>4 DEF AppInv

\* The ports start with the selected configuration, or nothing starts.
LEMMA InitializeKeeps ==
    ASSUME AppInv, InitializeController \/ InitializeFails
    PROVE  AppInv'
<1>a. /\ slots' \in [Ports -> SlotType]
      /\ \A p \in Ports : slots'[p].current = selected.port[p] /\ slots'[p].target = NoConfig
  <2>1. \A p \in Ports : Port!Fresh(selected.port[p]) \in SlotType
    BY PortConfigIs, PortOps DEF AppInv, TypeInv, TypeOK
  <2>2. \A p \in Ports : Port!Started(Port!Fresh(selected.port[p])) \in SlotType
    BY <2>1, PortConfigIs, PortOps DEF AppInv, TypeInv, TypeOK
  <2>3. \A c : /\ Port!Fresh(c).current = c /\ Port!Fresh(c).target = NoConfig
               /\ Port!Started(Port!Fresh(c)).current = c
               /\ Port!Started(Port!Fresh(c)).target = NoConfig
    BY DEF Port!Fresh, Port!Started
  <2> QED
    BY <2>1, <2>2, <2>3 DEF InitializeController, InitializeFails
<1>1. TypeInv'
  BY SavedKept, <1>a DEF AppInv, TypeInv, TypeOK, FilesInv, SlotsInv, ChangeInv,
     InitializeController, InitializeFails, CoordinatorTurn, files, history, InProgress
<1>2. FilesInv'
  BY SavedKept, <1>a DEF AppInv, TypeInv, TypeOK, FilesInv, SlotsInv, ChangeInv,
     InitializeController, InitializeFails, CoordinatorTurn, files, history, InProgress
<1>3. SlotsInv'
  BY SavedKept, <1>a DEF AppInv, TypeInv, TypeOK, FilesInv, SlotsInv, ChangeInv, Awaited, Live,
     Quiet, InitializeController, InitializeFails, CoordinatorTurn, files, history, InProgress
<1>4. ChangeInv'
  <2>1. /\ UNCHANGED <<tx, strayed, selected>> /\ coord' \in {"STARTING_PORTS", "FATAL_ERROR"}
        /\ tx.state \notin InProgress /\ ~strayed
    BY DEF AppInv, ChangeInv, InitializeController, InitializeFails, CoordinatorTurn, history
  <2> QED
    BY <2>1, <1>a DEF ChangeInv, Live, InProgress
<1> QED
  BY <1>1, <1>2, <1>3, <1>4 DEF AppInv

\* The ports step: only the port that the transaction waits for changes.
LEMMA StepPortsKeeps ==
    ASSUME AppInv, StartPorts \/ Serve
    PROVE  AppInv'
<1>a. /\ slots' \in [Ports -> SlotType]
      /\ \A p \in Ports : /\ slots[p] \in SlotType
                           /\ slots'[p] \in Port!AfterStep(slots[p])
  BY StepPortsIs DEF AppInv, TypeInv, StartPorts, Serve
<1>b. \A p \in Ports :
        /\ Quiet(slots[p]) => Quiet(slots'[p]) /\ slots'[p].current = slots[p].current
        /\ slots'[p].life \in {"READY", "NETWORK_WAIT", "DISABLED"} => slots'[p].target = NoConfig
  BY <1>a, PortStepIs DEF AppInv, SlotsInv
<1>c. /\ UNCHANGED <<files, told, strayed, selected, tx, call>> /\ Live /\ Live'
      /\ coord' \in {coord, "SERVING"}
  BY DEF StartPorts, Serve, CoordinatorTurn, history, Live
<1>1. TypeInv'
  BY SavedKept, <1>a, <1>b DEF AppInv, TypeInv, TypeOK, FilesInv, SlotsInv, ChangeInv,
     StartPorts, Serve, CoordinatorTurn, files, history, InProgress
<1>2. FilesInv'
  BY SavedKept, <1>a, <1>b DEF AppInv, TypeInv, TypeOK, FilesInv, SlotsInv, ChangeInv,
     StartPorts, Serve, CoordinatorTurn, files, history, InProgress
<1>3. SlotsInv'
  BY <1>a, <1>b, <1>c DEF AppInv, SlotsInv, Awaited
<1>4. ChangeInv'
  <2>1. \A p \in Ports : ~Awaited(p) => slots'[p].current = slots[p].current
    BY <1>b, <1>c DEF AppInv, SlotsInv
  <2>2. \A p \in Ports : p < tx.index => ~Awaited(p)
    BY ApplicationAssumption DEF AppInv, TypeInv, TxType, Ports, Awaited
  <2>3. tx.state \notin {"ACTIVATING", "ROLLING_BACK"} => \A p \in Ports : ~Awaited(p)
    BY DEF Awaited
  <2> HIDE DEF Awaited
  <2> QED
    BY <1>c, <2>1, <2>2, <2>3 DEF AppInv, ChangeInv, Live, InProgress
<1> QED
  BY <1>1, <1>2, <1>3, <1>4 DEF AppInv

\* The ports step until all of them are stopped or the time is over.
LEMMA ShutDownKeeps ==
    ASSUME AppInv, ShutDown \/ ShutdownOverdue
    PROVE  AppInv'
<1>a. /\ slots' \in [Ports -> SlotType]
      /\ \A p \in Ports : /\ slots[p] \in SlotType
                           /\ slots'[p] \in Port!AfterStep(slots[p])
  BY StepPortsIs DEF AppInv, TypeInv, ShutDown, ShutdownOverdue
<1>b. \A p \in Ports :
        /\ Quiet(slots[p]) => Quiet(slots'[p]) /\ slots'[p].current = slots[p].current
        /\ slots'[p].life \in {"READY", "NETWORK_WAIT", "DISABLED"} => slots'[p].target = NoConfig
  BY <1>a, PortStepIs DEF AppInv, SlotsInv
<1>1. TypeInv'
  BY SavedKept, <1>a, <1>b DEF AppInv, TypeInv, TypeOK, FilesInv, SlotsInv, ChangeInv, ShutDown,
     ShutdownOverdue, CoordinatorTurn, files, history, InProgress
<1>2. FilesInv'
  BY SavedKept, <1>a, <1>b DEF AppInv, TypeInv, TypeOK, FilesInv, SlotsInv, ChangeInv, ShutDown,
     ShutdownOverdue, CoordinatorTurn, files, history, InProgress
<1>3. SlotsInv'
  BY SavedKept, <1>a, <1>b DEF AppInv, TypeInv, TypeOK, FilesInv, SlotsInv, ChangeInv, Awaited,
     Live, Quiet, ShutDown, ShutdownOverdue, CoordinatorTurn, files, history, InProgress
<1>4. ChangeInv'
  BY SavedKept, <1>a, <1>b DEF AppInv, TypeInv, TypeOK, FilesInv, SlotsInv, ChangeInv, Live,
     Quiet, ShutDown, ShutdownOverdue, CoordinatorTurn, files, history, InProgress
<1> QED
  BY <1>1, <1>2, <1>3, <1>4 DEF AppInv

\* begin_shutdown
LEMMA BeginShutdownKeeps ==
    ASSUME AppInv, BeginShutdown, turn = "coordinator"
    PROVE  AppInv'
<1>a. /\ slots' \in [Ports -> SlotType]
      /\ \A p \in Ports : slots'[p].life \in {"READY", "NETWORK_WAIT", "DISABLED"} =>
            slots'[p].target = NoConfig
  BY BeginShutdownIs, ShutdownIs DEF AppInv, TypeInv, SlotsInv
<1>1. TypeInv'
  BY SavedKept, <1>a DEF AppInv, TypeInv, TypeOK, FilesInv, SlotsInv, ChangeInv, BeginShutdown,
     CoordinatorTurn, files, history, InProgress
<1>2. FilesInv'
  BY SavedKept, <1>a DEF AppInv, TypeInv, TypeOK, FilesInv, SlotsInv, ChangeInv, BeginShutdown,
     CoordinatorTurn, files, history, InProgress
<1>3. SlotsInv'
  BY SavedKept, <1>a DEF AppInv, TypeInv, TypeOK, FilesInv, SlotsInv, ChangeInv, Awaited, Live,
     Quiet, BeginShutdown, CoordinatorTurn, files, history, InProgress
<1>4. ChangeInv'
  BY SavedKept, <1>a DEF AppInv, TypeInv, TypeOK, FilesInv, SlotsInv, ChangeInv, Live, Quiet,
     BeginShutdown, CoordinatorTurn, files, history, InProgress
<1> QED
  BY <1>1, <1>2, <1>3, <1>4 DEF AppInv
-----------------------------------------------------------------------------
(* The requests and the turns of the transaction preserve the invariant. *)

\* A transaction that is over.
LEMMA ResultIs ==
    ASSUME NEW state \in TxStates
    PROVE  /\ Result(state) \in TxType /\ Result(state).state = state
           /\ NoTx \in TxType
<1>1. NoTx \in TxType /\ "IDLE" \in TxStates /\ 1 \in 1..(PortCount + 1)
  BY ApplicationAssumption DEF NoTx, TxType, TxStates
<1> QED
  BY <1>1 DEF Result, TxType

\* config_rollback_begin
LEMMA RollBackIs ==
    ASSUME tx \in TxType, RollBack
    PROVE  /\ tx' \in TxType /\ tx'.state = "ROLLING_BACK" /\ ~tx'.waiting
           /\ tx'.candidate = tx.candidate /\ tx'.previous = tx.previous
           /\ tx'.rollbackFailed = tx.rollbackFailed
           /\ tx'.index = IF tx.candidate.port = tx.previous.port THEN PortCount + 1 ELSE 1
           /\ UNCHANGED <<dir, images>>
<1>1. PortCount + 1 \in 1..(PortCount + 1) /\ 1 \in 1..(PortCount + 1)
  BY ApplicationAssumption
<1> QED
  BY <1>1 DEF RollBack, Discard, TxType, TxStates, InProgress

\* No port is before the first, and none after the last.
LEMMA IndexIs ==
    ASSUME tx \in TxType
    PROVE  /\ tx.index \in Ports => tx.index + 1 \in 1..(PortCount + 1)
           /\ tx.index \notin Ports => \A p \in Ports : p < tx.index
           /\ \A p \in Ports : ~(p < 1) /\ (p < PortCount + 1)
           /\ \A p \in Ports : tx.index \in Ports /\ p < tx.index + 1 => p < tx.index \/ p = tx.index
BY ApplicationAssumption DEF TxType, Ports

\* Ports that do not change are as quiet as they were, but for the one awaited.
LEMMA SlotsKept ==
    ASSUME SlotsInv, UNCHANGED slots, Live' => Live,
           \A p \in Ports : Live /\ Awaited(p) => Quiet(slots[p]) \/ Awaited(p)'
    PROVE  SlotsInv'
BY DEF SlotsInv

\* A request that is refused, or has nothing to change, is over.
LEMMA RequestOverKeeps ==
    ASSUME AppInv, RequestUnchanged \/ RequestFails
    PROVE  AppInv'
<1>a. /\ tx' \in TxType /\ tx'.state \in {"UNCHANGED", "FAILED"}
  BY ResultIs DEF RequestUnchanged, RequestFails, TxStates
<1>1. TypeInv'
  BY SavedKept, <1>a DEF AppInv, TypeInv, TypeOK, TxType, RequestUnchanged, RequestFails,
     Discard, Requested, Counted, files, history, InProgress, TxStates
<1>2. FilesInv'
  BY SavedKept, <1>a DEF AppInv, TypeInv, TypeOK, FilesInv, RequestUnchanged, RequestFails,
     Discard, Requested, Counted, files, history, InProgress, TxStates
<1>3. SlotsInv'
  <2>1. /\ UNCHANGED slots
        /\ Live' => Live
        /\ \A p \in Ports : Live /\ Awaited(p) => Quiet(slots[p]) \/ Awaited(p)'
    BY <1>a DEF AppInv, Awaited, Live, RequestUnchanged, RequestFails, Discard, Requested,
       Counted, files, history, InProgress, TxStates
  <2> QED
    BY <2>1, SlotsKept DEF AppInv
<1>4. ChangeInv'
  BY <1>a DEF AppInv, ChangeInv, Live, RequestUnchanged, RequestFails, Discard, Requested,
     Counted, files, history, InProgress, TxStates
<1> QED
  BY <1>1, <1>2, <1>3, <1>4 DEF AppInv

\* A request begins a transaction with its configuration staged.
LEMMA RequestStagedKeeps ==
    ASSUME AppInv, NEW config \in Configs, RequestStaged(config)
    PROVE  AppInv'
<1>a. /\ tx' \in TxType /\ tx'.candidate = config /\ tx'.previous = selected /\ ~tx'.waiting
      /\ tx'.state = IF config.port = selected.port THEN "PROMOTING" ELSE "ACTIVATING"
      /\ tx'.index = 1
  <2>1. NoTx \in TxType /\ NoTx.index = 1 /\ ~NoTx.waiting /\ selected \in Configs
    <3>1. NoTx \in TxType
      BY ResultIs DEF TxStates
    <3>2. NoTx.index = 1 /\ ~NoTx.waiting
      BY DEF NoTx
    <3>3. selected \in Configs
      BY DEF AppInv, TypeInv, TypeOK
    <3> QED
      BY <3>1, <3>2, <3>3
  <2> DEFINE state == IF config.port = selected.port THEN "PROMOTING" ELSE "ACTIVATING"
  <2>2. state \in TxStates
    BY DEF TxStates, InProgress
  <2>3. tx' = [NoTx EXCEPT !.state = state, !.candidate = config, !.previous = selected]
    BY DEF RequestStaged
  <2>4. tx'.state = state
    <3> HIDE DEF state
    <3> QED
      BY <2>1, <2>3 DEF TxType
  <2> HIDE DEF state
  <2>5. /\ tx' \in TxType /\ tx'.candidate = config /\ tx'.previous = selected /\ ~tx'.waiting
        /\ tx'.index = 1
    BY <2>1, <2>2, <2>3 DEF TxType
  <2> QED
    BY <2>4, <2>5 DEF state
<1>1. TypeInv'
  BY SavedKept, <1>a DEF AppInv, TypeInv, TypeOK, TxType, RequestStaged, Requested, Counted,
     files, history, InProgress, TxStates
<1>2. FilesInv'
  BY SavedKept, <1>a DEF AppInv, TypeInv, TypeOK, FilesInv, RequestStaged, Requested, Counted,
     files, history, InProgress, TxStates
<1>3. SlotsInv'
  <2>1. /\ UNCHANGED slots
        /\ Live' => Live
        /\ \A p \in Ports : Live /\ Awaited(p) => Quiet(slots[p]) \/ Awaited(p)'
    BY <1>a DEF AppInv, Awaited, Live, RequestStaged, Requested, Counted, files, history,
       InProgress, TxStates
  <2> QED
    BY <2>1, SlotsKept DEF AppInv
<1>4. ChangeInv'
  BY <1>a, IndexIs DEF AppInv, TypeInv, ChangeInv, Live, RequestStaged, Requested, history,
     InProgress
<1> QED
  BY <1>1, <1>2, <1>3, <1>4 DEF AppInv

\* There is no transaction, or the stop ends it.
LEMMA NoTransactionKeeps ==
    ASSUME AppInv, NoTransaction \/ Abandon
    PROVE  AppInv'
<1>a. /\ tx' \in TxType
      /\ \/ NoTransaction /\ tx' = tx
         \/ Abandon /\ tx'.state = "FAILED"
  BY ResultIs DEF NoTransaction, Abandon, TxStates, AppInv, TypeInv
<1>1. TypeInv'
  BY SavedKept, <1>a DEF AppInv, TypeInv, TypeOK, TxType, NoTransaction, Abandon, Closing,
     Discard, TransactionTurn, OnPorts, files, history, InProgress, TxStates
<1>2. FilesInv'
  BY SavedKept, <1>a DEF AppInv, TypeInv, TypeOK, FilesInv, NoTransaction, Abandon, Closing,
     Discard, TransactionTurn, OnPorts, files, history, InProgress, TxStates
<1>3. SlotsInv'
  <2>1. /\ UNCHANGED slots
        /\ Live' => Live
        /\ \A p \in Ports : Live /\ Awaited(p) => Quiet(slots[p]) \/ Awaited(p)'
    BY <1>a DEF AppInv, Awaited, Live, NoTransaction, Abandon, Closing, Discard,
       TransactionTurn, OnPorts, files, history, InProgress, TxStates
  <2> QED
    BY <2>1, SlotsKept DEF AppInv
<1>4. ChangeInv'
  BY <1>a DEF AppInv, ChangeInv, Live, NoTransaction, Abandon, Closing, Discard,
     TransactionTurn, OnPorts, files, history, InProgress, TxStates
<1> QED
  BY <1>1, <1>2, <1>3, <1>4 DEF AppInv

\* The port runs what it should: the next one.
LEMMA PortDoneKeeps ==
    ASSUME AppInv, PortDone
    PROVE  AppInv'
<1>a. /\ tx \in TxType /\ tx' \in TxType /\ tx'.index = tx.index + 1 /\ ~tx'.waiting
      /\ tx'.state = tx.state /\ tx'.rollbackFailed = tx.rollbackFailed
      /\ tx'.candidate = tx.candidate /\ tx'.previous = tx.previous
  BY IndexIs DEF AppInv, TypeInv, PortDone, TxType
<1>1. TypeInv'
  BY SavedKept, <1>a DEF AppInv, TypeInv, TypeOK, TxType, PortDone, Runs, Desired,
     TransactionTurn, OnPorts, files, history, InProgress, TxStates
<1>2. FilesInv'
  BY SavedKept, <1>a DEF AppInv, TypeInv, TypeOK, FilesInv, PortDone, Runs, Desired,
     TransactionTurn, OnPorts, files, history, InProgress, TxStates
<1>3. SlotsInv'
  <2>1. /\ UNCHANGED slots
        /\ Live' => Live
        /\ \A p \in Ports : Live /\ Awaited(p) => Quiet(slots[p]) \/ Awaited(p)'
    BY <1>a DEF AppInv, SlotsInv, Quiet, Awaited, Live, PortDone, Runs, TransactionTurn, OnPorts
  <2> QED
    BY <2>1, SlotsKept DEF AppInv
<1>4. ChangeInv'
  BY <1>a, IndexIs DEF AppInv, ChangeInv, Live, PortDone, Runs, Desired, TransactionTurn,
     OnPorts, files, history, InProgress, TxStates
<1> QED
  BY <1>1, <1>2, <1>3, <1>4 DEF AppInv

\* The port is to change, and is awaited.
LEMMA ChangePortKeeps ==
    ASSUME AppInv, ChangePort
    PROVE  AppInv'
<1>a. /\ tx \in TxType /\ tx' \in TxType /\ tx'.index = tx.index /\ tx'.waiting
      /\ tx'.state = tx.state /\ tx'.rollbackFailed = tx.rollbackFailed
      /\ tx'.candidate = tx.candidate /\ tx'.previous = tx.previous
      /\ tx.state \in {"ACTIVATING", "ROLLING_BACK"} /\ tx.index \in Ports
  BY DEF AppInv, TypeInv, ChangePort, OnPorts, TxType
<1>b. /\ slots' \in [Ports -> SlotType]
      /\ \A p \in Ports : p # tx.index => slots'[p] = slots[p]
  <2>1. slots[tx.index] \in SlotType /\ Desired[tx.index] \in PortConfigs
    BY <1>a, PortConfigIs DEF AppInv, TypeInv, Desired, TxType
  <2> QED
    BY <1>a, <2>1, PortOps DEF AppInv, TypeInv, ChangePort
<1>d. UNCHANGED <<coord, strayed, selected>>
  BY DEF ChangePort, OnPorts, TransactionTurn, history
<1>c. slots'[tx.index].life \in {"READY", "NETWORK_WAIT", "DISABLED"} =>
         slots'[tx.index].target = NoConfig
  <2>1. /\ slots[tx.index] \in SlotType
        /\ slots'[tx.index] = Port!Changed(slots[tx.index], Desired[tx.index])
        /\ slots[tx.index].life = "DISABLED" => slots[tx.index].target = NoConfig
    BY <1>a DEF AppInv, TypeInv, SlotsInv, ChangePort
  <2> QED
    BY <2>1 DEF Port!Changed, Port!Started, SlotType, Lives
<1>1. TypeInv'
  BY SavedKept, <1>a, <1>b, <1>c DEF AppInv, TypeInv, TypeOK, TxType, ChangePort,
     TransactionTurn, OnPorts, files, history, InProgress, TxStates
<1>2. FilesInv'
  BY SavedKept, <1>a, <1>b, <1>c DEF AppInv, TypeInv, TypeOK, FilesInv, ChangePort,
     TransactionTurn, OnPorts, files, history, InProgress, TxStates
<1>3. SlotsInv'
  BY <1>a, <1>b, <1>c, <1>d DEF AppInv, SlotsInv, Awaited, Live
<1>4. ChangeInv'
  <2>1. \A p \in Ports : p < tx.index => slots'[p] = slots[p]
    BY <1>a, <1>b, ApplicationAssumption DEF Ports
  <2> QED
    BY <1>a, <1>d, <2>1 DEF AppInv, ChangeInv, Live, InProgress
<1> QED
  BY <1>1, <1>2, <1>3, <1>4 DEF AppInv

\* The port does not do what it should: back, or on to the next one.
LEMMA PortFailedKeeps ==
    ASSUME AppInv, PortRefuses \/ PortEndsElsewhere
    PROVE  AppInv'
<1>a. /\ UNCHANGED <<selected, slots, dir, images, coord, initialized, stopRequested, call, told, strayed>>
      /\ turn = "transaction" /\ turn' = "coordinator"
      /\ tx \in TxType /\ tx.index \in Ports /\ tx.state \in {"ACTIVATING", "ROLLING_BACK"}
      /\ PortFailed
  BY DEF AppInv, TypeInv, PortRefuses, PortEndsElsewhere, OnPorts, TransactionTurn, PortFailed,
     RollBack,
         Discard, history, files
<1>b. /\ tx' \in TxType /\ ~tx'.waiting /\ tx'.state = "ROLLING_BACK"
      /\ tx'.candidate = tx.candidate /\ tx'.previous = tx.previous
      /\ \/ tx.state = "ACTIVATING" /\ staged' = Absent
            /\ tx'.index = IF tx.candidate.port = tx.previous.port THEN PortCount + 1 ELSE 1
         \/ tx.state = "ROLLING_BACK" /\ tx'.rollbackFailed /\ tx'.index = tx.index + 1
            /\ UNCHANGED staged
  <2>1. CASE tx.state = "ACTIVATING"
    BY <1>a, <2>1, RollBackIs DEF PortFailed, RollBack, Discard
  <2>2. CASE tx.state = "ROLLING_BACK"
    BY <1>a, <2>2, IndexIs DEF PortFailed, TxType, files
  <2> QED
    BY <1>a, <2>1, <2>2
<1>c. \A p \in Ports : Awaited(p) => Quiet(slots[p])
  <2>1. tx.waiting => slots[tx.index].life \notin {"CHANGING", "STOPPING"}
    BY DEF PortRefuses, PortEndsElsewhere
  <2>2. slots[tx.index].life \in Lives
    BY <1>a DEF AppInv, TypeInv, SlotType
  <2> QED
    BY <1>a, <2>1, <2>2 DEF AppInv, SlotsInv, Awaited, Lives, Quiet
<1>1. TypeInv'
  BY ZenonT(60), <1>a, <1>b, <1>c DEF AppInv, TypeInv, TypeOK, TxType, PortRefuses, PortEndsElsewhere,
     TransactionTurn, OnPorts, files, history, InProgress, TxStates
<1>2. FilesInv'
  BY <1>a, <1>b, <1>c, SavedKept DEF AppInv, TypeInv, TypeOK, FilesInv, PortRefuses,
     PortEndsElsewhere, TransactionTurn, OnPorts, files, history, InProgress, TxStates
<1>3. SlotsInv'
  <2>1. /\ UNCHANGED slots
        /\ Live' => Live
        /\ \A p \in Ports : Live /\ Awaited(p) => Quiet(slots[p]) \/ Awaited(p)'
    BY <1>a, <1>b, <1>c DEF AppInv, Awaited, Live, PortRefuses, PortEndsElsewhere,
       TransactionTurn, OnPorts, files, history, InProgress, TxStates
  <2> QED
    BY <2>1, SlotsKept DEF AppInv
<1>4. ChangeInv'
  BY <1>a, <1>b, <1>c, IndexIs DEF AppInv, ChangeInv, Live, PortRefuses, PortEndsElsewhere,
     TransactionTurn, OnPorts, files, history, InProgress, TxStates
<1> QED
  BY <1>1, <1>2, <1>3, <1>4 DEF AppInv

\* The port is awaited.
LEMMA AwaitPortKeeps ==
    ASSUME AppInv, AwaitPort
    PROVE  AppInv'
<1>1. TypeInv'
  BY ZenonT(60), SavedKept DEF AppInv, TypeInv, TypeOK, TxType, AwaitPort, TransactionTurn, OnPorts, files,
     history, InProgress, TxStates
<1>2. FilesInv'
  BY SavedKept DEF AppInv, TypeInv, TypeOK, FilesInv, AwaitPort, TransactionTurn, OnPorts,
     files, history, InProgress, TxStates
<1>3. SlotsInv'
  <2>1. /\ UNCHANGED slots
        /\ Live' => Live
        /\ \A p \in Ports : Live /\ Awaited(p) => Quiet(slots[p]) \/ Awaited(p)'
    BY DEF AppInv, Awaited, Live, AwaitPort, TransactionTurn, OnPorts, files, history,
       InProgress, TxStates
  <2> QED
    BY <2>1, SlotsKept DEF AppInv
<1>4. ChangeInv'
  BY DEF AppInv, ChangeInv, Live, AwaitPort, TransactionTurn, OnPorts, files, history,
     InProgress, TxStates
<1> QED
  BY <1>1, <1>2, <1>3, <1>4 DEF AppInv

\* Every port runs the candidate.
LEMMA AllActivatedKeeps ==
    ASSUME AppInv, AllActivated
    PROVE  AppInv'
<1>a. /\ tx \in TxType /\ tx' \in TxType /\ tx'.state = "PROMOTING"
      /\ tx'.candidate = tx.candidate /\ tx'.previous = tx.previous
  BY DEF AppInv, TypeInv, AllActivated, TxType, TxStates, InProgress
<1>1. TypeInv'
  BY SavedKept, <1>a DEF AppInv, TypeInv, TypeOK, TxType, AllActivated, TransactionTurn,
     OnPorts, files, history, InProgress, TxStates
<1>2. FilesInv'
  BY SavedKept, <1>a DEF AppInv, TypeInv, TypeOK, FilesInv, AllActivated, TransactionTurn,
     OnPorts, files, history, InProgress, TxStates
<1>3. SlotsInv'
  <2>1. /\ UNCHANGED slots
        /\ Live' => Live
        /\ \A p \in Ports : Live /\ Awaited(p) => Quiet(slots[p]) \/ Awaited(p)'
    BY <1>a DEF AppInv, Awaited, Live, AllActivated, TransactionTurn, OnPorts, files, history,
       InProgress, TxStates
  <2> QED
    BY <2>1, SlotsKept DEF AppInv
<1>4. ChangeInv'
  BY <1>a, IndexIs DEF AppInv, ChangeInv, Live, AllActivated, TransactionTurn, OnPorts, files,
     history, InProgress, TxStates
<1> QED
  BY <1>1, <1>2, <1>3, <1>4 DEF AppInv

\* The rollback is over.
LEMMA RolledBackKeeps ==
    ASSUME AppInv, RolledBack
    PROVE  AppInv'
<1>a. tx \in TxType /\ tx' \in TxType /\ tx'.state = "FAILED" /\ tx.previous \in Configs
  BY ResultIs DEF AppInv, TypeInv, RolledBack, TxStates, TxType
<1>1. TypeInv'
  BY SavedKept, <1>a DEF AppInv, TypeInv, TypeOK, TxType, RolledBack, TransactionTurn, OnPorts,
     files, history, InProgress, TxStates
<1>2. FilesInv'
  BY SavedKept, <1>a DEF AppInv, TypeInv, TypeOK, FilesInv, RolledBack, TransactionTurn,
     OnPorts, files, history, InProgress, TxStates
<1>3. SlotsInv'
  <2>1. /\ UNCHANGED slots
        /\ Live' => Live
        /\ \A p \in Ports : Live /\ Awaited(p) => Quiet(slots[p]) \/ Awaited(p)'
    BY <1>a DEF AppInv, Awaited, Live, RolledBack, TransactionTurn, OnPorts, files, history,
       InProgress, TxStates
  <2> QED
    BY <2>1, SlotsKept DEF AppInv
<1>4. ChangeInv'
  BY <1>a, IndexIs DEF AppInv, ChangeInv, Live, RolledBack, TransactionTurn, OnPorts, files,
     history, InProgress, TxStates
<1> QED
  BY <1>1, <1>2, <1>3, <1>4 DEF AppInv
\* The active file becomes the backup: what a boot selects is what it selected.
LEMMA BackupIs ==
    ASSUME dir \in images, images \subseteq Dirs, dir.active \in Configs, Backup
    PROVE  dir' \in images' /\ images' \subseteq Dirs /\ Saved' \subseteq Saved
<1> DEFINE moved == [active |-> Absent, backup |-> dir.active]
<1>1. dir' = moved /\ images' \subseteq images \cup {moved} /\ moved \in images'
  BY DEF Backup, Renamed, Views
<1>2. moved \in Dirs
  BY DEF Dirs, Contents
<1>3. Select(moved) = Select(dir)
  BY SelectsBackup, SelectsActive
<1> HIDE DEF moved
<1> QED
  BY <1>1, <1>2, <1>3 DEF Saved

\* The staged file becomes the active one: a boot selects it, or what it selected.
LEMMA ActivateIs ==
    ASSUME dir \in images, images \subseteq Dirs, staged \in Configs, Activate
    PROVE  /\ dir' \in images' /\ images' \subseteq Dirs /\ dir'.active = staged
           /\ Saved' \subseteq Saved \cup {staged}
<1> DEFINE moved(d) == [d EXCEPT !.active = staged]
<1>1. dir' = moved(dir) /\ images' = images \cup {moved(d) : d \in images}
  BY DEF Activate, Renamed, Views
<1>2. \A d \in Dirs : moved(d) \in Dirs /\ moved(d).active = staged
  BY DEF Dirs, Contents
<1> HIDE DEF moved
<1>3. \A d \in Dirs : Select(moved(d)) = staged
  BY <1>2, SelectsActive
<1> QED
  BY <1>1, <1>2, <1>3 DEF Saved

\* A rename of a promotion: no boot selects what was not told or is the candidate.
LEMMA PromoteStepKeeps ==
    ASSUME AppInv, PromoteBackup \/ PromoteUnbacked \/ PromoteActive
    PROVE  AppInv'
<1>a. /\ UNCHANGED <<coord, initialized, stopRequested, turn, selected, slots, tx, told, strayed>>
      /\ turn = "transaction" /\ tx.state = "PROMOTING" /\ call \in {"none", "backed up"}
  BY DEF PromoteBackup, PromoteUnbacked, PromoteActive, Promoting, Step, history
<1>b. /\ dir \in images /\ images \subseteq Dirs /\ staged = tx.candidate
      /\ staged \in Configs /\ Saved \subseteq told
  BY <1>a DEF AppInv, TypeInv, TypeOK, TxType, FilesInv
<1>c. /\ dir' \in images' /\ images' \subseteq Dirs
      /\ \/ call' = "backed up" /\ staged' = staged /\ Saved' \subseteq Saved
         \/ /\ call' = "renamed" /\ staged' = Absent /\ dir'.active = tx.candidate
            /\ Saved' \subseteq Saved \cup {tx.candidate}
  <2>1. CASE PromoteBackup
    BY <1>b, <2>1, BackupIs DEF PromoteBackup, Step
  <2>2. CASE PromoteUnbacked
    BY <1>b, <2>2, SavedKept DEF PromoteUnbacked, Step, files
  <2>3. CASE PromoteActive
    BY <1>b, <2>3, ActivateIs DEF PromoteActive, Step
  <2> QED
    BY <2>1, <2>2, <2>3
<1>1. TypeInv'
  BY <1>a, <1>b, <1>c DEF AppInv, TypeInv, TypeOK, TxType
<1>2. FilesInv'
  BY <1>a, <1>b, <1>c DEF FilesInv
<1>3. SlotsInv'
  BY <1>a DEF AppInv, SlotsInv, Live, Awaited
<1>4. ChangeInv'
  BY <1>a DEF AppInv, ChangeInv, Live
<1> QED
  BY <1>1, <1>2, <1>3, <1>4 DEF AppInv

\* The promotion is over, and the candidate is the configuration.
LEMMA AppliedKeeps ==
    ASSUME AppInv, PromoteUnchanged \/ PromoteSynced \/ PromoteUncertain
    PROVE  AppInv'
<1>a. /\ UNCHANGED <<coord, initialized, stopRequested, slots>> /\ call' = "none"
      /\ turn = "transaction" /\ turn' = "coordinator" /\ tx.state = "PROMOTING"
      /\ selected' = tx.candidate /\ strayed' = (strayed /\ tx.candidate.port = tx.previous.port)
      /\ dir' = dir /\ staged' \in {staged, Absent}
  BY DEF PromoteUnchanged, PromoteSynced, PromoteUncertain, Promoting, Applied, TransactionTurn,
         Discard, Synced, files
<1>b. tx \in TxType /\ tx' \in TxType /\ tx'.state \notin InProgress
  BY ResultIs DEF AppInv, TypeInv, PromoteUnchanged, PromoteSynced, PromoteUncertain, Applied,
                  TxStates, InProgress
<1>c. /\ dir' \in images' /\ images' \subseteq Dirs /\ Saved' \subseteq told'
  <2>1. CASE PromoteUnchanged
    BY <2>1, SavedKept DEF AppInv, TypeInv, TypeOK, FilesInv, PromoteUnchanged, Promoting, Applied,
                           Discard
  <2>2. CASE PromoteSynced
    <3>1. /\ images' = {dir} /\ dir' = dir /\ told' = {tx.candidate} /\ dir \in Dirs
          /\ dir.active = tx.candidate /\ tx.candidate \in Configs
      BY <2>2, <1>b DEF AppInv, TypeInv, TypeOK, TxType, FilesInv, PromoteSynced, Promoting,
         Applied, Synced
    <3> QED
      BY <3>1, SelectsActive DEF Saved
  <2>3. CASE PromoteUncertain
    BY <2>3, SavedKept DEF AppInv, TypeInv, TypeOK, FilesInv, PromoteUncertain, Promoting, Applied,
                           files
  <2> QED
    BY <2>1, <2>2, <2>3
<1>1. TypeInv'
  BY <1>a, <1>b, <1>c DEF AppInv, TypeInv, TypeOK, TxType
<1>2. FilesInv'
  BY <1>a, <1>b, <1>c DEF FilesInv, InProgress
<1>3. SlotsInv'
  <2>1. \A p \in Ports : ~Awaited(p)
    BY <1>a DEF Awaited
  <2> QED
    BY <1>a, <2>1, SlotsKept DEF AppInv, Live
<1>4. ChangeInv'
  BY <1>a, <1>b DEF AppInv, ChangeInv, Live, InProgress
<1> QED
  BY <1>1, <1>2, <1>3, <1>4 DEF AppInv

\* The promotion fails: the ports go back.
LEMMA NotPromotedKeeps ==
    ASSUME AppInv, PromoteFails \/ PromoteUnreadable
    PROVE  AppInv'
<1>a. /\ UNCHANGED <<coord, initialized, stopRequested, slots, selected, strayed>>
      /\ call' = "none" /\ turn' = "coordinator" /\ tx.state = "PROMOTING" /\ RollBack
  BY DEF PromoteFails, PromoteUnreadable, Promoting, NotPromoted, TransactionTurn
<1>b. tx \in TxType /\ tx' \in TxType /\ tx'.state = "ROLLING_BACK" /\ UNCHANGED <<dir, images>>
      /\ tx'.candidate = tx.candidate /\ tx'.previous = tx.previous
      /\ tx'.index = IF tx.candidate.port = tx.previous.port THEN PortCount + 1 ELSE 1
  BY <1>a, RollBackIs DEF AppInv, TypeInv
<1>c. Saved' = Saved /\ Saved \subseteq told' /\ staged' = Absent
  BY <1>b, SavedKept DEF AppInv, FilesInv, PromoteFails, PromoteUnreadable, Promoting, NotPromoted,
                         RollBack, Discard
<1>1. TypeInv'
  BY <1>a, <1>b, <1>c DEF AppInv, TypeInv, TypeOK, TxType
<1>2. FilesInv'
  BY <1>a, <1>b, <1>c DEF AppInv, FilesInv
<1>3. SlotsInv'
  <2>1. \A p \in Ports : ~Awaited(p)
    BY <1>a DEF Awaited
  <2> QED
    BY <1>a, <2>1, SlotsKept DEF AppInv, Live
<1>4. ChangeInv'
  BY <1>a, <1>b, IndexIs DEF AppInv, ChangeInv, Live, InProgress
<1> QED
  BY <1>1, <1>2, <1>3, <1>4 DEF AppInv
-----------------------------------------------------------------------------
(* The environment preserves the invariant, and the theorems follow. *)

\* A start finds the files, and nothing else.
LEMMA BootedIs ==
    ASSUME Booted, ~strayed', dir' \in images', images' \subseteq Dirs,
           staged' \in Configs \cup {Absent}, Saved' \subseteq told'
    PROVE  AppInv'
<1>1. /\ slots' \in [Ports -> SlotType]
      /\ \A p \in Ports : slots'[p].target = NoConfig
  <2>1. \A p \in Ports : Port!Fresh(SafeMode.port[p]) \in SlotType
    BY FreshIs, PortConfigIs, ApplicationAssumption
  <2>2. \A c : Port!Fresh(c).target = NoConfig
    BY DEF Port!Fresh
  <2> QED
    BY <2>1, <2>2 DEF Booted
<1>2. tx' \in TxType /\ tx'.state = "IDLE" /\ ~tx'.waiting
  <2>1. NoTx \in TxType
    BY ResultIs DEF TxStates
  <2> QED
    BY <2>1 DEF Booted, NoTx
<1>3. TypeInv'
  BY <1>1, <1>2, ApplicationAssumption DEF TypeInv, TypeOK, TxType, Booted
<1>4. FilesInv'
  BY <1>2 DEF FilesInv, Booted
<1>5. SlotsInv'
  BY <1>1 DEF SlotsInv, Quiet
<1>6. ChangeInv'
  BY <1>2 DEF ChangeInv, Booted, Live, InProgress
<1> QED
  BY <1>3, <1>4, <1>5, <1>6 DEF AppInv

\* The process is started again, or the power is cut.
LEMMA BootKeeps ==
    ASSUME AppInv, Restart \/ PowerCut
    PROVE  AppInv'
<1>1. CASE Restart
  <2>1. call = "none"
    BY <1>1 DEF AppInv, FilesInv, Restart
  <2>2. Booted /\ ~strayed' /\ UNCHANGED <<dir, images, staged, told>>
    BY <1>1 DEF Restart, files
  <2>3. /\ dir' \in images' /\ images' \subseteq Dirs /\ staged' \in Configs \cup {Absent}
        /\ Saved' \subseteq told'
    BY <2>1, <2>2, SavedKept DEF AppInv, TypeInv, TypeOK, FilesInv
  <2> QED
    BY <2>2, <2>3, BootedIs
<1>2. CASE PowerCut
  <2>1. /\ Booted /\ ~strayed' /\ dir' \in images /\ images' = {dir'} /\ staged' = staged
        /\ told' = {Select(dir')}
    BY <1>2 DEF PowerCut, Cut
  <2>2. Saved' \subseteq told'
    BY <2>1 DEF Saved
  <2>3. dir' \in images' /\ images' \subseteq Dirs /\ staged' \in Configs \cup {Absent}
    BY <2>1 DEF AppInv, TypeInv, TypeOK
  <2> QED
    BY <2>1, <2>2, <2>3, BootedIs
<1> QED
  BY <1>1, <1>2

\* The first start.
LEMMA AppInit == Init => AppInv
<1> SUFFICES ASSUME Init PROVE AppInv
  OBVIOUS
<1>1. /\ slots \in [Ports -> SlotType]
      /\ \A p \in Ports : slots[p].target = NoConfig
  <2>1. \A p \in Ports : Port!Fresh(SafeMode.port[p]) \in SlotType
    BY FreshIs, PortConfigIs, ApplicationAssumption
  <2>2. \A c : Port!Fresh(c).target = NoConfig
    BY DEF Port!Fresh
  <2> QED
    BY <2>1, <2>2 DEF Init
<1>2. tx \in TxType /\ tx.state = "IDLE"
  <2>1. NoTx \in TxType
    BY ResultIs DEF TxStates
  <2> QED
    BY <2>1 DEF Init, NoTx
<1>3. TypeInv
  BY <1>1, <1>2, ApplicationAssumption DEF TypeInv, TypeOK, TxType, Init
<1>4. FilesInv
  BY <1>2 DEF FilesInv, Init
<1>5. SlotsInv
  BY <1>1 DEF SlotsInv, Quiet
<1>6. ChangeInv
  BY <1>2 DEF ChangeInv, Init, Live, InProgress
<1> QED
  BY <1>3, <1>4, <1>5, <1>6 DEF AppInv

\* Nothing that AppInv looks at changes.
LEMMA AppStutters ==
    ASSUME AppInv, UNCHANGED <<files, coord, initialized, turn, selected, slots, tx, call, history>>,
           stopRequested' \in BOOLEAN
    PROVE  AppInv'
<1>1. TypeInv'
  BY DEF AppInv, TypeInv, TypeOK, files
<1>2. FilesInv'
  BY SavedKept DEF AppInv, FilesInv, files, history
<1>3. SlotsInv'
  BY DEF AppInv, SlotsInv, Live, Awaited
<1>4. ChangeInv'
  BY DEF AppInv, ChangeInv, Live, history
<1> QED
  BY <1>1, <1>2, <1>3, <1>4 DEF AppInv

\* Every step preserves the invariant.
LEMMA AppStep == AppInv /\ [Next]_vars => AppInv'
<1> SUFFICES ASSUME AppInv, [Next]_vars PROVE AppInv'
  OBVIOUS
<1>1. CASE Coordinator
  <2>1. CASE StopBegins \/ FatalBegins
    BY <2>1, BeginShutdownKeeps DEF StopBegins, FatalBegins
  <2> QED
    BY <1>1, <2>1, LoadKeeps, InitializeKeeps, StepPortsKeeps, ShutDownKeeps DEF Coordinator
<1>2. CASE Transaction
  BY <1>2, NoTransactionKeeps, PortDoneKeeps, ChangePortKeeps, PortFailedKeeps, AwaitPortKeeps,
     AllActivatedKeeps, RolledBackKeeps, PromoteStepKeeps, AppliedKeeps, NotPromotedKeeps
     DEF Transaction
<1>3. CASE RequestUnchanged \/ RequestFails \/ \E config \in Configs : RequestStaged(config)
  BY <1>3, RequestOverKeeps, RequestStagedKeeps
<1>4. CASE RequestStop
  BY <1>4, AppStutters DEF RequestStop
<1>5. CASE Restart \/ PowerCut
  BY <1>5, BootKeeps
<1>6. CASE Ended \/ UNCHANGED vars
  <2>1. stopRequested \in BOOLEAN
    BY DEF AppInv, TypeInv, TypeOK
  <2> QED
    BY <1>6, <2>1, AppStutters DEF Ended, vars, app
<1> QED
  BY <1>1, <1>2, <1>3, <1>4, <1>5, <1>6 DEF Next

\* The files, the ports and the transaction agree in every state.
THEOREM AppInvariance == Spec => []AppInv
BY AppInit, AppStep, PTL DEF Spec

\* BootsTold: wherever the power is cut, also between two renames of a promotion, the
\* next boot selects a configuration the user was told of, or the one being promoted.
THEOREM BootsWhatWasTold == Spec => []BootsTold
<1>1. AppInv => BootsTold
  BY DEF AppInv, TypeInv, FilesInv, BootsTold
<1> QED
  BY <1>1, AppInvariance, PTL

\* PortsRunSelected: between changes every port runs the configuration the application
\* takes for the current one, unless a rollback was reported as failed.
THEOREM PortsRunTheSelected == Spec => []PortsRunSelected
<1>1. AppInv => PortsRunSelected
  BY DEF AppInv, ChangeInv, Live, PortsRunSelected
<1> QED
  BY <1>1, AppInvariance, PTL
=============================================================================
