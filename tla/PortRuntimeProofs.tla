-------------------------- MODULE PortRuntimeProofs --------------------------
(***************************************************************************)
(* Theorems about PortRuntime, for every queue size, timeout and number of *)
(* configurations.  They rest on RuntimeAssumption only.                   *)
(***************************************************************************)
EXTENDS PortRuntime, SequenceTheorems, NaturalsInduction, WellFoundedInduction, TLAPS

-----------------------------------------------------------------------------
(* The life cycle: types and the states each datum goes with. *)

\* Only the staged configuration of a reconfiguration is ever applied.
StagedWhenUsed == state = "RECONFIGURING" => staged \in Configs

LifeInv ==
    /\ TypeOK
    /\ LifecycleConsistent
    /\ DegradedAfterAllAttempts
    /\ FallbackIsCurrent
    /\ StagedWhenUsed

\* No request has the number that stands for no event.
LEMMA NoEvent == 0 \in 0..MaxId
  BY RuntimeAssumption

\* notify_completion appends well-formed answers.
LEMMA NotifyType ==
    ASSUME TypeOK, NEW S, NEW status \in FinalStatus, NEW event \in 0..MaxId,
           Notify(S, status, event)
    PROVE  answers' \in [Ids -> Seq(Answer)]
<1>1. [status |-> status, event |-> event] \in Answer
  BY DEF Answer
<1>2. \A i \in Ids : answers[i] \in Seq(Answer)
  BY DEF TypeOK
<1>3. \A i \in Ids : \A a \in Answer : Append(answers[i], a) \in Seq(Answer)
  BY <1>2
<1> QED
  BY <1>1, <1>2, <1>3 DEF Notify

\* A deadline that is counted down by a tick stays a number of ticks.
LEMMA LessType == \A n \in Nat : Less(n) \in Nat
  BY DEF Less

\* Waiting a tick changes nothing but the time left.
LEMMA Aged ==
    ASSUME NEW t \in Transaction
    PROVE  /\ [t EXCEPT !.left = Less(@)] \in Transaction
           /\ [t EXCEPT !.left = Less(@)].id = t.id
           /\ [t EXCEPT !.left = Less(@)].gen = t.gen
<1>1. t.left \in Nat /\ Less(t.left) \in Nat
  BY LessType DEF Transaction
<1> QED
  BY <1>1 DEF Transaction

\* What is left of a queue after its first k entries and the next are gone.
LEMMA QueueRest ==
    ASSUME NEW q \in Seq(Transaction), NEW k \in 0..Len(q), k # Len(q)
    PROVE  /\ k + 1 \in 1..Len(q) /\ q[k + 1] \in Transaction
           /\ SubSeq(q, k + 2, Len(q)) \in Seq(Transaction)
           /\ Len(SubSeq(q, k + 2, Len(q))) = Len(q) - (k + 1)
           /\ \A j \in 1..(Len(q) - (k + 1)) : SubSeq(q, k + 2, Len(q))[j] = q[k + 1 + j]
<1>1. Len(q) \in Nat /\ k \in Nat /\ k < Len(q)
  OBVIOUS
<1>2. \A i \in 1..Len(q) : q[i] \in Transaction
  OBVIOUS
<1>3. k + 1 \in 1..Len(q) /\ q[k + 1] \in Transaction
  BY <1>1, <1>2
<1>4. /\ SubSeq(q, k + 2, Len(q)) \in Seq(Transaction)
      /\ Len(SubSeq(q, k + 2, Len(q))) = IF k + 2 <= Len(q) THEN Len(q) - (k + 2) + 1 ELSE 0
      /\ \A i \in 1..(Len(q) - (k + 2) + 1) :
            SubSeq(q, k + 2, Len(q))[i] = q[(k + 2) + i - 1]
  <2>1. k + 2 \in Int /\ Len(q) \in Int
    BY <1>1
  <2>2. \A i \in (k + 2)..Len(q) : q[i] \in Transaction
    BY <1>1, <1>2
  <2> QED
    BY <2>1, <2>2, SubSeqProperties
<1> HIDE DEF Transaction
<1>5. Len(SubSeq(q, k + 2, Len(q))) = Len(q) - (k + 1)
  BY <1>1, <1>4
<1>6. \A j \in 1..(Len(q) - (k + 1)) : SubSeq(q, k + 2, Len(q))[j] = q[k + 1 + j]
  <2> TAKE j \in 1..(Len(q) - (k + 1))
  <2>1. j \in 1..(Len(q) - (k + 2) + 1) /\ (k + 2) + j - 1 = k + 1 + j
    BY <1>1
  <2> QED
    BY <1>4, <2>1
<1> QED
  BY <1>3, <1>4, <1>5, <1>6

\* port_runtime_init establishes the life cycle invariant.
LEMMA LifeInit == Init => LifeInv
<1> SUFFICES ASSUME Init PROVE LifeInv
  OBVIOUS
<1>1. NoTransaction \in Transaction
  BY RuntimeAssumption DEF NoTransaction, Transaction
<1>2. answers \in [Ids -> Seq(Answer)]
  BY DEF Init
<1>a. queue \in Seq(Transaction)
  BY DEF Init
<1>b. hasActive \in BOOLEAN /\ refused \in BOOLEAN
  BY DEF Init
<1>c. state \in States /\ active \in Transaction
  BY <1>1 DEF Init, States
<1>d. generation \in Nat  /\ nextId \in 1..(MaxId + 1) /\ stateLeft \in Nat /\ attempts \in 0..MaxAttempts
  BY RuntimeAssumption DEF Init
<1>e. current \in Configs /\ knownGood \in Configs /\ staged \in Configs \cup {NoConfig}
  BY RuntimeAssumption DEF Init
<1>f. inflight \subseteq Work /\ accepted \subseteq Ids
  BY DEF Init
<1>3. TypeOK
  BY <1>2, <1>a, <1>b, <1>c, <1>d, <1>e, <1>f DEF TypeOK
<1> QED
  BY <1>3, RuntimeAssumption DEF Init, LifeInv, LifecycleConsistent,
     DegradedAfterAllAttempts, FallbackIsCurrent, StagedWhenUsed

\* What begin_recovery leaves behind.
LEMMA BeginRecoveryLife ==
    ASSUME LifeInv, NEW pending \in SUBSET Work, BeginRecovery(pending),
           "RECOVERING" \in Allowed(state)
    PROVE  /\ state' = "RECOVERING" /\ refused' = refused
           /\ active' = NoTransaction /\ NoTransaction \in Transaction
           /\ hasActive' = FALSE
           /\ inflight' \subseteq Work
           /\ attempts' = 0 /\ stateLeft' \in Nat
<1>1. NoTransaction \in Transaction
  BY RuntimeAssumption DEF NoTransaction, Transaction
<1>2. inflight' \subseteq Work
  BY DEF BeginRecovery, CancelBackend
<1> QED
  BY <1>1, <1>2, RuntimeAssumption DEF BeginRecovery, ClearActive, EnterRecovery, Goto

\* What flush_queue and the cancellation of the active transaction leave behind.
LEMMA DropAllLife ==
    ASSUME LifeInv, DropAll
    PROVE  /\ queue' = <<>> /\ queue' \in Seq(Transaction)
           /\ active' = NoTransaction /\ NoTransaction \in Transaction
           /\ hasActive' = FALSE
           /\ inflight' \subseteq Work
           /\ answers' \in [Ids -> Seq(Answer)]
<1>1. NoTransaction \in Transaction
  BY RuntimeAssumption DEF NoTransaction, Transaction
<1>2. inflight' \subseteq Work
  BY DEF LifeInv, TypeOK, DropAll, CancelBackend
<1>3. answers' \in [Ids -> Seq(Answer)]
  <2>1. TypeOK /\ "CANCELLED" \in FinalStatus /\ 0 \in 0..MaxId
    BY NoEvent DEF LifeInv, FinalStatus
  <2>2. Notify(Pending, "CANCELLED", 0)
    BY DEF DropAll
  <2> QED
    BY <2>1, <2>2, NotifyType
<1> QED
  BY <1>1, <1>2, <1>3 DEF DropAll, ClearActive

\* A step that only drops the active transaction for a recovery.
LEMMA RecoveringLife ==
    ASSUME LifeInv,
           state' = "RECOVERING", refused' = refused,
           active' = NoTransaction, NoTransaction \in Transaction, hasActive' = FALSE,
           inflight' \subseteq Work, attempts' = 0, stateLeft' \in Nat,
           answers' \in [Ids -> Seq(Answer)],
           queue' \in Seq(Transaction),
           UNCHANGED <<generation, configVars, clientVars>>
    PROVE  LifeInv'
<1> USE RuntimeAssumption
<1> USE DEF LifeInv, TypeOK, LifecycleConsistent, DegradedAfterAllAttempts,
            FallbackIsCurrent, StagedWhenUsed, States, configVars, clientVars
<1>1. hasActive' \in BOOLEAN /\ refused' \in BOOLEAN
  OBVIOUS
<1>2. TypeOK'
  BY <1>1
<1>3. LifecycleConsistent'
  OBVIOUS
<1>4. DegradedAfterAllAttempts' /\ FallbackIsCurrent' /\ StagedWhenUsed'
  OBVIOUS
<1> QED
  BY <1>2, <1>3, <1>4

\* Every call, step and tick of the port preserves the life cycle invariant.
LEMMA LifeStep == LifeInv /\ [Next]_vars => LifeInv'
<1> SUFFICES ASSUME LifeInv, [Next]_vars PROVE LifeInv'
  OBVIOUS
<1> USE RuntimeAssumption
<1> USE DEF LifeInv, TypeOK, LifecycleConsistent, DegradedAfterAllAttempts,
            FallbackIsCurrent, StagedWhenUsed, States,
            queueVars, activeVars, configVars, clientVars
<1>0. CASE UNCHANGED vars
  BY <1>0 DEF vars
<1>1. CASE Start
  BY <1>1 DEF Start, Goto, Allowed
<1>2. ASSUME NEW length \in Lengths, Submit(length) PROVE LifeInv'
  <2>1. nextId \in Ids /\ nextId' \in 1..(MaxId + 1)
    BY <1>2 DEF Submit, Ids
  <2>a. accepted' \subseteq Ids
    BY <1>2, <2>1 DEF Submit
  <2>2. queue' \in Seq(Transaction)
    <3>1. [id |-> nextId, length |-> length, left |-> QueueTimeout, gen |-> 0, sent |-> FALSE] \in Transaction
      BY <2>1 DEF Transaction, Ids
    <3>2. CASE TotalFits(length)
      BY <1>2, <3>1, <3>2 DEF Submit, Pushed
    <3>3. CASE ~TotalFits(length)
      BY <1>2, <3>3 DEF Submit
    <3> QED
      BY <3>2, <3>3
  <2> QED
    BY <1>2, <2>1, <2>2, <2>a DEF Submit
<1>3. CASE CancelActive
  <2>1. "RECOVERING" \in Allowed(state)
    BY <1>3 DEF CancelActive, Allowed
  <2>2. answers' \in [Ids -> Seq(Answer)]
    BY <1>3, NoEvent, NotifyType DEF CancelActive, FinalStatus
  <2>3. BeginRecovery(inflight) /\ inflight \in SUBSET Work
    BY <1>3 DEF CancelActive
  <2>4. /\ state' = "RECOVERING" /\ refused' = refused
        /\ active' = NoTransaction /\ NoTransaction \in Transaction
        /\ hasActive' = FALSE
        /\ inflight' \subseteq Work
        /\ attempts' = 0 /\ stateLeft' \in Nat
    BY <2>1, <2>3, BeginRecoveryLife
  <2> QED
    BY <1>3, <2>2, <2>4, RecoveringLife DEF CancelActive
<1>4. CASE ReportIoFailure
  <2>1. "RECOVERING" \in Allowed(state)
    BY <1>4 DEF ReportIoFailure, Allowed
  <2>2. answers' = answers
    BY <1>4 DEF ReportIoFailure
  <2>3. BeginRecovery(inflight) /\ inflight \in SUBSET Work
    BY <1>4 DEF ReportIoFailure
  <2>4. /\ state' = "RECOVERING" /\ refused' = refused
        /\ active' = NoTransaction /\ NoTransaction \in Transaction
        /\ hasActive' = FALSE
        /\ inflight' \subseteq Work
        /\ attempts' = 0 /\ stateLeft' \in Nat
    BY <2>1, <2>3, BeginRecoveryLife
  <2> QED
    BY <1>4, <2>2, <2>4, RecoveringLife DEF ReportIoFailure
<1>5. CASE OpenGivenUp
  <2>1. "RECOVERING" \in Allowed(state)
    BY <1>5 DEF OpenGivenUp, Allowed
  <2>2. answers' = answers
    BY <1>5 DEF OpenGivenUp
  <2>3. BeginRecovery(inflight) /\ inflight \in SUBSET Work
    BY <1>5 DEF OpenGivenUp
  <2>4. /\ state' = "RECOVERING" /\ refused' = refused
        /\ active' = NoTransaction /\ NoTransaction \in Transaction
        /\ hasActive' = FALSE
        /\ inflight' \subseteq Work
        /\ attempts' = 0 /\ stateLeft' \in Nat
    BY <2>1, <2>3, BeginRecoveryLife
  <2> QED
    BY <1>5, <2>2, <2>4, RecoveringLife DEF OpenGivenUp
<1>6. CASE WaitingTimeout
  <2>1. "RECOVERING" \in Allowed(state)
    BY <1>6 DEF WaitingTimeout, Allowed
  <2>2. answers' \in [Ids -> Seq(Answer)]
    BY <1>6, NoEvent, NotifyType DEF WaitingTimeout, FinalStatus
  <2>3. BeginRecovery(inflight) /\ inflight \in SUBSET Work
    BY <1>6 DEF WaitingTimeout
  <2>4. /\ state' = "RECOVERING" /\ refused' = refused
        /\ active' = NoTransaction /\ NoTransaction \in Transaction
        /\ hasActive' = FALSE
        /\ inflight' \subseteq Work
        /\ attempts' = 0 /\ stateLeft' \in Nat
    BY <2>1, <2>3, BeginRecoveryLife
  <2> QED
    BY <1>6, <2>2, <2>4, RecoveringLife DEF WaitingTimeout
<1>7. ASSUME NEW e \in inflight, NEW status \in {"MALFORMED", "FAILED"}, WaitingFailure(e, status)
      PROVE  LifeInv'
  <2>1. "RECOVERING" \in Allowed(state)
    BY <1>7 DEF WaitingFailure, Allowed
  <2>n. e.id \in 0..MaxId /\ status \in FinalStatus
    BY <1>7 DEF FinalStatus, Work
  <2>2. answers' \in [Ids -> Seq(Answer)]
    BY <1>7, <2>n, NotifyType DEF WaitingFailure
  <2>3. BeginRecovery((inflight \ {e})) /\ (inflight \ {e}) \in SUBSET Work
    BY <1>7 DEF WaitingFailure
  <2>4. /\ state' = "RECOVERING" /\ refused' = refused
        /\ active' = NoTransaction /\ NoTransaction \in Transaction
        /\ hasActive' = FALSE
        /\ inflight' \subseteq Work
        /\ attempts' = 0 /\ stateLeft' \in Nat
    BY <2>1, <2>3, BeginRecoveryLife
  <2> QED
    BY <1>7, <2>2, <2>4, RecoveringLife DEF WaitingFailure
<1>8. CASE DetachListener
  <2>1. /\ queue' = <<>> /\ queue' \in Seq(Transaction)
        /\ active' = NoTransaction /\ NoTransaction \in Transaction
        /\ hasActive' = FALSE
        /\ inflight' \subseteq Work
        /\ answers' \in [Ids -> Seq(Answer)]
    BY <1>8, DropAllLife DEF DetachListener
  <2>2. CASE hasActive
    <3>1. "RECOVERING" \in Allowed(state)
      BY <2>2 DEF Allowed
    <3>2. state' = "RECOVERING" /\ refused' = refused /\ attempts' = 0 /\ stateLeft' \in Nat
      BY <1>8, <2>2, <3>1 DEF DetachListener, EnterRecovery, Goto
    <3> QED
      BY <1>8, <2>1, <3>2, RecoveringLife DEF DetachListener
  <2>3. CASE ~hasActive
    <3>1. UNCHANGED <<state, refused, attempts, stateLeft>>
      BY <1>8, <2>3 DEF DetachListener
    <3>2. refused' \in BOOLEAN /\ hasActive' \in BOOLEAN
      BY <2>1, <3>1
    <3>3. TypeOK'
      BY <1>8, <2>1, <3>1, <3>2 DEF DetachListener
    <3>4. LifecycleConsistent'
      BY <2>1, <2>3, <3>1
    <3> QED
      BY <1>8, <3>1, <3>3, <3>4 DEF DetachListener
  <2> QED
    BY <2>2, <2>3
<1>9. ASSUME NEW config \in Configs, RequestReconfigure(config) PROVE LifeInv'
  <2>1. /\ queue' = <<>> /\ queue' \in Seq(Transaction)
        /\ active' = NoTransaction /\ NoTransaction \in Transaction
        /\ hasActive' = FALSE
        /\ inflight' \subseteq Work
        /\ answers' \in [Ids -> Seq(Answer)]
    BY <1>9, DropAllLife DEF RequestReconfigure
  <2>2. state' = "RECONFIGURING" /\ refused' = refused
    BY <1>9 DEF RequestReconfigure, Goto, Allowed
  <2>b. hasActive' \in BOOLEAN /\ refused' \in BOOLEAN
    BY <1>9, <2>1, <2>2 DEF RequestReconfigure
  <2>t. TypeOK'
    BY <1>9, <2>1, <2>2, <2>b DEF RequestReconfigure
  <2>l. LifecycleConsistent'
    BY <1>9, <2>1, <2>2 DEF RequestReconfigure
  <2>r. DegradedAfterAllAttempts' /\ FallbackIsCurrent' /\ StagedWhenUsed'
    BY <1>9, <2>1, <2>2 DEF RequestReconfigure
  <2> QED
    BY <2>t, <2>l, <2>r
<1>10. CASE RequestStop
  <2>1. /\ queue' = <<>> /\ queue' \in Seq(Transaction)
        /\ active' = NoTransaction /\ NoTransaction \in Transaction
        /\ hasActive' = FALSE
        /\ inflight' \subseteq Work
        /\ answers' \in [Ids -> Seq(Answer)]
    BY <1>10, DropAllLife DEF RequestStop
  <2>2. state' = "STOPPING" /\ refused' = refused
    BY <1>10 DEF RequestStop, Goto, Allowed
  <2>b. hasActive' \in BOOLEAN /\ refused' \in BOOLEAN
    BY <1>10, <2>1, <2>2 DEF RequestStop
  <2>t. TypeOK'
    BY <1>10, <2>1, <2>2, <2>b DEF RequestStop
  <2>l. LifecycleConsistent'
    BY <1>10, <2>1, <2>2 DEF RequestStop
  <2>r. DegradedAfterAllAttempts' /\ FallbackIsCurrent' /\ StagedWhenUsed'
    BY <1>10, <2>1, <2>2 DEF RequestStop
  <2> QED
    BY <2>t, <2>l, <2>r
<1>11. CASE Opened
  BY <1>11 DEF Opened, Goto, Allowed
<1>12. CASE WaitingStale
  BY <1>12 DEF WaitingStale
<1>13. CASE RecoverDelayed
  BY <1>13 DEF RecoverDelayed, DiscardEvent
<1>14. CASE Recovered
  BY <1>14 DEF Recovered, DiscardEvent, Goto, Allowed
<1>15. CASE RecoverFailed
  <2>a. inflight' \subseteq Work
    BY <1>15 DEF RecoverFailed, DiscardEvent
  <2>1. attempts' \in 0..MaxAttempts /\ attempts' = attempts + 1
    BY <1>15 DEF RecoverFailed
  <2>2. CASE LastAttempt
    <3>1. state' = "DEGRADED" /\ refused' = refused /\ attempts' = MaxAttempts
      BY <1>15, <2>1, <2>2 DEF RecoverFailed, LastAttempt, Goto, Allowed
    <3> QED
      BY <1>15, <2>a, <2>1, <2>2, <3>1 DEF RecoverFailed
  <2>3. CASE ~LastAttempt
    <3>1. attempts' < MaxAttempts
      BY <2>1, <2>3 DEF LastAttempt
    <3> QED
      BY <1>15, <2>a, <2>1, <2>3, <3>1 DEF RecoverFailed
  <2> QED
    BY <2>2, <2>3
<1>16. CASE StepReconfiguring
  BY <1>16 DEF StepReconfiguring, Goto, Allowed, TakeOver
<1>17. CASE Stopped
  BY <1>17 DEF Stopped, Goto, Allowed
<1>18. CASE StopGivenUp
  BY <1>18 DEF StopGivenUp, Goto, Allowed
<1>19. CASE StepActive
  <2>1. CASE /\ Goto("WAITING")
             /\ inflight' = inflight \cup {Handed(active)}
             /\ UNCHANGED <<active, hasActive, stateLeft, attempts, answers>>
    <3>1. state' = "WAITING" /\ refused' = refused
      BY <1>19, <2>1 DEF StepActive, Goto, Allowed
    <3>2. inflight' \subseteq Work
      BY <2>1 DEF Transaction, Work, Handed
    <3> QED
      BY <1>19, <2>1, <3>1, <3>2 DEF StepActive
  <2>2. CASE Notify({active.id}, "FAILED", 0) /\ BeginRecovery(inflight)
    <3>1. "RECOVERING" \in Allowed(state)
      BY <1>19 DEF StepActive, Allowed
    <3>2. answers' \in [Ids -> Seq(Answer)]
      BY <2>2, NoEvent, NotifyType DEF FinalStatus
    <3>3. /\ state' = "RECOVERING" /\ refused' = refused
          /\ active' = NoTransaction /\ NoTransaction \in Transaction
          /\ hasActive' = FALSE
          /\ inflight' \subseteq Work
          /\ attempts' = 0 /\ stateLeft' \in Nat
      BY <2>2, <3>1, BeginRecoveryLife
    <3> QED
      BY <1>19, <3>2, <3>3, RecoveringLife DEF StepActive
  <2> QED
    BY <1>19, <2>1, <2>2 DEF StepActive
<1>20. CASE WaitingTransmitted
  <2>1. active' \in Transaction /\ active'.gen = active.gen
    BY <1>20 DEF WaitingTransmitted, Transaction
  <2> QED
    BY <1>20, <2>1 DEF WaitingTransmitted
<1>21. ASSUME NEW e \in inflight, WaitingResponse(e) PROVE LifeInv'
  <2>1. e.id \in 0..MaxId /\ "COMPLETED" \in FinalStatus
    BY DEF FinalStatus, Work
  <2>2. answers' \in [Ids -> Seq(Answer)]
    BY <1>21, <2>1, NotifyType DEF WaitingResponse
  <2>3. state' = "READY" /\ refused' = refused
    BY <1>21 DEF WaitingResponse, Goto, Allowed
  <2>4. active' = NoTransaction /\ NoTransaction \in Transaction /\ hasActive' = FALSE
    BY <1>21 DEF WaitingResponse, ClearActive, NoTransaction, Transaction
  <2>b. hasActive' \in BOOLEAN /\ refused' \in BOOLEAN
    BY <1>21, <2>2, <2>3, <2>4 DEF WaitingResponse
  <2>t. TypeOK'
    BY <1>21, <2>2, <2>3, <2>4, <2>b DEF WaitingResponse
  <2>l. LifecycleConsistent'
    BY <1>21, <2>2, <2>3, <2>4 DEF WaitingResponse
  <2>r. DegradedAfterAllAttempts' /\ FallbackIsCurrent' /\ StagedWhenUsed'
    BY <1>21, <2>2, <2>3, <2>4 DEF WaitingResponse
  <2> QED
    BY <2>t, <2>l, <2>r
<1>22. CASE Tick
  <2>1. active' \in Transaction /\ active'.gen = active.gen
    BY <1>22, Aged DEF Tick
  <2>2. queue' \in Seq(Transaction)
    <3>1. DOMAIN queue = 1..Len(queue) /\ Len(queue) \in Nat
      OBVIOUS
    <3>2. \A j \in 1..Len(queue) : [queue[j] EXCEPT !.left = Less(@)] \in Transaction
      BY <3>1, Aged
    <3>3. queue' = [j \in 1..Len(queue) |-> [queue[j] EXCEPT !.left = Less(@)]]
      BY <1>22, <3>1 DEF Tick
    <3> QED
      BY <3>1, <3>2, <3>3
  <2>3. stateLeft' \in Nat
    BY <1>22, LessType DEF Tick
  <2> QED
    BY <1>22, <2>1, <2>2, <2>3 DEF Tick
<1>23. CASE StepReady
  <2>1. PICK k \in 0..Len(queue) :
          /\ Notify({queue[j].id : j \in 1..k}, "TIMED_OUT", 0)
          /\ IF k = Len(queue)
             THEN /\ queue' = <<>> /\ bytes' = bytes - TotalLength(queue)
                  /\ ClearActive
                  /\ UNCHANGED <<state, refused, generation>>
             ELSE /\ queue' = SubSeq(queue, k + 2, Len(queue))
                  /\ bytes' = bytes - TotalLength(SubSeq(queue, 1, k + 1))
                  /\ hasActive' = TRUE
                  /\ generation' = NextGeneration
                  /\ active' = [queue[k + 1] EXCEPT !.gen = NextGeneration,
                                                    !.left = ResponseTimeout]
                  /\ Goto("ACTIVE")
    BY <1>23 DEF StepReady
  <2>2. answers' \in [Ids -> Seq(Answer)]
    BY <2>1, NoEvent, NotifyType DEF FinalStatus
  <2>3. CASE k = Len(queue)
    <3>1. /\ queue' \in Seq(Transaction)
          /\ active' = NoTransaction /\ NoTransaction \in Transaction /\ hasActive' = FALSE
          /\ UNCHANGED <<state, refused, generation>>
      BY <2>1, <2>3 DEF ClearActive, NoTransaction, Transaction
    <3>2. hasActive' \in BOOLEAN /\ refused' \in BOOLEAN
      BY <3>1
    <3>3. TypeOK'
      BY <1>23, <2>2, <3>1, <3>2 DEF StepReady
    <3>4. LifecycleConsistent'
      BY <1>23, <3>1 DEF StepReady
    <3>5. DegradedAfterAllAttempts' /\ FallbackIsCurrent' /\ StagedWhenUsed'
      BY <1>23, <3>1 DEF StepReady
    <3> QED
      BY <3>3, <3>4, <3>5
  <2>4. CASE k # Len(queue)
    <3>1. queue[k + 1] \in Transaction /\ SubSeq(queue, k + 2, Len(queue)) \in Seq(Transaction)
      BY <2>4, QueueRest
    <3>2. active' \in Transaction /\ active'.gen = generation + 1
      <4>1. active' = [queue[k + 1] EXCEPT !.gen = NextGeneration, !.left = ResponseTimeout]
        BY <2>1, <2>4
      <4>2. NextGeneration \in Nat /\ NextGeneration = generation + 1
        BY DEF NextGeneration
      <4> QED
        BY <3>1, <4>1, <4>2 DEF Transaction
    <3>3. queue' = SubSeq(queue, k + 2, Len(queue)) /\ queue' \in Seq(Transaction)
      BY <2>1, <2>4, <3>1
    <3>4. state' = "ACTIVE" /\ refused' = refused
      BY <1>23, <2>1, <2>4 DEF StepReady, Goto, Allowed
    <3>5. hasActive' = TRUE /\ generation' = generation + 1
      BY <2>1, <2>4 DEF NextGeneration
    <3>6. hasActive' \in BOOLEAN /\ refused' \in BOOLEAN
      BY <3>4, <3>5
    <3>a. UNCHANGED <<stateLeft, attempts, configVars, inflight, clientVars>>
      BY <1>23 DEF StepReady
    <3>b. state' \in States /\ generation' \in Nat
      BY <3>4, <3>5
    <3>7. TypeOK'
      BY <2>2, <3>2, <3>3, <3>6, <3>a, <3>b
    <3>8. LifecycleConsistent'
      <4>1. active'.gen = generation' /\ generation' > 0
        BY <3>2, <3>5
      <4> QED
        BY <3>4, <3>5, <4>1
    <3>9. DegradedAfterAllAttempts' /\ FallbackIsCurrent' /\ StagedWhenUsed'
      BY <1>23, <3>4 DEF StepReady
    <3> QED
      BY <3>7, <3>8, <3>9
  <2> QED
    BY <2>3, <2>4
<1> QED
  BY <1>0, <1>1, <1>2, <1>3, <1>4, <1>5, <1>6, <1>7, <1>8, <1>9, <1>10, <1>11, <1>12, <1>13,
     <1>14, <1>15, <1>16, <1>17, <1>18, <1>19, <1>20, <1>21, <1>22, <1>23 DEF Next, Call, Step,
     StepWaiting

\* The life cycle of every port: its types, the states its active transaction
\* goes with, no transition refused, the fallback of a reconfiguration.
THEOREM LifeCycle == Spec => []LifeInv
  BY LifeInit, LifeStep, PTL DEF Spec

\* port_runtime_t keeps its types, whatever is called and however time passes.
THEOREM TypeCorrect == Spec => []TypeOK
  BY LifeCycle, PTL DEF LifeInv

\* The state fits has_active and the generation, and no handler of the runtime
\* asks for a transition that is refused.
THEOREM LifecycleFits == Spec => []LifecycleConsistent
  BY LifeCycle, PTL DEF LifeInv

\* A failed reconfiguration falls back to the configuration that ran before it.
THEOREM FallbackSound == Spec => []FallbackIsCurrent
  BY LifeCycle, PTL DEF LifeInv

\* DEGRADED needs MaxAttempts failed recoveries in a row.
THEOREM DegradedSound == Spec => []DegradedAfterAllAttempts
  BY LifeCycle, PTL DEF LifeInv

\* Life cycle, active request, fallback and recovery count agree after any failure.
THEOREM FailuresSound == Spec => []FailuresAreSound
  BY LifecycleFits, FallbackSound, DegradedSound, PTL DEF FailuresAreSound

-----------------------------------------------------------------------------
(* The requests: each accepted one is pending or answered, never both. *)

AcceptedAreOlder == \A i \in accepted : i < nextId

\* No generation was given to two requests, and what the backend still works for
\* under the active one is the active request.
WorkInv ==
    \A e \in inflight :
        /\ e.gen <= generation
        /\ hasActive /\ e.gen = active.gen => e.id = active.id

ServiceInv ==
    /\ PendingInOrder
    /\ AcceptedAreOlder
    /\ NothingForgotten
    /\ AnsweredOnce
    /\ AnsweredByOwnEvent
    /\ QueueOnlyWhereServed

\* The backend is handed nothing, and the active request stays or goes.
LEMMA NoMoreWork ==
    ASSUME WorkInv, inflight' \subseteq inflight, generation' = generation,
           hasActive' => hasActive /\ active'.gen = active.gen /\ active'.id = active.id
    PROVE  WorkInv'
  BY DEF WorkInv

\* What begin_recovery leaves the backend to do.
LEMMA RecoveryWork ==
    ASSUME WorkInv, NEW pending \in SUBSET inflight, BeginRecovery(pending),
           UNCHANGED generation
    PROVE  WorkInv'
  BY NoMoreWork DEF BeginRecovery, CancelBackend, ClearActive

\* A request is handed over under the generation it was made active with, which is
\* a new one.
LEMMA WorkStep == LifeInv /\ WorkInv /\ [Next]_vars => WorkInv'
<1> SUFFICES ASSUME LifeInv, WorkInv, [Next]_vars PROVE WorkInv'
  OBVIOUS
<1> USE DEF activeVars
<1>0. inflight \subseteq Work /\ generation \in Nat /\ active \in Transaction
  BY DEF LifeInv, TypeOK
<1>1. CASE UNCHANGED vars
  BY <1>1, NoMoreWork DEF vars
<1>2. CASE \/ Start \/ (\E length \in Lengths : Submit(length)) \/ Opened \/ WaitingStale
           \/ RecoverDelayed \/ Recovered \/ RecoverFailed
  <2>1. inflight' \subseteq inflight
    BY <1>2 DEF Start, Submit, Opened, WaitingStale, RecoverDelayed, Recovered, RecoverFailed,
       DiscardEvent
  <2>2. UNCHANGED <<active, hasActive, generation>>
    BY <1>2 DEF Start, Submit, Opened, WaitingStale, RecoverDelayed, Recovered, RecoverFailed
  <2> QED
    BY <2>1, <2>2, NoMoreWork
<1>3. CASE StepReconfiguring \/ Stopped \/ StopGivenUp
  BY <1>3, NoMoreWork DEF StepReconfiguring, Stopped, StopGivenUp
<1>4. CASE DetachListener \/ RequestStop \/ \E config \in Configs : RequestReconfigure(config)
  BY <1>4, NoMoreWork DEF DetachListener, RequestStop, RequestReconfigure, DropAll,
     CancelBackend, ClearActive
<1>5. CASE CancelActive \/ ReportIoFailure \/ OpenGivenUp \/ WaitingTimeout
  BY <1>5, RecoveryWork DEF CancelActive, ReportIoFailure, OpenGivenUp, WaitingTimeout
<1>6. ASSUME NEW e \in inflight, NEW status \in {"MALFORMED", "FAILED"}, WaitingFailure(e, status)
      PROVE  WorkInv'
  BY <1>6, RecoveryWork DEF WaitingFailure
<1>7. ASSUME NEW e \in inflight, WaitingResponse(e) PROVE WorkInv'
  BY <1>7, NoMoreWork DEF WaitingResponse, ClearActive
<1>8. CASE WaitingTransmitted
  BY <1>0, <1>8, NoMoreWork DEF WaitingTransmitted, Transaction
<1>9. CASE Tick
  BY <1>0, <1>9, Aged, NoMoreWork DEF Tick
<1>10. CASE StepActive
  <2>1. hasActive /\ active.gen = generation /\ UNCHANGED generation
    BY <1>10 DEF StepActive, LifeInv, LifecycleConsistent
  <2>2. CASE inflight' = inflight \cup {Handed(active)} /\ UNCHANGED <<active, hasActive>>
    BY <1>0, <2>1, <2>2 DEF WorkInv, Handed
  <2>3. CASE BeginRecovery(inflight)
    BY <2>1, <2>3, RecoveryWork
  <2> QED
    BY <1>10, <2>2, <2>3 DEF StepActive
<1>11. CASE StepReady
  <2>1. UNCHANGED inflight
    BY <1>11 DEF StepReady
  <2>2. CASE ClearActive /\ UNCHANGED generation
    BY <2>1, <2>2, NoMoreWork DEF ClearActive
  <2>3. CASE ~(ClearActive /\ UNCHANGED generation)
    <3>1. PICK k \in 0..Len(queue) :
              /\ k # Len(queue) /\ generation' = NextGeneration
              /\ active' = [queue[k + 1] EXCEPT !.gen = NextGeneration, !.left = ResponseTimeout]
      BY <1>11, <2>3 DEF StepReady
    <3>2. queue[k + 1] \in Transaction
      BY <3>1, QueueRest DEF LifeInv, TypeOK
    <3>3. active'.gen = generation + 1 /\ generation' = generation + 1
      BY <3>1, <3>2 DEF Transaction, NextGeneration
    <3>4. \A e \in inflight : e.gen \in Nat /\ e.gen <= generation
      BY <1>0 DEF WorkInv, Work
    <3>5. \A e \in inflight : e.gen <= generation + 1 /\ e.gen # generation + 1
      BY <1>0, <3>4
    <3> QED
      BY <2>1, <3>3, <3>5 DEF WorkInv
  <2> QED
    BY <2>2, <2>3
<1> QED
  BY <1>1, <1>2, <1>3, <1>4, <1>5, <1>6, <1>7, <1>8, <1>9, <1>10, <1>11 DEF Next, Call, Step,
     StepWaiting

\* A request is pending when it is queued or active.
LEMMA PendingMember ==
    \A i : i \in Pending <=> \/ \E j \in DOMAIN queue : queue[j].id = i
                             \/ hasActive /\ i = active.id
  BY DEF Pending, Queued

\* The same after a step.
LEMMA PendingMemberNext ==
    \A i : i \in Pending' <=> \/ \E j \in DOMAIN queue' : queue'[j].id = i
                              \/ hasActive' /\ i = active'.id
  BY DEF Pending, Queued

\* Answering some of the pending requests, and dropping exactly these, keeps the
\* balance.  `event` is the request of the backend's event behind the answer.
LEMMA NotifyBalance ==
    ASSUME LifeInv, ServiceInv,
           NEW S \in SUBSET Pending, NEW status \in FinalStatus, NEW event \in 0..MaxId,
           Notify(S, status, event),
           status \in {"COMPLETED", "MALFORMED"} => event # 0,
           event # 0 => S = {event},
           Pending' = Pending \ S, accepted' = accepted
    PROVE  NothingForgotten' /\ AnsweredOnce' /\ AnsweredByOwnEvent'
<1> DEFINE answer == [status |-> status, event |-> event]
<1>1. \A i \in Ids : answers[i] \in Seq(Answer)
  BY DEF LifeInv, TypeOK
<1>2. \A i \in Ids : i \in S => answers[i] = <<>>
  BY DEF ServiceInv, NothingForgotten
<1>3. \A i \in Ids : i \in S => answers'[i] = Append(answers[i], answer)
  BY DEF Notify
<1>4. \A i \in Ids : i \in S => answers'[i] = <<answer>>
  BY <1>2, <1>3
<1>5. \A i \in Ids : i \notin S => answers'[i] = answers[i]
  BY DEF Notify
<1> HIDE DEF answer
<1>6. NothingForgotten'
  <2> SUFFICES ASSUME NEW i \in Ids
               PROVE  answers'[i] = <<>> <=> i \notin accepted' \/ i \in Pending'
    BY DEF NothingForgotten
  <2>1. CASE i \in S
    <3>1. i \in accepted
      BY <2>1, PendingMember DEF ServiceInv, PendingInOrder
    <3>2. answers'[i] # <<>>
      <4>1. answers'[i] = <<answer>>
        BY <1>4, <2>1
      <4>2. <<answer>> # <<>>
        OBVIOUS
      <4> QED
        BY <4>1, <4>2
    <3> QED
      BY <2>1, <3>1, <3>2
  <2>2. CASE i \notin S
    BY <1>5, <2>2 DEF ServiceInv, NothingForgotten
  <2> QED
    BY <2>1, <2>2
<1>7. AnsweredOnce'
  <2> SUFFICES ASSUME NEW i \in Ids PROVE Len(answers'[i]) <= 1
    BY DEF AnsweredOnce
  <2>1. CASE i \in S
    <3>1. answers'[i] = <<answer>>
      BY <1>4, <2>1
    <3> QED
      BY <3>1
  <2>2. CASE i \notin S
    BY <1>5, <2>2 DEF ServiceInv, AnsweredOnce
  <2> QED
    BY <2>1, <2>2
<1>8. AnsweredByOwnEvent'
  <2> SUFFICES ASSUME NEW i \in Ids, NEW n \in DOMAIN answers'[i]
               PROVE  \/ answers'[i][n].event = i
                      \/ /\ answers'[i][n].event = 0
                         /\ answers'[i][n].status \notin {"COMPLETED", "MALFORMED"}
    BY DEF AnsweredByOwnEvent
  <2>1. CASE i \in S
    <3>1. answers'[i][n] = answer
      BY <1>4, <2>1
    <3>2. event # 0 => i = event
      BY <2>1
    <3> QED
      BY <3>1, <3>2 DEF answer
  <2>2. CASE i \notin S
    BY <1>5, <2>2 DEF ServiceInv, AnsweredByOwnEvent
  <2> QED
    BY <2>1, <2>2
<1> QED
  BY <1>6, <1>7, <1>8

\* A step that answers nobody and holds the same requests.
LEMMA QuietService ==
    ASSUME ServiceInv, UNCHANGED <<answers, clientVars>>,
           DOMAIN queue' = DOMAIN queue,
           \A j \in DOMAIN queue : queue'[j].id = queue[j].id,
           hasActive' <=> hasActive,
           hasActive => active'.id = active.id,
           QueueOnlyWhereServed'
    PROVE  ServiceInv'
<1>1. UNCHANGED <<accepted, nextId>>
  BY DEF clientVars
<1>2. PendingInOrder'
  BY <1>1 DEF ServiceInv, PendingInOrder
<1>3. \A i : i \in Pending' <=> i \in Pending
  BY PendingMember, PendingMemberNext
<1>4. NothingForgotten'
  BY <1>1, <1>3 DEF ServiceInv, NothingForgotten
<1>5. AnsweredOnce' /\ AnsweredByOwnEvent'
  BY DEF ServiceInv, AnsweredOnce, AnsweredByOwnEvent
<1>6. AcceptedAreOlder'
  BY <1>1 DEF ServiceInv, AcceptedAreOlder
<1> QED
  BY <1>2, <1>4, <1>5, <1>6 DEF ServiceInv

\* The active transaction is answered and cleared, the queue is kept.
LEMMA DropActiveService ==
    ASSUME LifeInv, ServiceInv, hasActive,
           NEW status \in FinalStatus, NEW event \in 0..MaxId,
           Notify({active.id}, status, event),
           status \in {"COMPLETED", "MALFORMED"} => event # 0,
           event # 0 => event = active.id,
           UNCHANGED <<queue, clientVars>>, ~hasActive',
           QueueOnlyWhereServed'
    PROVE  ServiceInv'
<1>1. UNCHANGED <<queue, accepted, nextId>>
  BY DEF clientVars
<1>2. PendingInOrder'
  BY <1>1 DEF ServiceInv, PendingInOrder
<1>3. Pending' = Pending \ {active.id}
  <2>1. \A j \in DOMAIN queue : queue[j].id # active.id
    <3>1. \A j \in DOMAIN queue : active.id < queue[j].id
      BY DEF ServiceInv, PendingInOrder
    <3>2. active.id \in Nat
      BY RuntimeAssumption DEF LifeInv, TypeOK, Transaction
    <3>3. \A j \in DOMAIN queue : queue[j].id \in Nat
      <4>1. \A j \in DOMAIN queue : queue[j] \in Transaction
        BY DEF LifeInv, TypeOK
      <4> QED
        BY <4>1, RuntimeAssumption DEF Transaction
    <3> QED
      BY <3>1, <3>2, <3>3
  <2>2. \A i : i \in Pending' <=> i \in Pending /\ i # active.id
    BY <1>1, <2>1, PendingMember, PendingMemberNext
  <2> QED
    BY <2>2
<1>4. {active.id} \in SUBSET Pending
  BY PendingMember
<1>5. NothingForgotten' /\ AnsweredOnce' /\ AnsweredByOwnEvent'
  BY <1>1, <1>3, <1>4, NotifyBalance
<1>6. AcceptedAreOlder'
  BY <1>1 DEF ServiceInv, AcceptedAreOlder
<1> QED
  BY <1>2, <1>5, <1>6 DEF ServiceInv

\* Every request is answered, none is held.
LEMMA DropAllService ==
    ASSUME LifeInv, ServiceInv, DropAll, UNCHANGED clientVars
    PROVE  ServiceInv'
<1>1. UNCHANGED <<accepted, nextId>> /\ queue' = <<>> /\ ~hasActive'
  BY DEF clientVars, DropAll, ClearActive
<1>2. DOMAIN queue' = {}
  BY <1>1
<1>3. PendingInOrder'
  BY <1>1, <1>2 DEF PendingInOrder
<1>4. Pending' = Pending \ Pending
  BY <1>1, <1>2, PendingMemberNext
<1>5. NothingForgotten' /\ AnsweredOnce' /\ AnsweredByOwnEvent'
  <2>1. Notify(Pending, "CANCELLED", 0) /\ "CANCELLED" \in FinalStatus /\ 0 \in 0..MaxId
    BY NoEvent DEF DropAll, FinalStatus
  <2> QED
    BY <1>1, <1>4, <2>1, NotifyBalance
<1>6. AcceptedAreOlder' /\ QueueOnlyWhereServed'
  BY <1>1 DEF ServiceInv, AcceptedAreOlder, QueueOnlyWhereServed
<1> QED
  BY <1>3, <1>5, <1>6 DEF ServiceInv

\* port_runtime_init: nobody accepted, nobody answered, nothing queued.
LEMMA ServiceInit == Init => ServiceInv
<1> SUFFICES ASSUME Init PROVE ServiceInv
  OBVIOUS
<1>1. queue = <<>> /\ ~hasActive /\ accepted = {} /\ \A i \in Ids : answers[i] = <<>>
  BY DEF Init
<1>2. PendingInOrder /\ AcceptedAreOlder /\ NothingForgotten /\ QueueOnlyWhereServed
  BY <1>1 DEF PendingInOrder, AcceptedAreOlder, NothingForgotten, QueueOnlyWhereServed
<1>3. AnsweredOnce /\ AnsweredByOwnEvent
  BY <1>1 DEF AnsweredOnce, AnsweredByOwnEvent
<1> QED
  BY <1>2, <1>3 DEF ServiceInv

\* A request that is queued is the newest of all.
LEMMA SubmitService ==
    ASSUME LifeInv, ServiceInv, NEW length \in Lengths, Submit(length)
    PROVE  ServiceInv'
<1>1. nextId \in Ids /\ nextId' = nextId + 1
  BY RuntimeAssumption DEF Submit, LifeInv, TypeOK, Ids
<1>2. UNCHANGED <<state, active, hasActive, answers>>
  BY DEF Submit, activeVars
<1>3. QueueOnlyWhereServed'
  BY DEF Submit, activeVars, QueueOnlyWhereServed
<1>a. accepted \subseteq Nat /\ nextId \in Nat
  BY <1>1 DEF LifeInv, TypeOK, Ids
<1>b. \A j \in DOMAIN queue : queue[j].id \in accepted /\ queue[j].id < nextId
  BY DEF ServiceInv, PendingInOrder
<1>c. \A j \in DOMAIN queue : queue[j].id \in Nat
  BY <1>a, <1>b
<1>d. hasActive => /\ active.id \in accepted /\ active.id < nextId /\ active.id \in Nat
                   /\ \A j \in DOMAIN queue : active.id < queue[j].id
  BY <1>a DEF ServiceInv, PendingInOrder
<1>e. \A i \in Nat : i < nextId => i < nextId'
  BY <1>1, <1>a
<1>4. CASE ~TotalFits(length)
  <2>1. UNCHANGED <<queue, accepted>>
    BY <1>4 DEF Submit, queueVars
  <2>2. PendingInOrder'
    <3>1. \A j \in DOMAIN queue : queue[j].id < nextId'
      BY <1>b, <1>c, <1>e
    <3>2. hasActive => active.id < nextId'
      BY <1>d, <1>e
    <3> QED
      BY <1>2, <1>b, <1>d, <2>1, <3>1, <3>2 DEF ServiceInv, PendingInOrder
  <2>3. AcceptedAreOlder'
    BY <1>1, <2>1 DEF ServiceInv, AcceptedAreOlder, LifeInv, TypeOK, Ids
  <2>4. \A i : i \in Pending' <=> i \in Pending
    BY <1>2, <2>1, PendingMember, PendingMemberNext
  <2>5. NothingForgotten'
    BY <1>2, <2>1, <2>4 DEF ServiceInv, NothingForgotten
  <2>6. AnsweredOnce' /\ AnsweredByOwnEvent'
    BY <1>2 DEF ServiceInv, AnsweredOnce, AnsweredByOwnEvent
  <2> QED
    BY <1>3, <2>2, <2>3, <2>5, <2>6 DEF ServiceInv
<1>5. CASE TotalFits(length)
  <2> DEFINE t == [id |-> nextId, length |-> length, left |-> QueueTimeout, gen |-> 0, sent |-> FALSE]
  <2>1. queue' = Append(queue, t) /\ accepted' = accepted \cup {nextId} /\ t.id = nextId
    BY <1>5 DEF Submit, Pushed
  <2>2. t \in Transaction
    BY <1>1, RuntimeAssumption DEF Transaction, Ids
  <2> HIDE DEF t
  <2>3. /\ Len(queue) \in Nat
        /\ Len(queue') = Len(queue) + 1
        /\ DOMAIN queue' = 1..(Len(queue) + 1)
        /\ \A j \in 1..Len(queue) : queue'[j] = queue[j]
        /\ queue'[Len(queue) + 1] = t
    BY <2>1, <2>2 DEF LifeInv, TypeOK
  <2>4. \A j \in 1..Len(queue) : queue[j].id \in Nat /\ queue[j].id < nextId /\ queue[j].id \in accepted
    <3>1. \A j \in 1..Len(queue) : j \in DOMAIN queue
      BY DEF LifeInv, TypeOK
    <3> QED
      BY <1>b, <1>c, <3>1
  <2>5. \A j, k \in 1..Len(queue) : j < k => queue[j].id < queue[k].id
    <3>1. \A j \in 1..Len(queue) : j \in DOMAIN queue
      BY DEF LifeInv, TypeOK
    <3> QED
      BY <3>1 DEF ServiceInv, PendingInOrder
  <2>6. PendingInOrder'
    <3>1. \A j, k \in DOMAIN queue' : j < k => queue'[j].id < queue'[k].id
      <4> SUFFICES ASSUME NEW j \in DOMAIN queue', NEW k \in DOMAIN queue', j < k
                   PROVE  queue'[j].id < queue'[k].id
        OBVIOUS
      <4>1. j \in 1..Len(queue)
        BY <2>3
      <4>2. CASE k \in 1..Len(queue)
        BY <2>3, <2>5, <4>1, <4>2
      <4>3. CASE k = Len(queue) + 1
        BY <2>1, <2>3, <2>4, <4>1, <4>3
      <4> QED
        BY <2>3, <4>2, <4>3
    <3>2. \A j \in DOMAIN queue' : queue'[j].id \in accepted' /\ queue'[j].id < nextId'
      <4> SUFFICES ASSUME NEW j \in DOMAIN queue'
                   PROVE  queue'[j].id \in accepted' /\ queue'[j].id < nextId'
        OBVIOUS
      <4>0. nextId \in Nat
        BY <1>1 DEF Ids
      <4>1. CASE j \in 1..Len(queue)
        BY <1>1, <2>1, <2>3, <2>4, <4>0, <4>1
      <4>2. CASE j = Len(queue) + 1
        BY <1>1, <2>1, <2>3, <4>0, <4>2
      <4> QED
        BY <2>3, <4>1, <4>2
    <3>3. ASSUME hasActive'
          PROVE  /\ active'.id \in accepted' /\ active'.id < nextId'
                 /\ \A j \in DOMAIN queue' : active'.id < queue'[j].id
      <4>1. /\ active.id \in accepted /\ active.id < nextId
            /\ \A j \in DOMAIN queue : active.id < queue[j].id
        BY <1>2, <1>d, <3>3
      <4>2. active.id < nextId'
        BY <1>2, <1>d, <1>e, <3>3
      <4>3. \A j \in 1..Len(queue) : active.id < queue[j].id
        BY <4>1 DEF LifeInv, TypeOK
      <4>4. \A j \in DOMAIN queue' : active.id < queue'[j].id
        <5> TAKE j \in DOMAIN queue'
        <5>1. CASE j \in 1..Len(queue)
          BY <2>3, <4>3, <5>1
        <5>2. CASE j = Len(queue) + 1
          BY <2>1, <2>3, <4>1, <5>2
        <5> QED
          BY <2>3, <5>1, <5>2
      <4> QED
        BY <1>1, <1>2, <2>1, <4>1, <4>2, <4>4
    <3> QED
      BY <3>1, <3>2, <3>3 DEF PendingInOrder
  <2>7. AcceptedAreOlder'
    BY <1>1, <2>1 DEF ServiceInv, AcceptedAreOlder, LifeInv, TypeOK, Ids
  <2>8. \A i : i \in Pending' <=> i \in Pending \/ i = nextId
    <3>1. \A i : (\E j \in DOMAIN queue' : queue'[j].id = i)
                  <=> (\E j \in DOMAIN queue : queue[j].id = i) \/ i = nextId
      <4>1. \A j : j \in DOMAIN queue <=> j \in 1..Len(queue)
        BY DEF LifeInv, TypeOK
      <4>2. \A j : j \in DOMAIN queue' <=> j \in 1..Len(queue) \/ j = Len(queue) + 1
        BY <2>3
      <4>3. queue'[Len(queue) + 1].id = nextId
        BY <2>1, <2>3
      <4>4. \A j \in 1..Len(queue) : queue'[j] = queue[j]
        BY <2>3
      <4> QED
        BY <4>1, <4>2, <4>3, <4>4
    <3> QED
      BY <1>2, <3>1, PendingMember, PendingMemberNext
  <2>9. NothingForgotten'
    <3>1. nextId \notin accepted
      BY <1>1 DEF ServiceInv, AcceptedAreOlder, Ids
    <3>2. answers[nextId] = <<>>
      BY <1>1, <3>1 DEF ServiceInv, NothingForgotten
    <3> QED
      BY <1>2, <2>1, <2>8, <3>2 DEF ServiceInv, NothingForgotten
  <2>10. AnsweredOnce' /\ AnsweredByOwnEvent'
    BY <1>2 DEF ServiceInv, AnsweredOnce, AnsweredByOwnEvent
  <2> QED
    BY <1>3, <2>6, <2>7, <2>9, <2>10 DEF ServiceInv
<1> QED
  BY <1>4, <1>5

\* The requests of the READY port that waited too long are a prefix of its queue.
LEMMA ReadyService ==
    ASSUME LifeInv, ServiceInv, StepReady
    PROVE  ServiceInv'
<1>0. ~hasActive /\ UNCHANGED <<accepted, nextId>>
  BY DEF StepReady, LifeInv, LifecycleConsistent, clientVars
<1>1. PICK k \in 0..Len(queue) :
        /\ Notify({queue[j].id : j \in 1..k}, "TIMED_OUT", 0)
        /\ IF k = Len(queue)
           THEN /\ queue' = <<>> /\ bytes' = bytes - TotalLength(queue)
                /\ ClearActive
                /\ UNCHANGED <<state, refused, generation>>
           ELSE /\ queue' = SubSeq(queue, k + 2, Len(queue))
                /\ bytes' = bytes - TotalLength(SubSeq(queue, 1, k + 1))
                /\ hasActive' = TRUE
                /\ generation' = NextGeneration
                /\ active' = [queue[k + 1] EXCEPT !.gen = NextGeneration,
                                                  !.left = ResponseTimeout]
                /\ Goto("ACTIVE")
  BY DEF StepReady
<1> DEFINE S == {queue[j].id : j \in 1..k}
<1>2. queue \in Seq(Transaction) /\ Len(queue) \in Nat /\ k \in Nat
  BY DEF LifeInv, TypeOK
<1>d. \A j : j \in DOMAIN queue <=> j \in 1..Len(queue)
  BY <1>2
<1>3. \A j \in 1..Len(queue) : /\ queue[j].id \in accepted /\ queue[j].id < nextId
                               /\ queue[j].id \in Nat
  <2>1. \A j \in 1..Len(queue) : queue[j] \in Transaction
    BY <1>2
  <2> QED
    BY <1>d, <2>1, RuntimeAssumption DEF ServiceInv, PendingInOrder, Transaction
<1>4. \A j, m \in 1..Len(queue) : j < m => queue[j].id < queue[m].id
  BY <1>d DEF ServiceInv, PendingInOrder
<1>5. S \in SUBSET Pending
  <2>1. \A j \in 1..k : j \in 1..Len(queue)
    BY <1>2
  <2> QED
    BY <1>d, <2>1, PendingMember
<1>6. Notify(S, "TIMED_OUT", 0) /\ "TIMED_OUT" \in FinalStatus /\ 0 \in 0..MaxId
  BY <1>1, NoEvent DEF FinalStatus
<1>7. AcceptedAreOlder'
  BY <1>0 DEF ServiceInv, AcceptedAreOlder
<1>8. CASE k = Len(queue)
  <2>1. queue' = <<>> /\ ~hasActive'
    BY <1>1, <1>8 DEF ClearActive
  <2>2. DOMAIN queue' = {}
    BY <2>1
  <2>3. Pending' = Pending \ S
    <3>1. \A i : i \in Pending => i \in S
      BY <1>0, <1>8, <1>d, PendingMember
    <3>2. \A i : i \notin Pending'
      BY <2>1, <2>2, PendingMemberNext
    <3> QED
      BY <3>1, <3>2
  <2>4. NothingForgotten' /\ AnsweredOnce' /\ AnsweredByOwnEvent'
    BY <1>0, <1>5, <1>6, <2>3, NotifyBalance
  <2>5. PendingInOrder' /\ QueueOnlyWhereServed'
    BY <2>1, <2>2 DEF PendingInOrder, QueueOnlyWhereServed
  <2> QED
    BY <1>7, <2>4, <2>5 DEF ServiceInv
<1>9. CASE k # Len(queue)
  <2>1. /\ queue' = SubSeq(queue, k + 2, Len(queue))
        /\ hasActive'
        /\ active' = [queue[k + 1] EXCEPT !.gen = NextGeneration, !.left = ResponseTimeout]
        /\ Goto("ACTIVE")
    BY <1>1, <1>9
  <2>2. /\ k + 1 \in 1..Len(queue) /\ queue[k + 1] \in Transaction
        /\ queue' \in Seq(Transaction)
        /\ Len(queue') = Len(queue) - (k + 1)
        /\ \A j \in 1..(Len(queue) - (k + 1)) : queue'[j] = queue[k + 1 + j]
    BY <1>2, <1>9, <2>1, QueueRest
  <2>3. active'.id = queue[k + 1].id
    BY <2>1, <2>2 DEF Transaction
  <2>4. \A j : j \in DOMAIN queue' <=> j \in 1..(Len(queue) - (k + 1))
    BY <2>2
  <2>5. \A j \in 1..(Len(queue) - (k + 1)) :
           k + 1 + j \in 1..Len(queue) /\ k + 1 < k + 1 + j /\ j \in Nat
    BY <1>2, <2>2
  <2>6. PendingInOrder'
    <3>1. \A j, m \in DOMAIN queue' : j < m => queue'[j].id < queue'[m].id
      <4> SUFFICES ASSUME NEW j \in DOMAIN queue', NEW m \in DOMAIN queue', j < m
                   PROVE  queue'[j].id < queue'[m].id
        OBVIOUS
      <4>1. /\ k + 1 + j \in 1..Len(queue) /\ k + 1 + m \in 1..Len(queue)
            /\ k + 1 + j < k + 1 + m
        BY <1>2, <2>4, <2>5
      <4>2. queue[k + 1 + j].id < queue[k + 1 + m].id
        BY <1>4, <4>1
      <4>3. queue'[j] = queue[k + 1 + j] /\ queue'[m] = queue[k + 1 + m]
        BY <2>2, <2>4
      <4> QED
        BY <4>2, <4>3
    <3>2. \A j \in DOMAIN queue' : queue'[j].id \in accepted' /\ queue'[j].id < nextId'
      BY <1>0, <1>3, <2>2, <2>4, <2>5
    <3>3. active'.id \in accepted' /\ active'.id < nextId'
      BY <1>0, <1>3, <2>2, <2>3
    <3>4. \A j \in DOMAIN queue' : active'.id < queue'[j].id
      BY <1>4, <2>2, <2>3, <2>4, <2>5
    <3> QED
      BY <3>1, <3>2, <3>3, <3>4 DEF PendingInOrder
  <2>7. Pending' = Pending \ S
    <3>1. ASSUME NEW i \in Pending' PROVE i \in Pending /\ i \notin S
      <4>1. PICK m \in (k + 1)..Len(queue) : queue[m].id = i
        <5>1. CASE i = active'.id
          BY <1>2, <2>2, <2>3, <5>1
        <5>2. CASE \E j \in DOMAIN queue' : queue'[j].id = i
          <6>1. PICK j \in 1..(Len(queue) - (k + 1)) : queue'[j].id = i
            BY <2>4, <5>2
          <6>2. k + 1 + j \in (k + 1)..Len(queue) /\ queue[k + 1 + j].id = i
            BY <1>2, <2>2, <2>5, <6>1
          <6> QED
            BY <6>2
        <5> QED
          BY <3>1, <5>1, <5>2, PendingMemberNext
      <4>2. m \in 1..Len(queue)
        BY <1>2
      <4>3. i \in Pending
        BY <1>d, <4>1, <4>2, PendingMember
      <4>4. \A j \in 1..k : queue[j].id # i
        <5> TAKE j \in 1..k
        <5>1. j \in 1..Len(queue) /\ j < m
          BY <1>2
        <5>2. queue[j].id < queue[m].id
          BY <1>4, <4>2, <5>1
        <5> QED
          BY <1>3, <4>1, <4>2, <5>1, <5>2
      <4> QED
        BY <4>3, <4>4
    <3>2. ASSUME NEW i \in Pending, i \notin S PROVE i \in Pending'
      <4>1. PICK m \in 1..Len(queue) : queue[m].id = i
        BY <1>0, <1>d, <3>2, PendingMember
      <4>2. m \in Nat /\ m > k
        BY <1>2, <3>2, <4>1
      <4>3. CASE m = k + 1
        BY <2>1, <2>3, <4>1, <4>3, PendingMemberNext
      <4>4. CASE m # k + 1
        <5>1. m - (k + 1) \in 1..(Len(queue) - (k + 1)) /\ k + 1 + (m - (k + 1)) = m
          BY <1>2, <4>2, <4>4
        <5>2. queue'[m - (k + 1)].id = i /\ m - (k + 1) \in DOMAIN queue'
          BY <2>2, <2>4, <4>1, <5>1
        <5> QED
          BY <5>2, PendingMemberNext
      <4> QED
        BY <4>3, <4>4
    <3> QED
      BY <3>1, <3>2
  <2>8. NothingForgotten' /\ AnsweredOnce' /\ AnsweredByOwnEvent'
    BY <1>0, <1>5, <1>6, <2>7, NotifyBalance
  <2>9. QueueOnlyWhereServed'
    BY <2>1 DEF StepReady, Goto, Allowed, QueueOnlyWhereServed
  <2> QED
    BY <1>7, <2>6, <2>8, <2>9 DEF ServiceInv
<1> QED
  BY <1>8, <1>9

\* Every call, step and tick of the port preserves what it owes its listeners.
LEMMA ServiceStep == LifeInv /\ WorkInv /\ ServiceInv /\ [Next]_vars => ServiceInv'
<1> SUFFICES ASSUME LifeInv, WorkInv, ServiceInv, [Next]_vars PROVE ServiceInv'
  OBVIOUS
<1> USE DEF queueVars, activeVars
<1>0. CASE UNCHANGED vars
  <2>1. QueueOnlyWhereServed'
    BY <1>0 DEF vars, ServiceInv, QueueOnlyWhereServed
  <2> QED
    BY <1>0, <2>1, QuietService DEF vars
<1>1. CASE Start
  <2>q. QueueOnlyWhereServed'
    BY <1>1 DEF Start, ServiceInv, QueueOnlyWhereServed, Goto, Allowed
  <2> QED
    BY <1>1, <2>q, QuietService DEF Start
<1>2. CASE Opened
  <2>q. QueueOnlyWhereServed'
    BY <1>2 DEF Opened, ServiceInv, QueueOnlyWhereServed, Goto, Allowed
  <2> QED
    BY <1>2, <2>q, QuietService DEF Opened
<1>3. CASE WaitingStale
  <2>q. QueueOnlyWhereServed'
    BY <1>3 DEF WaitingStale, ServiceInv, QueueOnlyWhereServed, Goto, Allowed
  <2> QED
    BY <1>3, <2>q, QuietService DEF WaitingStale
<1>4. CASE RecoverDelayed
  <2>q. QueueOnlyWhereServed'
    BY <1>4 DEF RecoverDelayed, ServiceInv, QueueOnlyWhereServed, Goto, Allowed
  <2> QED
    BY <1>4, <2>q, QuietService DEF RecoverDelayed
<1>5. CASE Recovered
  <2>q. QueueOnlyWhereServed'
    BY <1>5 DEF Recovered, ServiceInv, QueueOnlyWhereServed, Goto, Allowed
  <2> QED
    BY <1>5, <2>q, QuietService DEF Recovered
<1>6. CASE StepReconfiguring
  <2>q. QueueOnlyWhereServed'
    BY <1>6 DEF StepReconfiguring, ServiceInv, QueueOnlyWhereServed, Goto, Allowed
  <2> QED
    BY <1>6, <2>q, QuietService DEF StepReconfiguring
<1>7. CASE Stopped
  <2>q. QueueOnlyWhereServed'
    BY <1>7 DEF Stopped, ServiceInv, QueueOnlyWhereServed, Goto, Allowed
  <2> QED
    BY <1>7, <2>q, QuietService DEF Stopped
<1>8. CASE StopGivenUp
  <2>q. QueueOnlyWhereServed'
    BY <1>8 DEF StopGivenUp, ServiceInv, QueueOnlyWhereServed, Goto, Allowed
  <2> QED
    BY <1>8, <2>q, QuietService DEF StopGivenUp
<1>9. CASE RecoverFailed
  <2>q. QueueOnlyWhereServed'
    BY <1>9 DEF RecoverFailed, ServiceInv, QueueOnlyWhereServed, Goto, Allowed
  <2> QED
    BY <1>9, <2>q, QuietService DEF RecoverFailed
<1>10. CASE ReportIoFailure \/ OpenGivenUp
  <2>1. ~hasActive
    BY <1>10 DEF ReportIoFailure, OpenGivenUp, LifeInv, LifecycleConsistent
  <2>2. ~hasActive' /\ UNCHANGED <<queue, answers, clientVars>>
    BY <1>10 DEF ReportIoFailure, OpenGivenUp, BeginRecovery, ClearActive
  <2>q. QueueOnlyWhereServed'
    BY <1>10, <2>2 DEF ReportIoFailure, OpenGivenUp, BeginRecovery, EnterRecovery,
                       ServiceInv, QueueOnlyWhereServed, Goto, Allowed
  <2> QED
    BY <2>1, <2>2, <2>q, QuietService
<1>11. CASE WaitingTransmitted
  <2>1. active'.id = active.id
    BY <1>11 DEF WaitingTransmitted, LifeInv, TypeOK, Transaction
  <2>q. QueueOnlyWhereServed'
    BY <1>11 DEF WaitingTransmitted, ServiceInv, QueueOnlyWhereServed
  <2> QED
    BY <1>11, <2>1, <2>q, QuietService DEF WaitingTransmitted
<1>12. CASE Tick
  <2>1. active'.id = active.id
    BY <1>12, Aged DEF Tick, LifeInv, TypeOK
  <2>2. DOMAIN queue' = DOMAIN queue
    BY <1>12 DEF Tick
  <2>3. \A j \in DOMAIN queue : queue'[j].id = queue[j].id
    <3>1. \A j \in DOMAIN queue : queue[j] \in Transaction
      BY DEF LifeInv, TypeOK
    <3>2. \A j \in DOMAIN queue : queue'[j] = [queue[j] EXCEPT !.left = Less(@)]
      BY <1>12 DEF Tick
    <3> QED
      BY <3>1, <3>2, Aged
  <2>4. queue # <<>> \/ queue' = <<>>
    BY <2>2 DEF LifeInv, TypeOK
  <2>5. UNCHANGED <<state, hasActive, answers, clientVars>>
    BY <1>12 DEF Tick
  <2>q. QueueOnlyWhereServed'
    BY <2>4, <2>5 DEF ServiceInv, QueueOnlyWhereServed
  <2> QED
    BY <2>1, <2>2, <2>3, <2>5, <2>q, QuietService
<1>13. CASE CancelActive
  <2>1. Notify({active.id}, "CANCELLED", 0) /\ "CANCELLED" \in FinalStatus /\ 0 \in 0..MaxId
    BY <1>13, NoEvent DEF CancelActive, FinalStatus
  <2>2. hasActive /\ ~hasActive' /\ UNCHANGED <<queue, clientVars>>
    BY <1>13 DEF CancelActive, BeginRecovery, ClearActive
  <2>q. QueueOnlyWhereServed'
    BY <1>13, <2>2 DEF CancelActive, BeginRecovery, EnterRecovery, Goto, ServiceInv,
       QueueOnlyWhereServed
  <2> QED
    BY <2>1, <2>2, <2>q, DropActiveService
<1>14. CASE WaitingTimeout
  <2>1. Notify({active.id}, "TIMED_OUT", 0) /\ "TIMED_OUT" \in FinalStatus /\ 0 \in 0..MaxId
    BY <1>14, NoEvent DEF WaitingTimeout, FinalStatus
  <2>2. hasActive /\ ~hasActive' /\ UNCHANGED <<queue, clientVars>>
    BY <1>14 DEF WaitingTimeout, BeginRecovery, ClearActive, LifeInv, LifecycleConsistent
  <2>q. QueueOnlyWhereServed'
    BY <1>14, <2>2 DEF WaitingTimeout, BeginRecovery, EnterRecovery, Goto, ServiceInv,
       QueueOnlyWhereServed
  <2> QED
    BY <2>1, <2>2, <2>q, DropActiveService
<1>15. ASSUME NEW e \in inflight, NEW status \in {"MALFORMED", "FAILED"}, WaitingFailure(e, status)
       PROVE  ServiceInv'
  <2>1. Notify({active.id}, status, e.id) /\ status \in FinalStatus
    BY <1>15 DEF WaitingFailure, FinalStatus
  <2>2. hasActive /\ ~hasActive' /\ UNCHANGED <<queue, clientVars>>
    BY <1>15 DEF WaitingFailure, BeginRecovery, ClearActive, LifeInv, LifecycleConsistent
  <2>3. e.id \in 0..MaxId /\ e.id # 0 /\ e.id = active.id
    <3>1. e.id = active.id /\ e \in Work
      BY <1>15, <2>2 DEF WaitingFailure, OwnEvent, WorkInv, LifeInv, TypeOK
    <3>2. active.id \in Ids
      BY <2>2 DEF ServiceInv, PendingInOrder, LifeInv, TypeOK
    <3> QED
      BY <3>1, <3>2 DEF Work, Ids
  <2>q. QueueOnlyWhereServed'
    BY <1>15, <2>2 DEF WaitingFailure, BeginRecovery, EnterRecovery, Goto, ServiceInv,
       QueueOnlyWhereServed
  <2> QED
    BY <2>1, <2>2, <2>3, <2>q, DropActiveService
<1>16. ASSUME NEW e \in inflight, WaitingResponse(e)
       PROVE  ServiceInv'
  <2>1. Notify({active.id}, "COMPLETED", e.id) /\ "COMPLETED" \in FinalStatus
    BY <1>16 DEF WaitingResponse, FinalStatus
  <2>2. hasActive /\ ~hasActive' /\ UNCHANGED <<queue, clientVars>>
    BY <1>16 DEF WaitingResponse, ClearActive, LifeInv, LifecycleConsistent
  <2>3. e.id \in 0..MaxId /\ e.id # 0 /\ e.id = active.id
    <3>1. e.id = active.id /\ e \in Work
      BY <1>16, <2>2 DEF WaitingResponse, OwnEvent, WorkInv, LifeInv, TypeOK
    <3>2. active.id \in Ids
      BY <2>2 DEF ServiceInv, PendingInOrder, LifeInv, TypeOK
    <3> QED
      BY <3>1, <3>2 DEF Work, Ids
  <2>q. QueueOnlyWhereServed'
    BY <1>16, <2>2 DEF WaitingResponse, Goto, ServiceInv, QueueOnlyWhereServed
  <2> QED
    BY <2>1, <2>2, <2>3, <2>q, DropActiveService
<1>17. CASE StepActive
  <2>1. hasActive
    BY <1>17 DEF StepActive, LifeInv, LifecycleConsistent
  <2>2. CASE Goto("WAITING") /\ UNCHANGED <<active, hasActive, stateLeft, attempts, answers>>
    <3>q. QueueOnlyWhereServed'
      BY <1>17, <2>2 DEF StepActive, ServiceInv, QueueOnlyWhereServed, Goto, Allowed
    <3> QED
      BY <1>17, <2>2, <3>q, QuietService DEF StepActive
  <2>3. CASE Notify({active.id}, "FAILED", 0) /\ BeginRecovery(inflight)
    <3>1. ~hasActive' /\ UNCHANGED <<queue, clientVars>> /\ "FAILED" \in FinalStatus /\ 0 \in 0..MaxId
      BY <1>17, <2>3, NoEvent DEF StepActive, BeginRecovery, ClearActive, FinalStatus
    <3>q. QueueOnlyWhereServed'
      BY <1>17, <2>3, <3>1 DEF StepActive, BeginRecovery, EnterRecovery, Goto, ServiceInv,
         QueueOnlyWhereServed
    <3> QED
      BY <2>1, <2>3, <3>1, <3>q, DropActiveService
  <2> QED
    BY <1>17, <2>2, <2>3 DEF StepActive
<1>18. CASE DetachListener
  BY <1>18, DropAllService DEF DetachListener
<1>19. ASSUME NEW config \in Configs, RequestReconfigure(config) PROVE ServiceInv'
  BY <1>19, DropAllService DEF RequestReconfigure
<1>20. CASE RequestStop
  BY <1>20, DropAllService DEF RequestStop
<1>21. ASSUME NEW length \in Lengths, Submit(length) PROVE ServiceInv'
  BY <1>21, SubmitService
<1>22. CASE StepReady
  BY <1>22, ReadyService
<1> QED
  BY <1>0, <1>1, <1>2, <1>3, <1>4, <1>5, <1>6, <1>7, <1>8, <1>9, <1>10, <1>11, <1>12, <1>13,
     <1>14, <1>15, <1>16, <1>17, <1>18, <1>19, <1>20, <1>21, <1>22 DEF Next, Call, Step, StepWaiting

Inv == LifeInv /\ WorkInv /\ ServiceInv

\* The inductive invariant holds for every port: its life cycle and its requests.
THEOREM Invariance == Spec => []Inv
<1>1. Init => Inv
  BY LifeInit, ServiceInit DEF Inv, Init, WorkInv
<1>2. Inv /\ [Next]_vars => Inv'
  BY LifeStep, WorkStep, ServiceStep DEF Inv
<1> QED
  BY <1>1, <1>2, PTL DEF Spec

\* No completion callback is called twice for one request.
THEOREM ExactlyOnce == Spec => []AnsweredOnce
  BY Invariance, PTL DEF Inv, ServiceInv

\* No path of the runtime clears or flushes a request without telling its owner.
THEOREM NobodyForgotten == Spec => []NothingForgotten
  BY Invariance, PTL DEF Inv, ServiceInv

\* Every accepted request is answered once, when the port lets go of it.
THEOREM EachAnsweredOnce == Spec => []AnsweredExactlyOnce
  BY ExactlyOnce, NobodyForgotten, PTL DEF AnsweredExactlyOnce

\* A late event never completes a newer transaction: what completes a request, or
\* finds its response malformed, is what the backend did for that request.
THEOREM LateEventsHarmless == Spec => []AnsweredByOwnEvent
  BY Invariance, PTL DEF Inv, ServiceInv

\* Requests are served in the order they were accepted.
THEOREM OldestFirst == Spec => []PendingInOrder
  BY Invariance, PTL DEF Inv, ServiceInv

\* The queue is empty in every state that does not serve it.
THEOREM QueueServed == Spec => []QueueOnlyWhereServed
  BY Invariance, PTL DEF Inv, ServiceInv

-----------------------------------------------------------------------------
(* The bytes of the queue: the sum TotalLength computes, and what each change   *)
(* of the queue does to it.  That a set of numbers has a least element stands   *)
(* in for induction over the length of a queue.                                 *)

\* A set of numbers that is not empty has a least element.
LEMMA LeastNumber ==
    ASSUME NEW S, S \subseteq Nat, S # {}
    PROVE  \E m \in S : \A n \in S : m <= n
<1> DEFINE Below == {ss \in Nat \X Nat : ss[1] < ss[2]}
<1>1. IsWellFoundedOn(Below, Nat)
  BY NatLessThanWellFounded, Zenon DEF OpToRel
<1>2. PICK m \in S : \A n \in S : <<n, m>> \notin Below
  <2> HIDE DEF Below
  <2> QED
    BY <1>1, WFMin
<1>3. \A n \in S : ~(n < m)
  BY <1>2
<1> QED
  BY <1>3

\* f sums up the lengths of the first n entries of s.
Sums(s, n, f) == f = [m \in 0..n |-> IF m = 0 THEN 0 ELSE f[m - 1] + s[m].length]

\* The lengths of the entries of a queue are numbers.
LEMMA LengthsAreNumbers ==
    ASSUME NEW s \in Seq(Transaction)
    PROVE  /\ Len(s) \in Nat
           /\ \A m \in 1..Len(s) : s[m].length \in Nat
<1>1. \A m \in 1..Len(s) : s[m] \in Transaction
  OBVIOUS
<1> QED
  BY SMTT(60), <1>1 DEF Transaction

\* A sum goes on from its first term.
LEMMA SumSteps ==
    ASSUME NEW s, NEW n \in Nat, NEW f, Sums(s, n, f)
    PROVE  /\ DOMAIN f = 0..n
           /\ f[0] = 0
           /\ \A m \in 1..n : f[m] = f[m - 1] + s[m].length
<1> DEFINE g == [m \in 0..n |-> IF m = 0 THEN 0 ELSE f[m - 1] + s[m].length]
<1>1. f = g
  BY DEF Sums
<1>2. DOMAIN g = 0..n
  OBVIOUS
<1>3. \A m \in 0..n : g[m] = IF m = 0 THEN 0 ELSE f[m - 1] + s[m].length
  OBVIOUS
<1> HIDE DEF g
<1>4. \A m \in 0..n : f[m] = IF m = 0 THEN 0 ELSE f[m - 1] + s[m].length
  BY <1>1, <1>3
<1> QED
  BY <1>1, <1>2, <1>4

\* The sums of the first n entries exist, whatever the queue.
LEMMA SumsExist ==
    ASSUME NEW s
    PROVE  \A n \in Nat : \E f : Sums(s, n, f)
<1> DEFINE Bad == {n \in Nat : ~ \E f : Sums(s, n, f)}
<1> SUFFICES ASSUME Bad # {} PROVE FALSE
  OBVIOUS
<1>1. PICK n \in Bad : \A m \in Bad : n <= m
  BY LeastNumber
<1>2. n \in Nat /\ ~ \E f : Sums(s, n, f)
  OBVIOUS
<1>3. CASE n = 0
  <2> DEFINE f == [m \in 0..0 |-> 0]
  <2>1. f = [m \in 0..0 |-> IF m = 0 THEN 0 ELSE f[m - 1] + s[m].length]
    OBVIOUS
  <2>2. Sums(s, 0, f)
    BY <2>1, Zenon DEF Sums
  <2> QED
    BY <1>2, <1>3, <2>2
<1>4. CASE n # 0
  <2>1. n - 1 \in Nat /\ n - 1 \notin Bad
    BY <1>1, <1>2, <1>4
  <2>2. PICK g : Sums(s, n - 1, g)
    BY <2>1
  <2>3. \A m \in 0..(n - 1) : g[m] = IF m = 0 THEN 0 ELSE g[m - 1] + s[m].length
    <3>1. g[0] = 0 /\ \A m \in 1..(n - 1) : g[m] = g[m - 1] + s[m].length
      BY ONLY <2>1, <2>2, SumSteps, Zenon
    <3>2. \A m \in 0..(n - 1) : m = 0 \/ (m # 0 /\ m \in 1..(n - 1))
      BY <2>1
    <3> QED
      BY ONLY <3>1, <3>2
  <2> DEFINE f == [m \in 0..n |-> IF m = n THEN g[n - 1] + s[n].length ELSE g[m]]
  <2>4. \A m \in 0..n : f[m] = IF m = 0 THEN 0 ELSE f[m - 1] + s[m].length
    <3> TAKE m \in 0..n
    <3>1. CASE m = n
      <4>1. f[m] = g[n - 1] + s[n].length /\ m - 1 \in 0..n /\ m - 1 # n
        BY <1>2, <1>4, <3>1
      <4>2. f[m - 1] = g[n - 1]
        BY <3>1, <4>1
      <4> QED
        BY <1>4, <3>1, <4>1, <4>2
    <3>2. CASE m # n
      <4>1. m \in 0..(n - 1)
        BY <1>2, <3>2
      <4>2. f[m] = g[m]
        BY <3>2
      <4>3. CASE m = 0
        BY <2>3, <4>1, <4>2, <4>3
      <4>4. CASE m # 0
        <5>1. m - 1 \in 0..n /\ m - 1 # n
          BY <1>2, <4>1, <4>4
        <5>2. f[m - 1] = g[m - 1]
          BY <5>1
        <5> QED
          BY <2>3, <4>1, <4>2, <4>4, <5>2
      <4> QED
        BY <4>3, <4>4
    <3> QED
      BY <3>1, <3>2
  <2>5. f = [m \in 0..n |-> f[m]]
    OBVIOUS
  <2> HIDE DEF f
  <2>6. f = [m \in 0..n |-> IF m = 0 THEN 0 ELSE f[m - 1] + s[m].length]
    BY <2>4, <2>5
  <2>7. Sums(s, n, f)
    BY <2>6, Zenon DEF Sums
  <2> QED
    BY <1>2, <2>7
<1> QED
  BY <1>3, <1>4

\* Two sums over entries of the same lengths agree, and are numbers.
LEMMA SumsAgree ==
    ASSUME NEW s, NEW t, NEW n \in Nat, NEW k \in Nat, n <= k,
           NEW f, Sums(s, n, f), NEW g, Sums(t, k, g),
           \A m \in 1..n : s[m].length = t[m].length /\ s[m].length \in Nat
    PROVE  \A m \in 0..n : f[m] = g[m] /\ f[m] \in Nat
<1> DEFINE Bad == {m \in 0..n : ~(f[m] = g[m] /\ f[m] \in Nat)}
<1> SUFFICES ASSUME Bad # {} PROVE FALSE
  OBVIOUS
<1>0. Bad \subseteq Nat
  OBVIOUS
<1>1. PICK m \in Bad : \A j \in Bad : m <= j
  BY <1>0, LeastNumber
<1>2. m \in 0..n /\ ~(f[m] = g[m] /\ f[m] \in Nat)
  OBVIOUS
<1>3. /\ f[0] = 0 /\ \A j \in 1..n : f[j] = f[j - 1] + s[j].length
      /\ g[0] = 0 /\ \A j \in 1..k : g[j] = g[j - 1] + t[j].length
  BY SumSteps
<1>4. CASE m = 0
  BY <1>2, <1>3, <1>4
<1>5. CASE m # 0
  <2>1. m \in 1..n /\ m \in 1..k /\ m - 1 \in 0..n /\ ~(m <= m - 1)
    BY <1>2, <1>5
  <2>2. m - 1 \notin Bad
    BY <1>1, <2>1
  <2>3. f[m - 1] = g[m - 1] /\ f[m - 1] \in Nat
    BY <2>1, <2>2
  <2>4. f[m] = f[m - 1] + s[m].length /\ g[m] = g[m - 1] + t[m].length
    BY <1>3, <2>1
  <2>5. s[m].length = t[m].length /\ s[m].length \in Nat
    BY <2>1
  <2> HIDE DEF Bad
  <2> QED
    BY <1>2, <2>3, <2>4, <2>5
<1> QED
  BY <1>4, <1>5

\* TotalLength is the last of the sums, however they were computed.
LEMMA TotalIs ==
    ASSUME NEW s \in Seq(Transaction), NEW f, Sums(s, Len(s), f)
    PROVE  TotalLength(s) = f[Len(s)] /\ TotalLength(s) \in Nat
<1> DEFINE sum == CHOOSE g : Sums(s, Len(s), g)
<1>1. TotalLength(s) = sum[Len(s)]
  BY DEF TotalLength, Sums
<1>2. Len(s) \in Nat /\ \A m \in 1..Len(s) : s[m].length \in Nat
  BY LengthsAreNumbers
<1>3. Sums(s, Len(s), sum)
  OBVIOUS
<1> HIDE DEF sum
<1>4. \A m \in 0..Len(s) : sum[m] = f[m] /\ sum[m] \in Nat
  <2>1. PICK t : t = s
    OBVIOUS
  <2>2. /\ Len(s) \in Nat /\ Len(t) \in Nat /\ Len(s) <= Len(t) /\ Sums(t, Len(t), f)
        /\ \A m \in 1..Len(s) : s[m].length = t[m].length /\ s[m].length \in Nat
    BY <1>2, <2>1
  <2> QED
    BY <1>3, <2>2, SumsAgree, Zenon
<1> QED
  BY <1>1, <1>2, <1>4

\* Queues whose entries have the same lengths have the same total.
LEMMA TotalOfSameLengths ==
    ASSUME NEW s \in Seq(Transaction), NEW t \in Seq(Transaction), Len(s) = Len(t),
           \A m \in 1..Len(s) : s[m].length = t[m].length
    PROVE  TotalLength(s) = TotalLength(t)
<1>1. /\ Len(s) \in Nat /\ Len(s) <= Len(t) /\ Len(s) \in 0..Len(s)
      /\ \A m \in 1..Len(s) : s[m].length = t[m].length /\ s[m].length \in Nat
  BY LengthsAreNumbers
<1>2. PICK f : Sums(s, Len(s), f)
  BY <1>1, SumsExist
<1>3. PICK g : Sums(t, Len(t), g)
  BY <1>1, SumsExist
<1>4. \A m \in 0..Len(s) : f[m] = g[m] /\ f[m] \in Nat
  BY <1>1, <1>2, <1>3, SumsAgree, Zenon
<1> QED
  BY <1>1, <1>2, <1>3, <1>4, TotalIs

\* An empty queue holds no bytes.
LEMMA TotalOfNone == TotalLength(<<>>) = 0
<1>1. <<>> \in Seq(Transaction) /\ Len(<<>>) = 0
  OBVIOUS
<1>2. PICK f : Sums(<<>>, 0, f)
  BY SumsExist
<1>3. f[0] = 0
  BY <1>2, SumSteps
<1> QED
  BY <1>1, <1>2, <1>3, TotalIs

\* What a prefix of a queue and the rest of it hold is what the queue holds.
LEMMA TotalOfParts ==
    ASSUME NEW s \in Seq(Transaction), NEW p \in Seq(Transaction), NEW r \in Seq(Transaction),
           Len(s) = Len(p) + Len(r),
           \A m \in 1..Len(p) : p[m].length = s[m].length,
           \A m \in 1..Len(r) : r[m].length = s[Len(p) + m].length
    PROVE  /\ TotalLength(s) = TotalLength(p) + TotalLength(r)
           /\ TotalLength(s) \in Nat /\ TotalLength(p) \in Nat /\ TotalLength(r) \in Nat
<1>1. /\ Len(s) \in Nat /\ Len(p) \in Nat /\ Len(r) \in Nat /\ Len(p) <= Len(s)
      /\ \A m \in 1..Len(p) : p[m].length = s[m].length /\ p[m].length \in Nat
      /\ \A m \in 1..Len(r) : r[m].length \in Nat
  BY LengthsAreNumbers
<1>2. PICK f : Sums(s, Len(s), f)
  BY <1>1, SumsExist
<1>3. PICK g : Sums(p, Len(p), g)
  BY <1>1, SumsExist
<1>4. PICK h : Sums(r, Len(r), h)
  BY <1>1, SumsExist
<1>5. \A m \in 0..Len(p) : g[m] = f[m] /\ g[m] \in Nat
  BY <1>1, <1>2, <1>3, SumsAgree, ZenonT(40)
<1>a. \A m \in 1..Len(s) : f[m] = f[m - 1] + s[m].length
  BY ONLY <1>1, <1>2, SumSteps
<1>6. h[0] = 0 /\ \A m \in 1..Len(r) : h[m] = h[m - 1] + r[m].length
  BY <1>1, <1>4, SumSteps
<1> DEFINE base == Len(p)
           Bad == {m \in 0..Len(r) : ~(f[base + m] = f[base] + h[m] /\ h[m] \in Nat)}
<1>7. Bad = {}
  <2> SUFFICES ASSUME Bad # {} PROVE FALSE
    OBVIOUS
  <2>0. Bad \subseteq Nat
    BY <1>1
  <2>1. PICK m \in Bad : \A j \in Bad : m <= j
    BY <2>0, LeastNumber
  <2>2. m \in 0..Len(r) /\ ~(f[base + m] = f[base] + h[m] /\ h[m] \in Nat)
    OBVIOUS
  <2>3. base \in Nat /\ f[base] \in Nat
    <3>1. base \in Nat /\ base \in 0..base
      BY <1>1
    <3> QED
      BY ONLY <1>5, <3>1
  <2>4. CASE m = 0
    BY <1>6, <2>2, <2>3, <2>4
  <2>5. CASE m # 0
    <3>1. /\ m \in 1..Len(r) /\ m - 1 \in 0..Len(r) /\ ~(m <= m - 1)
          /\ base + m \in 1..Len(s) /\ (base + m) - 1 = base + (m - 1)
      BY <1>1, <2>2, <2>3, <2>5
    <3>2. f[base + (m - 1)] = f[base] + h[m - 1] /\ h[m - 1] \in Nat
      BY <2>1, <3>1
    <3>3. f[base + m] = f[base + (m - 1)] + s[base + m].length
      BY <1>a, <3>1
    <3>4. h[m] = h[m - 1] + r[m].length /\ r[m].length = s[base + m].length /\ r[m].length \in Nat
      BY <1>1, <1>6, <3>1
    <3> HIDE DEF Bad
    <3>5. f[base + m] = f[base] + h[m] /\ h[m] \in Nat
      BY <2>3, <3>2, <3>3, <3>4
    <3> QED
      BY <2>2, <3>5
  <2> QED
    BY <2>4, <2>5
<1>8. f[base + Len(r)] = f[base] + h[Len(r)] /\ h[Len(r)] \in Nat
  BY <1>1, <1>7
<1>9. f[base] = g[base] /\ g[base] \in Nat
  BY <1>1, <1>5
<1> QED
  BY <1>1, <1>2, <1>3, <1>4, <1>8, <1>9, TotalIs

\* A push adds the length of the request.
LEMMA TotalOfPushed ==
    ASSUME NEW s \in Seq(Transaction), NEW t \in Transaction
    PROVE  TotalLength(Append(s, t)) = TotalLength(s) + t.length
<1> DEFINE a == Append(s, t)
<1>1. /\ a \in Seq(Transaction) /\ Len(s) \in Nat /\ Len(a) = Len(s) + 1
      /\ \A m \in 1..Len(s) : a[m] = s[m]
      /\ a[Len(s) + 1] = t
  OBVIOUS
<1>2. t.length \in Nat /\ \A m \in 1..Len(s) : s[m].length \in Nat
  BY LengthsAreNumbers DEF Transaction
<1> HIDE DEF a
<1>3. PICK f : Sums(a, Len(a), f)
  BY <1>1, SumsExist
<1>4. PICK g : Sums(s, Len(s), g)
  BY <1>1, SumsExist
<1>5. \A m \in 0..Len(s) : g[m] = f[m] /\ g[m] \in Nat
  <2>1. /\ Len(s) <= Len(a) /\ Len(a) \in Nat
        /\ \A m \in 1..Len(s) : s[m].length = a[m].length /\ s[m].length \in Nat
    BY <1>1, <1>2
  <2> QED
    BY <1>1, <1>3, <1>4, <2>1, SumsAgree, Zenon
<1>6. f[Len(s) + 1] = f[(Len(s) + 1) - 1] + a[Len(s) + 1].length
  BY <1>1, <1>3, SumSteps
<1>7. (Len(s) + 1) - 1 = Len(s) /\ f[Len(s)] = g[Len(s)]
  BY <1>1, <1>5
<1>8. TotalLength(a) = f[Len(a)] /\ TotalLength(s) = g[Len(s)]
  BY <1>1, <1>3, <1>4, TotalIs
<1> QED
  BY <1>1, <1>6, <1>7, <1>8 DEF a

-----------------------------------------------------------------------------
(* The queue's account over every push, pop and flush. *)

\* A queue that is emptied, or left alone, keeps its account.
LEMMA QuietAccount ==
    ASSUME QueueAccounted,
           UNCHANGED queueVars \/ (queue' = <<>> /\ bytes' = 0)
    PROVE  QueueAccounted'
<1>1. CASE UNCHANGED queueVars
  BY <1>1 DEF QueueAccounted, queueVars
<1>2. CASE queue' = <<>> /\ bytes' = 0
  <2>1. Len(<<>>) = 0
    OBVIOUS
  <2> QED
    BY <1>2, <2>1, TotalOfNone, RuntimeAssumption DEF QueueAccounted
<1> QED
  BY <1>1, <1>2

\* A request is taken only where both limits leave room for it.
LEMMA SubmitAccount ==
    ASSUME TypeOK, QueueAccounted, NEW length \in Lengths, Submit(length)
    PROVE  QueueAccounted'
<1>1. CASE UNCHANGED queueVars
  BY <1>1, QuietAccount
<1>2. CASE ~UNCHANGED queueVars
  <2> DEFINE t == [id |-> nextId, length |-> length, left |-> QueueTimeout,
                   gen |-> 0, sent |-> FALSE]
  <2>1. TotalFits(length) /\ queue' = Append(queue, t) /\ bytes' = bytes + length
    BY <1>2 DEF Submit, Pushed
  <2>2. length \in Nat /\ t \in Transaction /\ t.length = length
    BY RuntimeAssumption DEF Submit, Transaction, TypeOK
  <2> HIDE DEF t
  <2>3. TotalLength(queue') = TotalLength(queue) + length
    BY <2>1, <2>2, TotalOfPushed DEF TypeOK
  <2>4. Len(queue') = Len(queue) + 1 /\ Len(queue) \in Nat
    BY <2>1, <2>2 DEF TypeOK
  <2> QED
    BY <2>1, <2>3, <2>4, RuntimeAssumption DEF QueueAccounted, TotalFits
<1> QED
  BY <1>1, <1>2

\* What the step of a ready port pops leaves the account with it.
LEMMA ReadyAccount ==
    ASSUME TypeOK, QueueAccounted, StepReady
    PROVE  QueueAccounted'
<1>1. PICK k \in 0..Len(queue) :
        IF k = Len(queue)
        THEN queue' = <<>> /\ bytes' = bytes - TotalLength(queue)
        ELSE /\ queue' = SubSeq(queue, k + 2, Len(queue))
             /\ bytes' = bytes - TotalLength(SubSeq(queue, 1, k + 1))
  BY DEF StepReady
<1>2. queue \in Seq(Transaction) /\ Len(queue) \in Nat /\ k \in Nat
  BY DEF TypeOK
<1>3. bytes = TotalLength(queue) /\ bytes <= QueueBytesMax /\ Len(queue) <= QueueCapacity
  BY DEF QueueAccounted
<1>4. bytes \in Nat
  <2>1. PICK f : Sums(queue, Len(queue), f)
    BY <1>2, SumsExist
  <2> QED
    BY <1>2, <1>3, <2>1, TotalIs
<1>5. CASE k = Len(queue)
  BY <1>1, <1>3, <1>4, <1>5, QuietAccount
<1>6. CASE k # Len(queue)
  <2> DEFINE p == SubSeq(queue, 1, k + 1)
             r == SubSeq(queue, k + 2, Len(queue))
  <2>1. queue' = r /\ bytes' = bytes - TotalLength(p)
    BY <1>1, <1>6
  <2>2. /\ r \in Seq(Transaction) /\ Len(r) = Len(queue) - (k + 1)
        /\ \A m \in 1..(Len(queue) - (k + 1)) : r[m] = queue[k + 1 + m]
    BY <1>2, <1>6, QueueRest
  <2>3. /\ p \in Seq(Transaction) /\ Len(p) = k + 1
        /\ \A m \in 1..(k + 1) : p[m] = queue[m]
    BY <1>2, <1>6
  <2> HIDE DEF p, r
  <2>4. /\ Len(queue) = Len(p) + Len(r)
        /\ \A m \in 1..Len(p) : p[m].length = queue[m].length
        /\ \A m \in 1..Len(r) : r[m].length = queue[Len(p) + m].length
    BY <1>2, <2>2, <2>3
  <2>5. /\ TotalLength(queue) = TotalLength(p) + TotalLength(r)
        /\ TotalLength(p) \in Nat /\ TotalLength(r) \in Nat
    BY ONLY <1>2, <2>2, <2>3, <2>4, TotalOfParts
  <2>6. Len(r) <= Len(queue)
    BY <1>2, <2>2
  <2>7. bytes' = TotalLength(r) /\ bytes' <= QueueBytesMax
    BY <1>3, <2>1, <2>5, RuntimeAssumption
  <2>8. Len(r) <= QueueCapacity
    BY <1>2, <1>3, <2>2, <2>6, RuntimeAssumption
  <2> QED
    BY <2>1, <2>7, <2>8 DEF QueueAccounted
<1> QED
  BY <1>5, <1>6

\* Time changes how long the requests still wait, not what they hold.
LEMMA TickAccount ==
    ASSUME TypeOK, QueueAccounted, Tick
    PROVE  QueueAccounted'
<1> DEFINE aged == [j \in DOMAIN queue |-> [queue[j] EXCEPT !.left = Less(@)]]
<1>1. queue' = aged /\ bytes' = bytes
  BY DEF Tick
<1>2. queue \in Seq(Transaction) /\ Len(queue) \in Nat /\ DOMAIN queue = 1..Len(queue)
  BY DEF TypeOK
<1>3. \A j \in 1..Len(queue) : queue[j] \in Transaction
  BY <1>2
<1>4. \A t \in Transaction : /\ [t EXCEPT !.left = Less(@)] \in Transaction
                             /\ [t EXCEPT !.left = Less(@)].length = t.length
  BY LessType DEF Transaction
<1>5. \A j \in 1..Len(queue) : aged[j] \in Transaction /\ aged[j].length = queue[j].length
  BY <1>2, <1>3, <1>4
<1>6. aged \in Seq(Transaction) /\ Len(aged) = Len(queue)
  <2>1. aged = [j \in 1..Len(queue) |-> aged[j]]
    BY <1>2
  <2> HIDE DEF aged
  <2> QED
    BY <1>2, <1>5, <2>1
<1> HIDE DEF aged
<1>7. TotalLength(queue) = TotalLength(aged)
  BY <1>2, <1>5, <1>6, TotalOfSameLengths
<1> QED
  BY <1>1, <1>6, <1>7 DEF QueueAccounted

\* The account starts empty.
LEMMA AccountInit == Init => QueueAccounted
<1>1. Len(<<>>) = 0
  OBVIOUS
<1> QED
  BY <1>1, TotalOfNone, RuntimeAssumption DEF Init, QueueAccounted

\* Every step keeps it.
LEMMA AccountStep == TypeOK /\ QueueAccounted /\ [Next]_vars => QueueAccounted'
<1> SUFFICES ASSUME TypeOK, QueueAccounted, [Next]_vars PROVE QueueAccounted'
  OBVIOUS
<1> DEFINE Quiet == UNCHANGED queueVars \/ (queue' = <<>> /\ bytes' = 0)
<1>1. CASE UNCHANGED vars
  BY <1>1, QuietAccount DEF vars
<1>2. ASSUME NEW length \in Lengths, Submit(length) PROVE QueueAccounted'
  BY <1>2, SubmitAccount
<1>3. CASE Start \/ CancelActive \/ DetachListener \/ ReportIoFailure \/ RequestStop
  <2>1. Quiet
    BY <1>3 DEF Start, CancelActive, DetachListener, ReportIoFailure, RequestStop, DropAll
  <2> QED
    BY <2>1, QuietAccount
<1>4. ASSUME NEW config \in Configs, RequestReconfigure(config) PROVE QueueAccounted'
  <2>1. Quiet
    BY <1>4 DEF RequestReconfigure, DropAll
  <2> QED
    BY <2>1, QuietAccount
<1>5. CASE StepReady
  BY <1>5, ReadyAccount
<1>6. CASE Opened \/ OpenGivenUp \/ StepActive \/ RecoverDelayed \/ Recovered
             \/ RecoverFailed \/ StepReconfiguring \/ Stopped \/ StopGivenUp
  <2>1. Quiet
    BY <1>6 DEF Opened, OpenGivenUp, StepActive, RecoverDelayed, Recovered, RecoverFailed,
                StepReconfiguring, Stopped, StopGivenUp
  <2> QED
    BY <2>1, QuietAccount
<1>7. CASE StepWaiting
  <2>1. Quiet
    BY <1>7 DEF StepWaiting, WaitingTransmitted, WaitingStale, WaitingResponse,
                WaitingFailure, WaitingTimeout
  <2> QED
    BY <2>1, QuietAccount
<1>8. CASE Tick
  BY <1>8, TickAccount
<1> QED
  BY <1>1, <1>2, <1>3, <1>4, <1>5, <1>6, <1>7, <1>8 DEF Next, Call, Step

\* queue->bytes and the number of entries stay true and within their limits.
THEOREM AccountKept == Spec => []QueueAccounted
<1>1. TypeOK /\ QueueAccounted /\ [Next]_vars => QueueAccounted'
  BY AccountStep
<1> QED
  BY <1>1, AccountInit, TypeCorrect, PTL DEF Spec

\* The queue keeps its order and its limits, and is empty where nobody serves it.
THEOREM QueueKept == Spec => []QueueIsKept
  BY OldestFirst, AccountKept, QueueServed, PTL DEF QueueIsKept

-----------------------------------------------------------------------------
(* The runtime implements RequestService. *)

\* The answer of some of the oldest requests is a Resolve of the service.
LEMMA NotifyResolves ==
    ASSUME Inv, NEW S \in SUBSET Pending, NEW status \in FinalStatus, NEW event \in 0..MaxId,
           Notify(S, status, event), accepted' = accepted,
           \A i \in S, j \in Pending : j <= i => j \in S,
           status \in {"TIMED_OUT", "CANCELLED"} \/ \E i \in S : S = {i}
    PROVE  Service!Next \/ UNCHANGED Fate
<1>1. \A i \in Ids : i \in S => i \in accepted /\ answers[i] = <<>>
  BY PendingMember DEF Inv, ServiceInv, NothingForgotten, PendingInOrder
<1>2. S \subseteq Ids
  <2>1. \A i \in Pending : i \in accepted
    BY PendingMember DEF Inv, ServiceInv, PendingInOrder
  <2> QED
    BY <2>1 DEF Inv, LifeInv, TypeOK
<1>3. \A i \in S : /\ answers'[i] # <<>>
                    /\ answers'[i][Len(answers'[i])].status = status
  <2> TAKE i \in S
  <2> DEFINE a == [status |-> status, event |-> event]
  <2>1. answers'[i] = Append(<<>>, a) /\ a.status = status
    BY <1>1, <1>2 DEF Notify
  <2> HIDE DEF a
  <2> QED
    BY <2>1
<1>4. \A i \in Ids : i \notin S => answers'[i] = answers[i]
  BY DEF Notify
<1>5. Fate' = [i \in Ids |-> IF i \in S THEN status ELSE Fate[i]]
  <2>1. \A i \in Ids : Fate'[i] = IF i \in S THEN status ELSE Fate[i]
    BY <1>1, <1>2, <1>3, <1>4 DEF Fate
  <2>2. Fate' = [i \in Ids |-> Fate'[i]]
    BY DEF Fate
  <2> QED
    BY <2>1, <2>2
<1>6. CASE S = {}
  BY <1>5, <1>6 DEF Fate
<1>7. CASE S # {}
  <2>1. \A i \in Service!Pending : i \in Pending
    <3>1. \A i \in Ids : Fate[i] = "pending" => i \in accepted /\ answers[i] = <<>>
      <4> TAKE i \in Ids
      <4>1. CASE i \notin accepted
        BY <4>1 DEF Fate
      <4>2. CASE i \in accepted /\ answers[i] # <<>>
        <5>1. answers[i] \in Seq(Answer) /\ Len(answers[i]) \in DOMAIN answers[i]
          BY <4>2 DEF Inv, LifeInv, TypeOK
        <5>a. answers[i][Len(answers[i])] \in Answer
          BY <5>1
        <5>2. answers[i][Len(answers[i])].status \in FinalStatus
          BY <5>a DEF Answer
        <5> QED
          BY <4>2, <5>2 DEF Fate, FinalStatus
      <4> QED
        BY <4>1, <4>2
    <3> QED
      BY <3>1 DEF Service!Pending, Ids, Inv, ServiceInv, NothingForgotten
  <2>2. S \in SUBSET Service!Pending
    <3>1. \A i \in S : Fate[i] = "pending"
      BY <1>1, <1>2 DEF Fate
    <3> QED
      BY <1>2, <3>1 DEF Service!Pending, Ids
  <2>3. Service!Resolve(S, status)
    BY <1>5, <1>7, <2>1 DEF Service!Resolve, Ids
  <2> QED
    BY <2>2, <2>3 DEF Service!Next
<1> QED
  BY <1>6, <1>7

\* The active request is the oldest pending one.
LEMMA ActiveResolves ==
    ASSUME Inv, hasActive, NEW status \in FinalStatus, NEW event \in 0..MaxId,
           Notify({active.id}, status, event), UNCHANGED clientVars
    PROVE  Service!Next \/ UNCHANGED Fate
<1>1. {active.id} \in SUBSET Pending
  BY PendingMember
<1>2. \A i \in {active.id}, j \in Pending : j <= i => j \in {active.id}
  <2>1. accepted \subseteq Nat
    BY DEF Inv, LifeInv, TypeOK, Ids
  <2>2. /\ active.id \in Nat
        /\ \A j \in DOMAIN queue : queue[j].id \in Nat /\ active.id < queue[j].id
    BY <2>1 DEF Inv, ServiceInv, PendingInOrder
  <2> QED
    BY <2>2, PendingMember
<1>3. accepted' = accepted
  BY DEF clientVars
<1> QED
  BY <1>1, <1>2, <1>3, NotifyResolves

\* flush_queue with the cancellation of the active transaction is one Resolve of
\* all that is pending, or nothing when nothing is.
LEMMA DropAllResolves ==
    ASSUME Inv, DropAll, UNCHANGED clientVars
    PROVE  Service!Next \/ UNCHANGED Fate
<1>1. Notify(Pending, "CANCELLED", 0) /\ "CANCELLED" \in FinalStatus /\ 0 \in 0..MaxId
  BY NoEvent DEF DropAll, FinalStatus
<1>2. accepted' = accepted
  BY DEF clientVars
<1> QED
  BY <1>1, <1>2, NotifyResolves

\* The READY port answers a prefix of its queue, which is what is oldest.
LEMMA ReadyResolves ==
    ASSUME Inv, StepReady
    PROVE  Service!Next \/ UNCHANGED Fate
<1>0. ~hasActive /\ accepted' = accepted
  BY DEF StepReady, Inv, LifeInv, LifecycleConsistent, clientVars
<1>1. PICK k \in 0..Len(queue) : Notify({queue[j].id : j \in 1..k}, "TIMED_OUT", 0)
  BY DEF StepReady
<1> DEFINE S == {queue[j].id : j \in 1..k}
<1>2. Len(queue) \in Nat /\ k \in Nat /\ \A j : j \in DOMAIN queue <=> j \in 1..Len(queue)
  BY DEF Inv, LifeInv, TypeOK
<1>3. \A j \in 1..Len(queue) : queue[j].id \in Nat
  <2>1. accepted \subseteq Nat
    BY DEF Inv, LifeInv, TypeOK, Ids
  <2> QED
    BY <1>2, <2>1 DEF Inv, ServiceInv, PendingInOrder
<1>4. \A j, m \in 1..Len(queue) : j < m => queue[j].id < queue[m].id
  BY <1>2 DEF Inv, ServiceInv, PendingInOrder
<1>5. S \in SUBSET Pending
  BY <1>2, PendingMember
<1>6. \A i \in S, j \in Pending : j <= i => j \in S
  <2> SUFFICES ASSUME NEW n \in 1..k, NEW j \in Pending, j <= queue[n].id
               PROVE  j \in S
    OBVIOUS
  <2>1. PICK m \in 1..Len(queue) : queue[m].id = j
    BY <1>0, <1>2, PendingMember
  <2>2. n \in 1..Len(queue)
    BY <1>2
  <2>3. ~(n < m)
    BY <1>3, <1>4, <2>1, <2>2
  <2>4. m \in 1..k
    BY <1>2, <2>3
  <2> QED
    BY <2>1, <2>4
<1>7. "TIMED_OUT" \in FinalStatus /\ 0 \in 0..MaxId
  BY NoEvent DEF FinalStatus
<1> QED
  BY <1>0, <1>1, <1>5, <1>6, <1>7, NotifyResolves

\* port_runtime_submit_operation is an Accept of the service, or a skipped id.
LEMMA ServiceAccepts ==
    ASSUME Inv, NEW length \in Lengths, Submit(length)
    PROVE  Service!Next \/ UNCHANGED Fate
<1>1. nextId \in Ids /\ UNCHANGED answers
  BY DEF Submit, Inv, LifeInv, TypeOK, Ids
<1>2. CASE accepted' = accepted
  BY <1>1, <1>2 DEF Fate
<1>3. CASE accepted' = accepted \cup {nextId}
  <2>1. \A j \in nextId..MaxId : j \in Ids /\ j \notin accepted
    BY <1>1, RuntimeAssumption DEF Inv, ServiceInv, AcceptedAreOlder, LifeInv, TypeOK, Ids
  <2>2. \A j \in nextId..MaxId : Fate[j] = "unused"
    BY <2>1 DEF Fate
  <2>3. answers[nextId] = <<>>
    BY <1>1, <2>1, RuntimeAssumption DEF Inv, ServiceInv, NothingForgotten, Ids
  <2>4. \A i \in Ids : Fate'[i] = IF i = nextId THEN "pending" ELSE Fate[i]
    BY <1>1, <1>3, <2>3 DEF Fate
  <2>5. Fate' = [Fate EXCEPT ![nextId] = "pending"]
    <3>1. Fate' = [i \in Ids |-> Fate'[i]] /\ Fate = [i \in Ids |-> Fate[i]]
      BY DEF Fate
    <3> QED
      BY <2>4, <3>1
  <2>6. Service!Accept(nextId)
    BY <2>2, <2>5 DEF Service!Accept
  <2> QED
    BY <1>1, <2>6 DEF Service!Next, Ids
<1> QED
  BY <1>2, <1>3 DEF Submit

\* Every step of the port is a step of the service or changes no fate.
LEMMA ServiceSimulated == Inv /\ [Next]_vars => Service!Next \/ UNCHANGED Fate
<1> SUFFICES ASSUME Inv, [Next]_vars PROVE Service!Next \/ UNCHANGED Fate
  OBVIOUS
<1>1. ASSUME UNCHANGED <<accepted, answers>> PROVE UNCHANGED Fate
  BY <1>1 DEF Fate
<1>2. CASE UNCHANGED vars
  BY <1>1, <1>2 DEF vars, clientVars
<1>3. ASSUME NEW length \in Lengths, Submit(length) PROVE Service!Next \/ UNCHANGED Fate
  BY <1>3, ServiceAccepts
<1>4. CASE DetachListener \/ RequestStop
  BY <1>4, DropAllResolves DEF DetachListener, RequestStop
<1>5. ASSUME NEW config \in Configs, RequestReconfigure(config)
      PROVE  Service!Next \/ UNCHANGED Fate
  BY <1>5, DropAllResolves DEF RequestReconfigure
<1>6. CASE CancelActive \/ WaitingTimeout
  <2>1. hasActive /\ UNCHANGED clientVars
    BY <1>6 DEF CancelActive, WaitingTimeout, Inv, LifeInv, LifecycleConsistent
  <2>2. \E status \in FinalStatus : Notify({active.id}, status, 0)
    BY <1>6 DEF CancelActive, WaitingTimeout, FinalStatus
  <2> QED
    BY NoEvent, <2>1, <2>2, ActiveResolves
<1>7. ASSUME NEW e \in inflight, NEW status \in {"MALFORMED", "FAILED"}, WaitingFailure(e, status)
      PROVE  Service!Next \/ UNCHANGED Fate
  <2>1. hasActive /\ UNCHANGED clientVars /\ status \in FinalStatus /\ e.id \in 0..MaxId
    BY <1>7 DEF WaitingFailure, FinalStatus, Inv, LifeInv, LifecycleConsistent, TypeOK, Work
  <2> QED
    BY <1>7, <2>1, ActiveResolves DEF WaitingFailure
<1>8. ASSUME NEW e \in inflight, WaitingResponse(e) PROVE Service!Next \/ UNCHANGED Fate
  <2>1. hasActive /\ UNCHANGED clientVars /\ "COMPLETED" \in FinalStatus /\ e.id \in 0..MaxId
    BY <1>8 DEF WaitingResponse, FinalStatus, Inv, LifeInv, LifecycleConsistent, TypeOK, Work
  <2> QED
    BY <1>8, <2>1, ActiveResolves DEF WaitingResponse
<1>9. CASE StepActive
  <2>1. hasActive /\ UNCHANGED clientVars /\ "FAILED" \in FinalStatus /\ 0 \in 0..MaxId
    BY <1>9, NoEvent DEF StepActive, FinalStatus, Inv, LifeInv, LifecycleConsistent
  <2>2. CASE UNCHANGED answers
    BY <1>1, <2>1, <2>2 DEF clientVars
  <2>3. CASE Notify({active.id}, "FAILED", 0)
    BY <2>1, <2>3, ActiveResolves
  <2> QED
    BY <1>9, <2>2, <2>3 DEF StepActive
<1>10. CASE StepReady
  BY <1>10, ReadyResolves
<1>11. CASE \/ Start \/ ReportIoFailure \/ Opened \/ OpenGivenUp
            \/ WaitingTransmitted \/ WaitingStale
            \/ RecoverDelayed \/ Recovered \/ RecoverFailed \/ StepReconfiguring
            \/ Stopped \/ StopGivenUp \/ Tick
  <2>1. UNCHANGED <<accepted, answers>>
    BY <1>11 DEF Start, ReportIoFailure, Opened, OpenGivenUp, WaitingTransmitted,
       WaitingStale, RecoverDelayed, Recovered, RecoverFailed, StepReconfiguring,
       Stopped, StopGivenUp, Tick, clientVars
  <2> QED
    BY <1>1, <2>1
<1> QED
  BY <1>2, <1>3, <1>4, <1>5, <1>6, <1>7, <1>8, <1>9, <1>10, <1>11
     DEF Next, Call, Step, StepWaiting

\* The runtime is a RequestService: each accepted request gets one final status,
\* oldest first, and only timeouts in the queue and cancellations come in groups.
THEOREM ImplementsService == Spec => ServesRequests
<1>1. Init => Service!Init
  BY DEF Init, Fate, Service!Init, Ids
<1>2. Inv /\ [Next]_vars => [Service!Next]_Fate
  BY ServiceSimulated
<1> QED
  BY <1>1, <1>2, Invariance, PTL DEF Spec, ServesRequests, Service!Spec

-----------------------------------------------------------------------------
(* Nothing follows a failed transaction directly. *)

Barred ==
    hasActive /\ active'.id # active.id =>
        \/ state' \in {"RECONFIGURING", "STOPPING"}
        \/ state' = "RECOVERING" /\ stateLeft' = RecoveryDelay
        \/ /\ state' = "READY"
           /\ answers'[active.id] # <<>>
           /\ answers'[active.id][1].status = "COMPLETED"

Delayed ==
    state = "RECOVERING" =>
        /\ state' = "READY" => stateLeft = 0
        /\ state' = "RECOVERING" /\ stateLeft' < stateLeft =>
              stateLeft' = stateLeft - 1 /\ UNCHANGED <<inflight, attempts, answers>>

\* A recovery lasts as long as its delay: the clock alone takes from it.
LEMMA DelayStep == Inv /\ [Next]_vars => [Delayed]_vars
<1> SUFFICES ASSUME Inv, Next, state = "RECOVERING" PROVE Delayed
  BY DEF Delayed
<1>1. stateLeft \in Nat /\ RecoveryDelay \in Nat /\ ~hasActive
  BY RuntimeAssumption DEF Inv, LifeInv, LifecycleConsistent, TypeOK
<1>2. CASE \/ Start \/ CancelActive \/ ReportIoFailure \/ Opened \/ OpenGivenUp \/ StepReady
           \/ StepActive \/ StepWaiting \/ StepReconfiguring \/ Stopped \/ StopGivenUp
           \/ \E length \in Lengths : Submit(length)
  BY <1>1, <1>2 DEF Start, Allowed, CancelActive, ReportIoFailure, Opened, OpenGivenUp, StepReady,
     StepActive, StepWaiting, WaitingTransmitted, WaitingStale, WaitingResponse, WaitingFailure,
     WaitingTimeout, StepReconfiguring, Stopped, StopGivenUp, Submit
<1>3. CASE DetachListener
  BY <1>1, <1>3 DEF DetachListener, Delayed
<1>4. CASE RequestStop \/ \E config \in Configs : RequestReconfigure(config)
  BY <1>4 DEF RequestStop, RequestReconfigure, Goto, Allowed, Delayed
<1>5. CASE RecoverDelayed
  BY <1>1, <1>5 DEF RecoverDelayed, Delayed
<1>6. CASE Recovered
  BY <1>1, <1>6 DEF Recovered, Delayed
<1>7. CASE RecoverFailed
  BY <1>1, <1>7 DEF RecoverFailed, Goto, Allowed, Delayed
<1>8. CASE Tick
  BY <1>1, <1>8 DEF Tick, Less, Delayed
<1> QED
  BY <1>2, <1>3, <1>4, <1>5, <1>6, <1>7, <1>8 DEF Next, Call, Step

\* Every step of the port respects the barrier after a failed transaction.
LEMMA BarrierStep == Inv /\ [Next]_vars => [Barred]_vars
<1> SUFFICES ASSUME Inv, Next, hasActive, active'.id # active.id
             PROVE  \/ state' \in {"RECONFIGURING", "STOPPING"}
                    \/ state' = "RECOVERING" /\ stateLeft' = RecoveryDelay
                    \/ /\ state' = "READY"
                       /\ answers'[active.id] # <<>>
                       /\ answers'[active.id][1].status = "COMPLETED"
  BY DEF Barred
<1>1. state \in {"ACTIVE", "WAITING"} /\ active \in Transaction
  BY DEF Inv, LifeInv, LifecycleConsistent, TypeOK
<1>2. CASE \/ Start \/ ReportIoFailure \/ Opened \/ OpenGivenUp \/ StepReady
           \/ RecoverDelayed \/ Recovered \/ RecoverFailed \/ StepReconfiguring
           \/ Stopped \/ StopGivenUp
  BY <1>1, <1>2 DEF Start, Allowed, ReportIoFailure, Opened, OpenGivenUp, StepReady,
     RecoverDelayed, Recovered, RecoverFailed, StepReconfiguring, Stopped, StopGivenUp
<1>3. CASE \/ (\E length \in Lengths : Submit(length)) \/ WaitingStale
  BY <1>3 DEF Submit, WaitingStale, activeVars
<1>4. CASE WaitingTransmitted \/ Tick
  <2>1. CASE Tick
    <3>1. active' = [active EXCEPT !.left = Less(@)]
      BY <2>1 DEF Tick
    <3> QED
      BY <1>1, <3>1, Aged
  <2>2. CASE WaitingTransmitted
    BY <1>1, <2>2 DEF WaitingTransmitted, Transaction
  <2> QED
    BY <1>4, <2>1, <2>2
<1>5. CASE \/ CancelActive \/ WaitingTimeout \/ StepActive
           \/ \E e \in inflight, status \in {"MALFORMED", "FAILED"} : WaitingFailure(e, status)
  <2>1. CASE UNCHANGED active
    BY <2>1
  <2>2. CASE \E pending : BeginRecovery(pending)
    BY <1>1, <2>2 DEF BeginRecovery, EnterRecovery, Goto, Allowed
  <2> QED
    BY <1>5, <2>1, <2>2 DEF CancelActive, WaitingTimeout, StepActive, WaitingFailure
<1>6. CASE DetachListener \/ RequestStop \/ \E config \in Configs : RequestReconfigure(config)
  BY <1>1, <1>6 DEF DetachListener, RequestStop, RequestReconfigure, EnterRecovery, Goto, Allowed
<1>7. ASSUME NEW e \in inflight, WaitingResponse(e)
      PROVE  /\ state' = "READY"
             /\ answers'[active.id] # <<>>
             /\ answers'[active.id][1].status = "COMPLETED"
  <2>1. state' = "READY"
    BY <1>1, <1>7 DEF WaitingResponse, Goto, Allowed
  <2>2. active.id \in Ids /\ answers[active.id] = <<>>
    <3>1. active.id \in accepted /\ active.id \in Pending
      BY PendingMember DEF Inv, ServiceInv, PendingInOrder
    <3> QED
      BY <3>1 DEF Inv, ServiceInv, NothingForgotten, LifeInv, TypeOK
  <2> DEFINE a == [status |-> "COMPLETED", event |-> e.id]
  <2>3. answers'[active.id] = Append(<<>>, a) /\ a.status = "COMPLETED"
    BY <1>7, <2>2 DEF WaitingResponse, Notify
  <2> HIDE DEF a
  <2> QED
    BY <2>1, <2>3
<1> QED
  BY <1>2, <1>3, <1>4, <1>5, <1>6, <1>7 DEF Next, Call, Step, StepWaiting

\* A transaction that failed, timed out or was cancelled is followed by a
\* recovery, a reconfiguration or a stop before the next one may start, and a recovery
\* lasts for the whole of its delay.
THEOREM BarrierHolds == Spec => BarrierAfterFailure
<1>1. Inv /\ [Next]_vars => [Barred /\ Delayed]_vars
  BY BarrierStep, DelayStep
<1> QED
  BY <1>1, Invariance, PTL DEF Spec, BarrierAfterFailure, Barred, Delayed

-----------------------------------------------------------------------------
(* What the controller sees of the port. *)

Port == [state |-> state, current |-> current, staged |-> staged, knownGood |-> knownGood]

\* A step that keeps the configurations only moves the port to its next state.
LEMMA PortMoves ==
    ASSUME UNCHANGED configVars
    PROVE  Port' = Life!In(Port, state')
BY DEF Port, Life!In, configVars

\* port_runtime_step along one of the edges of the life cycle.
LEMMA PortSteps ==
    ASSUME UNCHANGED configVars, state' \in Life!StepsTo(state)
    PROVE  Life!Step
<1>1. Port.state = state
  BY DEF Port
<1> QED
  BY <1>1, PortMoves DEF Life!Step, Life!AfterStep, Port

\* Every call, step and tick of the port is a step of its life cycle or leaves it.
LEMMA LifeSimulated == LifeInv /\ [Next]_vars => [Life!Next]_Port
<1> SUFFICES ASSUME LifeInv, Next PROVE Life!Next \/ UNCHANGED Port
  BY DEF vars, configVars, Port
<1>0. Port.state = state /\ Port.current = current
  BY DEF Port
<1>1. state \in States /\ (hasActive <=> state \in {"ACTIVE", "WAITING"})
  BY DEF LifeInv, TypeOK, LifecycleConsistent
<1>2. CASE Start
  <2>1. state \in {"DISABLED", "ERROR"} /\ state' = "STARTING" /\ UNCHANGED configVars
    BY <1>1, <1>2 DEF Start, Goto, Allowed, States
  <2> QED
    BY <1>0, <2>1, PortMoves DEF Life!Next, Life!Start, Life!Startable, Port
<1>3. CASE ReportIoFailure
  <2>1. state = "READY" /\ state' = "RECOVERING" /\ UNCHANGED configVars
    BY <1>3 DEF ReportIoFailure, BeginRecovery, EnterRecovery, Goto, Allowed
  <2> QED
    BY <1>0, <2>1, PortMoves DEF Life!Next, Life!IoFailure, Port
<1>4. CASE CancelActive \/ DetachListener
  <2>1. UNCHANGED configVars /\ state' = IF hasActive THEN "RECOVERING" ELSE state
    BY <1>1, <1>4 DEF CancelActive, DetachListener, BeginRecovery, EnterRecovery, Goto, Allowed
  <2>2. CASE hasActive
    <3>1. Life!Detached(Port) = Life!In(Port, "RECOVERING")
      BY <1>0, <1>1, <2>2 DEF Life!Detached, Life!Busy
    <3> QED
      BY <2>1, <2>2, <3>1, PortMoves DEF Life!Next, Life!Detach, Port
  <2>3. CASE ~hasActive
    BY <2>1, <2>3 DEF configVars, Port
  <2> QED
    BY <2>2, <2>3
<1>5. ASSUME NEW config \in Configs, RequestReconfigure(config)
      PROVE  Life!Next
  <2>1. state \in {"READY", "ACTIVE", "WAITING", "RECOVERING", "DEGRADED"}
    BY <1>5 DEF RequestReconfigure
  <2>2. /\ state' = "RECONFIGURING" /\ current' = current
        /\ staged' = config /\ knownGood' = current
    BY <1>5, <2>1 DEF RequestReconfigure, Goto, Allowed
  <2>3. Port' = Life!Reconfigured(Port, config)
    BY <2>2 DEF Port, Life!Reconfigured
  <2> QED
    <3>1. Life!Reconfigurable(Port)
      BY <1>0, <2>1 DEF Life!Reconfigurable
    <3> QED
      BY <2>3, <3>1 DEF Life!Next, Life!Reconfigure, Port
<1>6. CASE RequestStop
  <2>1. state \notin {"DISABLED", "STOPPING"} /\ state' = "STOPPING" /\ UNCHANGED configVars
    BY <1>1, <1>6 DEF RequestStop, Goto, Allowed, States
  <2> QED
    BY <1>0, <2>1, PortMoves DEF Life!Next, Life!Stop, Life!Stoppable, Port
<1>7. CASE \/ Opened \/ OpenGivenUp \/ StepActive \/ Recovered \/ RecoverFailed
           \/ Stopped \/ StopGivenUp
  <2>1. UNCHANGED configVars /\ state' \in Life!StepsTo(state)
    BY <1>7 DEF Opened, OpenGivenUp, StepActive, Recovered, RecoverFailed, Stopped, StopGivenUp,
       BeginRecovery, EnterRecovery, Goto, Allowed, Life!StepsTo
  <2> QED
    BY <2>1, PortSteps DEF Life!Next
<1>8. CASE StepReady
  <2>1. UNCHANGED configVars /\ state = "READY" /\ state' \in {"READY", "ACTIVE"}
    BY <1>8 DEF StepReady, Goto, Allowed
  <2> QED
    BY <2>1, PortSteps DEF Life!Next, Life!StepsTo
<1>9. CASE StepWaiting
  <2>1. /\ UNCHANGED configVars /\ state = "WAITING"
        /\ state' \in {"WAITING", "READY", "RECOVERING"}
    BY <1>9 DEF StepWaiting, WaitingTransmitted, WaitingStale, WaitingResponse, WaitingFailure,
       WaitingTimeout, BeginRecovery, EnterRecovery, Goto, Allowed
  <2> QED
    BY <2>1, PortSteps DEF Life!Next, Life!StepsTo
<1>10. CASE StepReconfiguring
  <2>1. state = "RECONFIGURING" /\ staged' = staged
    BY <1>10 DEF StepReconfiguring
  <2>2. \/ state' = "READY" /\ current' = staged /\ knownGood' = staged
        \/ state' \in {"READY", "ERROR"} /\ UNCHANGED configVars
    BY <1>10, <2>1 DEF StepReconfiguring, TakeOver, Goto, Allowed, configVars
  <2>3. CASE state' = "READY" /\ current' = staged /\ knownGood' = staged
    <3>1. Port' = Life!TookOver(Port)
      BY <2>1, <2>3 DEF Port, Life!TookOver
    <3>2. Life!TookOver(Port) \in Life!AfterStep(Port)
      BY <1>0, <2>1 DEF Life!AfterStep
    <3> QED
      BY <3>1, <3>2 DEF Life!Next, Life!Step, Port
  <2>4. CASE state' \in {"READY", "ERROR"} /\ UNCHANGED configVars
    BY <2>1, <2>4, PortSteps DEF Life!Next, Life!StepsTo
  <2> QED
    BY <2>2, <2>3, <2>4
<1>11. CASE RecoverDelayed \/ Tick \/ \E length \in Lengths : Submit(length)
  BY <1>11 DEF RecoverDelayed, Tick, Submit, Port, configVars
<1> QED
  BY <1>2, <1>3, <1>4, <1>5, <1>6, <1>7, <1>8, <1>9, <1>10, <1>11 DEF Next, Call, Step

\* The runtime is a PortLife: what its controller is modelled on is what it does.
THEOREM ImplementsLife == Spec => FollowsLife
<1>1. Init => Life!Init
  BY RuntimeAssumption DEF Init, Life!Init, Life!Fresh
<1>2. LifeInv /\ [Next]_vars => [Life!Next]_Port
  BY LifeSimulated
<1> QED
  BY <1>1, <1>2, LifeCycle, PTL DEF Spec, FollowsLife, Life!Spec, Port
=============================================================================
