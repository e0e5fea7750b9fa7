------------------------- MODULE CoordinatorLoopProofs -------------------------
(***************************************************************************)
(* Proofs about CoordinatorLoop, for every start index, selector limit and *)
(* bound.                                                                  *)
(***************************************************************************)
EXTENDS CoordinatorLoop, SequenceTheorems, TLAPS

Executions == [key : {"proposal"}, value : Infos, canceled : BOOLEAN]

-----------------------------------------------------------------------------
(* The proposer.                                                           *)

proposerType ==
  /\ pending \in [{"proposal"} -> Infos \cup {None}]
  /\ executing \in Executions \cup {None}
  /\ result \in {"none", "nil", "error"}
  /\ stopped \in BOOLEAN

(* Everything the loop and proposeParent do with the proposer keeps its    *)
(* type.                                                                   *)
LEMMA ProposerType ==
  ASSUME proposerType, info \in Infos,
         \/ UNCHANGED proposerVars
         \/ proposer!Submit("proposal", info)
         \/ proposer!Start("proposal")
         \/ proposer!Return("nil")
         \/ proposer!Return("error")
         \/ proposer!Succeed
         \/ proposer!Fail
         \/ proposer!Stop
         \/ proposer!Abandon
  PROVE  proposerType'
<1> USE DEF proposerType
<1>0. ASSUME executing # None
      PROVE  /\ executing \in Executions
             /\ executing.key = "proposal"
             /\ [executing EXCEPT !.canceled = TRUE] \in Executions
  BY <1>0 DEF Executions
<1>1. CASE UNCHANGED proposerVars
  BY <1>1 DEF proposerVars
<1>2. CASE proposer!Submit("proposal", info)
  BY <1>0, <1>2 DEF proposer!Submit
<1>3. CASE proposer!Start("proposal")
  <2>1. pending["proposal"] \in Infos
    BY <1>3 DEF proposer!Start
  <2> QED
    BY <1>3, <2>1 DEF proposer!Start, Executions
<1>4. CASE proposer!Return("nil") \/ proposer!Return("error")
  BY <1>4 DEF proposer!Return
<1>5. CASE proposer!Succeed
  BY <1>0, <1>5 DEF proposer!Succeed
<1>6. CASE proposer!Fail \/ proposer!Stop
  BY <1>6 DEF proposer!Fail, proposer!Stop
<1>7. CASE proposer!Abandon
  BY <1>0, <1>7 DEF proposer!Abandon
<1> QED
  BY <1>1, <1>2, <1>3, <1>4, <1>5, <1>6, <1>7

(* What a step of the proposer does, by the part of the loop it belongs to.*)
LEMMA ProposerSteps ==
  ASSUME ProposerStep \/ ProposerAbandons
  PROVE  /\ UNCHANGED << nodeVars, handlerVars, signal, trigger, loopVars >>
         /\ \/ proposer!Start("proposal")
            \/ proposer!Succeed
            \/ proposer!Fail
            \/ proposer!Return("nil")
            \/ proposer!Return("error")
            \/ proposer!Abandon
            \/ UNCHANGED proposerVars
BY DEF ProposerStep, ProposerAbandons, ProposerStarts, ProposerFinishes, ProposeObsolete,
       ProposeParent, registerStateMilestoneIndexEvent, Notified, ProposeCanceled,
       ProposeFails, ProposeAccepted, Propose

(* A step of the loop leaves the node and proposeParent alone.             *)
LEMMA LoopSteps ==
  ASSUME LoopStep \/ Done
  PROVE  /\ UNCHANGED << nodeVars, handlerVars, callVars >>
         /\ \/ UNCHANGED proposerVars
            \/ proposer!Submit("proposal", info)
            \/ proposer!Stop
BY DEF LoopStep, Done, FirstTimer, FirstTrigger, FirstSignal, SecondTrigger, SecondSignal,
       proposeDue

-----------------------------------------------------------------------------
LEMMA InitLoopInv == Init => LoopInv
<1> SUFFICES ASSUME Init PROVE LoopInv
  OBVIOUS
<1>1. TypeOK
  <2>1. lmi \in Infos /\ cmi \in 0 .. lmi /\ stateIndex \in StartIndex .. MaxIndex + 1
    BY LoopAssumption DEF Init, Infos
  <2>2. events \in Seq(Infos) /\ tracked \in 0 .. MaxTrackedBlocks
    BY LoopAssumption, EmptySeq DEF Init
  <2>3. /\ pending \in [{"proposal"} -> Infos \cup {None}]
        /\ executing = None /\ result = "none" /\ stopped = FALSE
    BY DEF Init, proposer!Init
  <2>4. confirmed \in Infos /\ sending \in Infos /\ info \in Infos
    BY LoopAssumption DEF Init, Infos
  <2> QED
    BY <2>1, <2>2, <2>3, <2>4 DEF Init, TypeOK
<1>2. TimerReady /\ SignalOrder
  BY DEF Init, TimerReady, SignalOrder
<1>3. NoLostWakeUp
  BY DEF Init, NoLostWakeUp, Calling
<1>4. Starting
  BY LoopAssumption DEF Init, Starting
<1> QED
  BY <1>1, <1>2, <1>3, <1>4 DEF LoopInv

-----------------------------------------------------------------------------
(* The types of everything but the proposer.                               *)
otherType ==
  /\ lmi \in Infos
  /\ cmi \in 0 .. lmi
  /\ stateIndex \in StartIndex .. MaxIndex + 1
  /\ bootstrap \in BOOLEAN
  /\ hooked \in BOOLEAN
  /\ events \in Seq(Infos)
  /\ tracked \in 0 .. MaxTrackedBlocks
  /\ confirmed \in Infos
  /\ sending \in Infos
  /\ signal \in {<< >>} \cup { << i >> : i \in Infos }
  /\ trigger \in BOOLEAN
  /\ timer \in {"never", "armed", "fired", "drained"}
  /\ info \in Infos
  /\ loop \in {"init", "hook", "first", "second", "blocked", "end"}
  /\ committing \in BOOLEAN

callType ==
  /\ call \in {"check", "look", "wait", "propose"}
  /\ notified \in BOOLEAN
  /\ proposed \subseteq StartIndex .. MaxIndex + 1

LEMMA TypeParts == TypeOK <=> otherType /\ callType /\ proposerType
BY DEF TypeOK, otherType, callType, proposerType, Executions

LEMMA TypePartsNext == TypeOK' <=> otherType' /\ callType' /\ proposerType'
BY DEF TypeOK, otherType, callType, proposerType, Executions

LEMMA SignalType ==
  ASSUME signal \in {<< >>} \cup { << i >> : i \in Infos }, signal # << >>
  PROVE  Head(signal) \in Infos /\ signal = << Head(signal) >>
OBVIOUS

LEMMA LoopStepType ==
  ASSUME TypeOK, TimerReady, LoopStep \/ Done
  PROVE  TypeOK'
<1>1. otherType /\ callType /\ proposerType
  BY TypeParts
<1>2. callType' /\ proposerType'
  BY <1>1, LoopSteps, ProposerType DEF otherType, callType, callVars
<1>3. otherType'
  <2>1. CASE FirstTimer
    BY <1>1, <2>1 DEF FirstTimer, proposeDue, otherType, nodeVars, stateVars, handlerVars
  <2>2. CASE FirstTrigger
    BY <1>1, <2>2 DEF FirstTrigger, resetRunningTimer, otherType, nodeVars, stateVars, handlerVars
  <2>3. CASE FirstSignal
    BY <1>1, <2>3, SignalType
       DEF FirstSignal, resetRunningTimer, otherType, nodeVars, stateVars, handlerVars
  <2>4. CASE SecondTrigger
    BY <1>1, <2>4 DEF SecondTrigger, otherType, nodeVars, stateVars, handlerVars
  <2>5. CASE SecondSignal
    BY <1>1, <2>5, SignalType DEF SecondSignal, otherType, nodeVars, stateVars, handlerVars
  <2>6. CASE Done
    BY <1>1, <2>6 DEF Done, otherType, nodeVars, stateVars, handlerVars
  <2> QED
    BY <2>1, <2>2, <2>3, <2>4, <2>5, <2>6 DEF LoopStep
<1> QED
  BY <1>2, <1>3, TypePartsNext

LEMMA ProposerStepType ==
  ASSUME TypeOK, ProposerStep \/ ProposerAbandons
  PROVE  TypeOK'
<1>1. otherType /\ callType /\ proposerType
  BY TypeParts
<1>2. otherType' /\ proposerType'
  <2>1. UNCHANGED << nodeVars, handlerVars, signal, trigger, loopVars >>
    BY ProposerSteps
  <2>2. otherType'
    BY <1>1, <2>1 DEF otherType, nodeVars, stateVars, handlerVars, loopVars
  <2>3. proposerType'
    BY <1>1, ProposerSteps, ProposerType DEF otherType
  <2> QED
    BY <2>2, <2>3
<1>3. callType'
  <2> USE <1>1 DEF callType, callVars, Propose
  <2>1. CASE ProposerStarts
    BY <2>1 DEF ProposerStarts
  <2>2. CASE ProposerFinishes \/ ProposerAbandons \/ ProposeObsolete
    BY <2>2 DEF ProposerFinishes, ProposerAbandons, ProposeObsolete
  <2>3. CASE ProposeParent
    BY <2>3 DEF ProposeParent
  <2>4. CASE registerStateMilestoneIndexEvent
    BY <2>4 DEF registerStateMilestoneIndexEvent
  <2>5. CASE Notified
    BY <2>5 DEF Notified
  <2>6. CASE ProposeCanceled \/ ProposeFails
    BY <2>6 DEF ProposeCanceled, ProposeFails
  <2>7. CASE ProposeAccepted
    BY <2>7 DEF ProposeAccepted, otherType
  <2> QED
    BY <2>1, <2>2, <2>3, <2>4, <2>5, <2>6, <2>7 DEF ProposerStep
<1> QED
  BY <1>2, <1>3, TypePartsNext

LEMMA TypeKept ==
  ASSUME LoopInv, [Next]_vars
  PROVE  TypeOK'
<1>1. otherType /\ callType /\ proposerType
  BY TypeParts DEF LoopInv
<1> USE LoopAssumption DEF otherType, callType, nodeVars, stateVars, handlerVars, loopVars, callVars, Infos
<1>2. ASSUME UNCHANGED proposerVars, otherType', callType'
      PROVE  TypeOK'
  BY <1>1, <1>2, ProposerType, TypePartsNext
<1>3. CASE CommitNotifies
  BY <1>1, <1>2, <1>3 DEF CommitNotifies
<1>4. CASE CommitCopies
  <2>1. stateIndex <= MaxIndex
    BY <1>4 DEF CommitCopies, LoopInv, Starting
  <2>2. stateIndex' \in StartIndex .. MaxIndex + 1
    BY <1>1, <1>4, <2>1 DEF CommitCopies
  <2> QED
    BY <1>1, <1>2, <1>4, <2>2 DEF CommitCopies
<1>5. CASE MilestoneReceived
  BY <1>1, <1>2, <1>5 DEF MilestoneReceived
<1>6. CASE MilestoneConfirmed
  <2>1. cmi + 1 \in Infos
    BY <1>1, <1>6 DEF MilestoneConfirmed
  <2>2. events' \in Seq(Infos)
    BY <1>1, <1>6, <2>1, AppendProperties DEF MilestoneConfirmed
  <2> QED
    BY <1>1, <1>2, <1>6, <2>2 DEF MilestoneConfirmed
<1>7. CASE initializeEvents
  <2>1. confirmed' \in Infos
    BY <1>1, <1>7 DEF initializeEvents
  <2> QED
    BY <1>1, <1>2, <1>7, <2>1 DEF initializeEvents
<1>8. CASE RegisterEvents
  BY <1>1, <1>2, <1>8 DEF RegisterEvents
<1>9. CASE onBlockSolid
  BY <1>1, <1>2, <1>9 DEF onBlockSolid
<1>10. CASE onConfirmedMilestoneChanged
  <2>1. Head(events) \in Infos /\ Tail(events) \in Seq(Infos)
    BY <1>1, <1>10, HeadTailProperties DEF onConfirmedMilestoneChanged
  <2> QED
    BY <1>1, <1>2, <1>10, <2>1 DEF onConfirmedMilestoneChanged
<1>11. CASE SendSignal
  BY <1>1, <1>2, <1>11 DEF SendSignal
<1>12. CASE TimerFires
  BY <1>1, <1>2, <1>12 DEF TimerFires
<1>13. CASE UNCHANGED vars
  BY <1>1, <1>2, <1>13 DEF vars
<1> QED
  BY <1>3, <1>4, <1>5, <1>6, <1>7, <1>8, <1>9, <1>10, <1>11, <1>12, <1>13,
     LoopStepType, ProposerStepType DEF Next, LoopInv

-----------------------------------------------------------------------------
(* The timer.                                                              *)
LEMMA TimerKept ==
  ASSUME LoopInv, [Next]_vars
  PROVE  TimerReady'
<1>1. TimerReady /\ (loop \in {"init", "hook"} => timer = "never")
  BY DEF LoopInv, Starting
<1>2. CASE initializeEvents
  BY <1>2 DEF initializeEvents, TimerReady
<1>3. CASE RegisterEvents
  BY <1>1, <1>3 DEF RegisterEvents, TimerReady
<1>4. CASE TimerFires
  BY <1>1, <1>4 DEF TimerFires, TimerReady
<1>5. CASE FirstTimer
  BY <1>1, <1>5 DEF FirstTimer, proposeDue, TimerReady
<1>6. CASE FirstTrigger \/ FirstSignal
  BY <1>1, <1>6 DEF FirstTrigger, FirstSignal, resetRunningTimer, TimerReady
<1>7. CASE SecondTrigger \/ SecondSignal \/ Done
  BY <1>1, <1>7 DEF SecondTrigger, SecondSignal, Done, TimerReady
<1>8. CASE UNCHANGED << timer, loop >>
  BY <1>1, <1>8 DEF TimerReady
<1>9. \/ initializeEvents \/ RegisterEvents \/ TimerFires \/ LoopStep \/ Done
      \/ UNCHANGED << timer, loop >>
  BY ProposerSteps
     DEF Next, CommitNotifies, CommitCopies, MilestoneReceived, MilestoneConfirmed, onBlockSolid,
         onConfirmedMilestoneChanged, SendSignal, loopVars, vars
<1> QED
  BY <1>2, <1>3, <1>4, <1>5, <1>6, <1>7, <1>8, <1>9 DEF LoopStep

-----------------------------------------------------------------------------
(* The listener of ProposeParent.                                          *)
Reached == IF committing THEN stateIndex + 1 ELSE stateIndex

(* A call that goes on waiting, at most canceled.                          *)
GoesOn ==
  /\ UNCHANGED << stateVars, call, notified, result >>
  /\ \/ executing' = executing
     \/ executing # None /\ executing' = [executing EXCEPT !.canceled = TRUE]

LEMMA WakeUpKept ==
  ASSUME LoopInv, [Next]_vars
  PROVE  NoLostWakeUp'
<1> USE DEF GoesOn
<1> SUFFICES ASSUME Calling({"wait"})', ~ notified'
             PROVE  executing'.value + 1 > Reached'
  BY DEF NoLostWakeUp, Reached
<1>1. /\ Calling({"wait"}) /\ ~ notified => executing.value + 1 > Reached
      /\ stateIndex \in Nat
      /\ executing # None => executing.value \in Nat
  BY LoopAssumption DEF LoopInv, NoLostWakeUp, Reached, TypeOK, Infos
<1>2. CASE CommitNotifies
  <2>1. /\ executing' = executing /\ Calling({"wait"})
        /\ ~ notified /\ ~ Listens(stateIndex + 1)
        /\ Reached = stateIndex /\ Reached' = stateIndex + 1
    BY <1>2 DEF CommitNotifies, Calling, proposerVars, Reached
  <2>2. executing.value + 1 # stateIndex + 1
    BY <2>1 DEF Listens, Calling
  <2>3. executing.value \in Nat
    BY <1>1, <2>1 DEF Calling
  <2> QED
    BY <1>1, <2>1, <2>2, <2>3
<1>3. CASE CommitCopies
  <2>1. /\ executing' = executing /\ Calling({"wait"}) /\ ~ notified
        /\ Reached' = Reached
    BY <1>3 DEF CommitCopies, Calling, callVars, proposerVars, Reached
  <2> QED
    BY <1>1, <2>1
<1>4. CASE registerStateMilestoneIndexEvent
  <2>1. /\ ~ (executing.value + 1 <= stateIndex)
        /\ executing' = executing /\ executing # None
        /\ Reached' = stateIndex
    BY <1>4
       DEF registerStateMilestoneIndexEvent, Propose, nodeVars, stateVars, proposerVars, Reached,
           Calling
  <2> QED
    BY <1>1, <2>1
<1>5. CASE GoesOn
  <2>1. executing # None
    BY <1>5 DEF Calling
  <2>2. executing \in Executions
    BY <2>1 DEF LoopInv, TypeOK, Executions
  <2>3. executing'.value = executing.value
    BY <1>5, <2>2 DEF Executions
  <2> QED
    BY <1>1, <1>5, <2>1, <2>3 DEF Calling, Reached, stateVars
<1>6. CASE call' # "wait" \/ executing' = None \/ result' # "none"
  BY <1>6 DEF Calling
<1>7. \/ CommitNotifies \/ CommitCopies \/ registerStateMilestoneIndexEvent
      \/ GoesOn
      \/ call' # "wait" \/ executing' = None \/ result' # "none"
  <2>1. CASE LoopStep \/ Done
    <3>1. UNCHANGED << nodeVars, callVars >>
      BY <2>1, LoopSteps
    <3>2. UNCHANGED << stateVars, call, notified >>
      BY <3>1 DEF nodeVars, stateVars, callVars
    <3>3. CASE UNCHANGED proposerVars
      BY <3>2, <3>3 DEF stateVars, proposerVars
    <3>4. CASE proposer!Submit("proposal", info) \/ proposer!Stop
      BY <3>2, <3>4 DEF stateVars, proposer!Submit, proposer!Stop
    <3> QED
      BY <2>1, <3>3, <3>4, LoopSteps
  <2>2. CASE ProposerStep \/ ProposerAbandons
    BY <2>2
       DEF ProposerStep, ProposerAbandons, ProposerStarts, ProposerFinishes, ProposeObsolete,
           ProposeParent, Notified, ProposeCanceled, ProposeFails, ProposeAccepted, Propose,
           proposer!Return, proposer!Succeed, proposer!Fail, proposer!Abandon,
           nodeVars, callVars, proposerVars
  <2>3. CASE \/ MilestoneReceived \/ MilestoneConfirmed \/ initializeEvents \/ RegisterEvents
             \/ onBlockSolid \/ onConfirmedMilestoneChanged \/ SendSignal \/ TimerFires
             \/ UNCHANGED vars
    <3>1. UNCHANGED << stateVars, callVars, proposerVars >>
      BY <2>3
         DEF MilestoneReceived, MilestoneConfirmed, initializeEvents, RegisterEvents,
             onBlockSolid, onConfirmedMilestoneChanged, SendSignal, TimerFires, vars, nodeVars,
             stateVars
    <3> QED
      BY <3>1 DEF stateVars, callVars, proposerVars
  <2> QED
    BY <2>1, <2>2, <2>3 DEF Next
<1> QED
  BY <1>2, <1>3, <1>4, <1>5, <1>6, <1>7

-----------------------------------------------------------------------------
(* The order of the signals.                                               *)
LEMMA StartingKept ==
  ASSUME LoopInv, [Next]_vars
  PROVE  Starting'
<1>1. Starting /\ TimerReady /\ lmi \in Nat
  BY DEF LoopInv, TypeOK, Infos
<1> USE DEF Starting, nodeVars, stateVars, handlerVars, loopVars
<1>2. CASE CommitNotifies \/ CommitCopies
  BY <1>1, <1>2 DEF CommitNotifies, CommitCopies
<1>3. CASE MilestoneReceived \/ MilestoneConfirmed
  BY <1>1, <1>3, LoopAssumption DEF MilestoneReceived, MilestoneConfirmed
<1>4. CASE initializeEvents \/ RegisterEvents
  BY <1>1, <1>4 DEF initializeEvents, RegisterEvents
<1>5. CASE onBlockSolid \/ onConfirmedMilestoneChanged
  BY <1>1, <1>5 DEF onBlockSolid, onConfirmedMilestoneChanged
<1>6. CASE SendSignal \/ TimerFires
  BY <1>1, <1>6 DEF SendSignal, TimerFires
<1>7. CASE LoopStep \/ Done
  <2>1. loop' \notin {"init", "hook"}
    BY <1>7
       DEF LoopStep, Done, FirstTimer, FirstTrigger, FirstSignal, SecondTrigger, SecondSignal,
           resetRunningTimer, proposeDue
  <2> QED
    BY <1>1, <1>7, <2>1, LoopSteps
<1>8. CASE ProposerStep \/ ProposerAbandons
  BY <1>1, <1>8, ProposerSteps
<1>9. CASE UNCHANGED vars
  BY <1>1, <1>9 DEF vars
<1> QED
  BY <1>2, <1>3, <1>4, <1>5, <1>6, <1>7, <1>8, <1>9 DEF Next

(* Taking a signal.                                                        *)
Hears == signal # << >> /\ info' = Head(signal) /\ signal' = << >>

LEMMA SignalCases ==
  ASSUME LoopInv, [Next]_vars
  PROVE  \/ initializeEvents
         \/ onConfirmedMilestoneChanged
         \/ SendSignal
         \/ Hears /\ UNCHANGED << confirmed, sending >>
         \/ UNCHANGED << confirmed, sending, signal, info >>
<1> USE DEF handlerVars, loopVars, Hears
<1>1. CASE LoopStep \/ Done
  <2>1. CASE FirstSignal \/ SecondSignal
    BY <2>1 DEF FirstSignal, SecondSignal
  <2>2. CASE FirstTimer \/ FirstTrigger \/ SecondTrigger \/ Done
    BY <2>2 DEF FirstTimer, FirstTrigger, SecondTrigger, Done
  <2> QED
    BY <1>1, <2>1, <2>2 DEF LoopStep
<1>2. CASE ProposerStep \/ ProposerAbandons
  BY <1>2, ProposerSteps
<1>3. CASE \/ CommitNotifies \/ CommitCopies \/ MilestoneReceived \/ MilestoneConfirmed
           \/ RegisterEvents \/ onBlockSolid \/ TimerFires \/ UNCHANGED vars
  BY <1>3
     DEF CommitNotifies, CommitCopies, MilestoneReceived, MilestoneConfirmed, RegisterEvents,
         onBlockSolid, TimerFires, vars
<1> QED
  BY <1>1, <1>2, <1>3 DEF Next

LEMMA SignalKept ==
  ASSUME LoopInv, [Next]_vars
  PROVE  SignalOrder'
<1>1. /\ SignalOrder /\ Starting
      /\ info \in Nat /\ confirmed \in Nat /\ sending \in Nat /\ lmi \in Nat
      /\ events \in Seq(Nat)
      /\ signal # << >> => Head(signal) \in Nat
  <2>1. SignalOrder /\ Starting /\ TypeOK /\ Infos \subseteq Nat
    BY LoopAssumption DEF LoopInv, Infos
  <2>2. events \in Seq(Nat)
    BY <2>1, SeqMonotonic DEF TypeOK
  <2>3. signal # << >> => Head(signal) \in Infos
    BY <2>1, SignalType DEF TypeOK
  <2> QED
    BY <2>1, <2>2, <2>3 DEF TypeOK
<1>2. CASE initializeEvents
  <2>1. /\ signal' = << confirmed' >> /\ info = 0 /\ info' = 0 /\ sending' = 0
        /\ confirmed' = StartIndex - 1 \/ confirmed' > 0
        /\ confirmed' \in Nat
    BY <1>1, <1>2, LoopAssumption DEF initializeEvents, Starting
  <2> QED
    BY <2>1, LoopAssumption DEF SignalOrder
<1>3. CASE onConfirmedMilestoneChanged
  <2>1. Head(events) \in Nat
    BY <1>1, <1>3, HeadTailProperties DEF onConfirmedMilestoneChanged
  <2>2. CASE UNCHANGED << confirmed, sending >>
    BY <1>1, <1>3, <2>2 DEF onConfirmedMilestoneChanged, SignalOrder, loopVars
  <2>3. CASE Head(events) > confirmed /\ confirmed' = Head(events) /\ sending' = Head(events)
    BY <1>1, <1>3, <2>1, <2>3 DEF onConfirmedMilestoneChanged, SignalOrder, loopVars
  <2> QED
    BY <1>1, <1>3, <2>1, <2>2, <2>3 DEF onConfirmedMilestoneChanged
<1>4. CASE SendSignal
  BY <1>1, <1>4 DEF SendSignal, SignalOrder, loopVars
<1>5. CASE Hears /\ UNCHANGED << confirmed, sending >>
  BY <1>1, <1>5 DEF Hears, SignalOrder
<1>6. CASE UNCHANGED << confirmed, sending, signal, info >>
  BY <1>1, <1>6 DEF SignalOrder
<1> QED
  BY <1>2, <1>3, <1>4, <1>5, <1>6, SignalCases

-----------------------------------------------------------------------------
LEMMA LoopInvCorrect == Spec => []LoopInv
<1>1. LoopInv /\ [Next]_vars => LoopInv'
  BY TypeKept, TimerKept, WakeUpKept, StartingKept, SignalKept DEF LoopInv
<1> QED
  BY <1>1, InitLoopInv, PTL DEF Spec

(* Types, and the selector never holds more than MaxTrackedBlocks          *)
(* (component.go 255).                                                     *)
THEOREM LoopTypeCorrect == Spec => []TypeOK
<1>1. LoopInv => TypeOK
  BY DEF LoopInv
<1> QED
  BY <1>1, LoopInvCorrect, PTL

(* The loop never waits for a timer that will not fire (loop.go 104, 168). *)
THEOREM TimerReadyCorrect == Spec => []TimerReady
<1>1. LoopInv => TimerReady
  BY DEF LoopInv
<1> QED
  BY <1>1, LoopInvCorrect, PTL

(* ProposeParent misses no notification of Commit (coordinator.go 284).    *)
THEOREM NoLostWakeUpCorrect == Spec => []NoLostWakeUp
<1>1. LoopInv => NoLostWakeUp
  BY DEF LoopInv
<1> QED
  BY <1>1, LoopInvCorrect, PTL

(* The loop hears of milestones in increasing order (loop.go 58, 156).     *)
THEOREM SignalsIncreaseCorrect == Spec => SignalsIncrease
<1>1. LoopInv /\ [Next]_vars =>
        (signal # << >> /\ signal' = << >> =>
           Head(signal) > info \/ (info = 0 /\ Head(signal) = StartIndex - 1))
  BY DEF LoopInv, SignalOrder
<1>2. LoopInv /\ [Next]_vars =>
        [ signal # << >> /\ signal' = << >> =>
            \/ Head(signal) > info
            \/ info = 0 /\ Head(signal) = StartIndex - 1 ]_vars
  BY <1>1
<1> QED
  BY <1>2, LoopInvCorrect, PTL DEF Spec, SignalsIncrease
=============================================================================
