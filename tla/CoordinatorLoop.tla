--------------------------- MODULE CoordinatorLoop ---------------------------
(***************************************************************************)
(* The loop in which one validator proposes a parent for every milestone   *)
(* (components/decoo/loop.go), the event handlers that drive it            *)
(* (component.go), and Coordinator.ProposeParent (pkg/decoo/coordinator.go)*)
(* which it calls.                                                         *)
(*                                                                         *)
(* Three goroutines interact through two channels of capacity one: the     *)
(* handler of confirmed milestones, the handler of solid blocks and the    *)
(* loop.  A fourth one, the proposer, is a queue.Single that executes      *)
(* proposeParent; it appears here as the Mailbox that KeyedQueue is shown  *)
(* to implement.  A milestone is its index, and so is a milestoneInfo.     *)
(* Time is not modelled: a timer that is set may fire.                     *)
(***************************************************************************)
EXTENDS Naturals, Sequences

CONSTANTS
    StartIndex,         \* of the first milestone when bootstrapping
    MaxTrackedBlocks,   \* Parameters.MaxTrackedBlocks
    None,
    MaxIndex            \* bound: the last milestone

VARIABLES
    lmi, cmi,      \* the node's latest and confirmed milestone index
    stateIndex,    \* the milestone index of the checkState
    committing,    \* a Commit that has notified of the next index holds its lock
    bootstrap,     \* the flag --cooBootstrap
    hooked,        \* the event handlers are registered
    events,        \* confirmed milestones whose handler has not run yet
    tracked,       \* number of blocks in the tip selector
    confirmed,     \* confirmedMilestone.index
    sending,       \* the milestone the handler is about to signal, or 0
    signal,        \* channel confirmedMilestoneSignal
    trigger,       \* channel triggerNextMilestone holds a value
    timer,         \* "never" fires, "armed", "fired" or "drained"
    info,          \* the milestone the loop has heard of last, 0 at first
    loop,          \* "init", "hook", "first" or "second" select, "blocked", "end"
    call,          \* where proposeParent is: "check", "look", "wait", "propose"
    notified,      \* its listener has been notified
    proposed,      \* the milestones for which a parent was accepted
    pending, executing, result, stopped   \* the proposer

stateVars == << stateIndex, committing >>
nodeVars == << lmi, cmi, stateVars, bootstrap, hooked, events >>
handlerVars == << tracked, confirmed, sending >>
loopVars == << timer, info, loop >>
callVars == << call, notified, proposed >>
proposerVars == << pending, executing, result, stopped >>
vars == << nodeVars, handlerVars, signal, trigger, loopVars, callVars, proposerVars >>

ASSUME LoopAssumption ==
    /\ StartIndex \in Nat \ {0}
    /\ MaxTrackedBlocks \in Nat \ {0}
    /\ MaxIndex \in Nat
    /\ StartIndex <= MaxIndex + 1
    /\ None \notin 0 .. MaxIndex
    /\ None \notin [key : {"proposal"}, value : 0 .. MaxIndex, canceled : BOOLEAN]

Infos == 0 .. MaxIndex

proposer == INSTANCE Mailbox WITH Keys <- {"proposal"}, Values <- Infos

-----------------------------------------------------------------------------
(* initCoordinatorState is done.  A network is bootstrapped after the      *)
(* milestone before StartIndex; otherwise the node was synced, and the     *)
(* state is that of a milestone up to the confirmed one.                   *)
Init ==
    /\ bootstrap \in BOOLEAN
    /\ lmi \in IF bootstrap THEN {StartIndex - 1} ELSE StartIndex .. MaxIndex
    /\ cmi = lmi
    /\ stateIndex \in StartIndex .. (IF bootstrap THEN StartIndex ELSE cmi)
    /\ committing = FALSE
    /\ hooked = FALSE
    /\ events = << >>
    /\ tracked = 0
    /\ confirmed = 0
    /\ sending = 0
    /\ signal = << >>
    /\ trigger = FALSE
    /\ timer = "never"
    /\ info = 0
    /\ loop = "init"
    /\ call = "check"
    /\ notified = FALSE
    /\ proposed = {}
    /\ proposer!Init

-----------------------------------------------------------------------------
(* The node and the committee.                                             *)

Calling(at) == executing # None /\ result = "none" /\ call \in at

Listens(index) == Calling({"look", "wait"}) /\ executing.value + 1 = index

(* Commit issues a milestone: it notifies the listeners of the next index  *)
(* under the lock of the checkState, before it copies the state.           *)
CommitNotifies ==
    /\ ~ committing
    /\ stateIndex <= MaxIndex
    /\ committing' = TRUE
    /\ notified' = (notified \/ Listens(stateIndex + 1))
    /\ UNCHANGED << lmi, cmi, stateIndex, bootstrap, hooked, events, handlerVars, signal,
                    trigger, loopVars, call, proposed, proposerVars >>

CommitCopies ==
    /\ committing
    /\ committing' = FALSE
    /\ stateIndex' = stateIndex + 1
    /\ UNCHANGED << lmi, cmi, bootstrap, hooked, events, handlerVars, signal, trigger,
                    loopVars, callVars, proposerVars >>

MilestoneReceived ==
    /\ lmi < MaxIndex
    /\ lmi' = lmi + 1
    /\ UNCHANGED << cmi, stateVars, bootstrap, hooked, events, handlerVars, signal,
                    trigger, loopVars, callVars, proposerVars >>

(* An event nobody listens to is lost.                                     *)
MilestoneConfirmed ==
    /\ cmi < lmi
    /\ cmi' = cmi + 1
    /\ events' = IF hooked THEN Append(events, cmi + 1) ELSE events
    /\ UNCHANGED << lmi, stateVars, bootstrap, hooked, handlerVars, signal, trigger,
                    loopVars, callVars, proposerVars >>

-----------------------------------------------------------------------------
(* Starting: the milestone to continue from, the latest one even if it is  *)
(* not confirmed yet, is signalled; then the event handlers are registered.*)
initializeEvents ==
    /\ loop = "init"
    /\ loop' = "hook"
    /\ confirmed' = IF bootstrap THEN StartIndex - 1 ELSE lmi
    /\ signal' = << confirmed' >>
    /\ UNCHANGED << nodeVars, tracked, sending, trigger, timer, info, callVars, proposerVars >>

RegisterEvents ==
    /\ loop = "hook"
    /\ loop' = "first"
    /\ hooked' = TRUE
    /\ UNCHANGED << lmi, cmi, stateVars, bootstrap, events, handlerVars, signal, trigger,
                    timer, info, callVars, proposerVars >>

-----------------------------------------------------------------------------
(* The event handlers.                                                     *)

(* Mutant: blocks are added to a selector that is full.                    *)
onBlockSolidUnlimited ==
    /\ hooked
    /\ tracked' = tracked + 1
    /\ trigger' = (trigger \/ tracked' >= MaxTrackedBlocks)
    /\ UNCHANGED << nodeVars, confirmed, sending, signal, loopVars, callVars, proposerVars >>

(* A valid parent is added to the selector unless that is full; the block  *)
(* that fills it triggers the next milestone, if it is not yet triggered.  *)
onBlockSolid ==
    /\ hooked
    /\ tracked < MaxTrackedBlocks
    /\ tracked' = tracked + 1
    /\ trigger' = (trigger \/ tracked' >= MaxTrackedBlocks)
    /\ UNCHANGED << nodeVars, confirmed, sending, signal, loopVars, callVars, proposerVars >>

(* Mutant: a milestone that is not newer is signalled.                     *)
onConfirmedMilestoneChangedAgain ==
    /\ events # << >>
    /\ sending = 0
    /\ events' = Tail(events)
    /\ tracked' = 0
    /\ IF lmi > Head(events)
       THEN UNCHANGED << confirmed, sending >>
       ELSE confirmed' = Head(events) /\ sending' = Head(events)
    /\ UNCHANGED << lmi, cmi, stateVars, bootstrap, hooked, signal, trigger, loopVars,
                    callVars, proposerVars >>

(* The selector is reset; a milestone the node has already passed, or one  *)
(* that is not newer, is ignored.                                          *)
onConfirmedMilestoneChanged ==
    /\ events # << >>
    /\ sending = 0
    /\ events' = Tail(events)
    /\ tracked' = 0
    /\ IF lmi > Head(events) \/ Head(events) <= confirmed
       THEN UNCHANGED << confirmed, sending >>
       ELSE confirmed' = Head(events) /\ sending' = Head(events)
    /\ UNCHANGED << lmi, cmi, stateVars, bootstrap, hooked, signal, trigger, loopVars,
                    callVars, proposerVars >>

(* The handler blocks until there is room in the channel.                  *)
SendSignal ==
    /\ sending # 0
    /\ signal = << >>
    /\ signal' = << sending >>
    /\ sending' = 0
    /\ UNCHANGED << nodeVars, tracked, confirmed, trigger, loopVars, callVars, proposerVars >>

-----------------------------------------------------------------------------
(* The loop.                                                               *)
TimerFires ==
    /\ timer = "armed"
    /\ timer' = "fired"
    /\ UNCHANGED << nodeVars, handlerVars, signal, trigger, info, loop, callVars,
                    proposerVars >>

(* Stop and Reset.  Stop fails if the timer has fired; then its value is   *)
(* received first, for which the loop would wait for ever if it had been   *)
(* received before.                                                        *)
resetRunningTimer ==
    IF timer = "drained"
    THEN loop' = "blocked" /\ UNCHANGED timer
    ELSE timer' = "armed" /\ UNCHANGED loop

(* Mutant: the timer is not reset when the node is not synced.             *)
proposeDueForgettingTimer ==
    IF lmi # cmi
    THEN timer' = "drained" /\ UNCHANGED << loop, proposerVars >>
    ELSE /\ timer' = "drained"
         /\ loop' = "second"
         /\ proposer!Submit("proposal", info)

(* The timer has fired: wait if the node is not synced, otherwise propose. *)
proposeDue ==
    IF lmi # cmi
    THEN timer' = "armed" /\ UNCHANGED << loop, proposerVars >>
    ELSE /\ timer' = "drained"
         /\ loop' = "second"
         /\ proposer!Submit("proposal", info)

FirstTimer ==
    /\ loop = "first"
    /\ timer = "fired"
    /\ proposeDue
    /\ UNCHANGED << nodeVars, handlerVars, signal, trigger, info, callVars >>

FirstTrigger ==
    /\ loop = "first"
    /\ trigger
    /\ trigger' = FALSE
    /\ resetRunningTimer
    /\ UNCHANGED << nodeVars, handlerVars, signal, info, callVars, proposerVars >>

FirstSignal ==
    /\ loop = "first"
    /\ signal # << >>
    /\ info' = Head(signal)
    /\ signal' = << >>
    /\ resetRunningTimer
    /\ UNCHANGED << nodeVars, handlerVars, trigger, callVars, proposerVars >>

(* Mutant: a timer that has fired is treated as a running one.             *)
SecondTriggerRunning ==
    /\ loop = "second"
    /\ trigger
    /\ trigger' = FALSE
    /\ resetRunningTimer
    /\ UNCHANGED << nodeVars, handlerVars, signal, info, callVars, proposerVars >>

SecondTrigger ==
    /\ loop = "second"
    /\ trigger
    /\ trigger' = FALSE
    /\ timer' = "armed"
    /\ loop' = "first"
    /\ UNCHANGED << nodeVars, handlerVars, signal, info, callVars, proposerVars >>

SecondSignal ==
    /\ loop = "second"
    /\ signal # << >>
    /\ info' = Head(signal)
    /\ signal' = << >>
    /\ timer' = "armed"
    /\ loop' = "first"
    /\ UNCHANGED << nodeVars, handlerVars, trigger, callVars, proposerVars >>

(* ctx.Done(), and the deferred proposer.Stop().                           *)
Done ==
    /\ loop \in {"first", "second"}
    /\ loop' = "end"
    /\ proposer!Stop
    /\ UNCHANGED << nodeVars, handlerVars, signal, trigger, timer, info, callVars >>

-----------------------------------------------------------------------------
(* The proposer, and proposeParent for the milestone after executing.value.*)
Propose(step) ==
    /\ step
    /\ UNCHANGED << nodeVars, handlerVars, signal, trigger, loopVars >>

ProposerStarts ==
    Propose(/\ proposer!Start("proposal")
            /\ call' = "check"
            /\ notified' = FALSE
            /\ UNCHANGED proposed)

ProposerFinishes ==
    Propose((proposer!Succeed \/ proposer!Fail) /\ UNCHANGED callVars)

(* Stop cancels a call that runs.                                          *)
ProposerAbandons == Propose(proposer!Abandon /\ UNCHANGED callVars)

(* No need to propose a parent if the milestone is already confirmed.      *)
ProposeObsolete ==
    /\ Calling({"check"})
    /\ cmi > executing.value
    /\ Propose(proposer!Return("nil") /\ UNCHANGED callVars)

(* ProposeParent registers a listener for the index of the milestone ...   *)
ProposeParent ==
    /\ Calling({"check"})
    /\ cmi <= executing.value
    /\ Propose(call' = "look" /\ UNCHANGED << notified, proposed, proposerVars >>)

(* Mutant: the index is read without the lock.                             *)
registerWithoutLock ==
    /\ Calling({"look"})
    /\ Propose(/\ call' = "wait"
               /\ notified' = (notified \/ executing.value + 1 <= stateIndex)
               /\ UNCHANGED << proposed, proposerVars >>)

(* ... and then looks at the state, under the lock of the checkState: if   *)
(* the index has been reached, it notifies itself.                         *)
registerStateMilestoneIndexEvent ==
    /\ Calling({"look"})
    /\ ~ committing
    /\ Propose(/\ call' = "wait"
               /\ notified' = (notified \/ executing.value + 1 <= stateIndex)
               /\ UNCHANGED << proposed, proposerVars >>)

Notified ==
    /\ Calling({"wait"})
    /\ notified
    /\ Propose(call' = "propose" /\ UNCHANGED << notified, proposed, proposerVars >>)

(* Waiting for the second to pass, for the state to reach the index or for *)
(* Tendermint ends when the context is canceled.                           *)
ProposeCanceled ==
    /\ Calling({"look", "wait", "propose"})
    /\ executing.canceled
    /\ Propose(proposer!Return("error") /\ UNCHANGED callVars)

(* The tip may no longer be a valid parent, the state may have moved on,   *)
(* CheckTx may refuse.                                                     *)
ProposeFails ==
    /\ Calling({"propose"})
    /\ Propose(proposer!Return("error") /\ UNCHANGED callVars)

(* CheckTx accepts a parent of the current milestone.                      *)
ProposeAccepted ==
    /\ Calling({"propose"})
    /\ ~ committing
    /\ stateIndex = executing.value + 1
    /\ Propose(/\ proposer!Return("nil")
               /\ proposed' = proposed \cup {executing.value + 1}
               /\ UNCHANGED << call, notified >>)

LoopStep == FirstTimer \/ FirstTrigger \/ FirstSignal \/ SecondTrigger \/ SecondSignal

ProposerStep ==
    \/ ProposerStarts
    \/ ProposerFinishes
    \/ ProposeObsolete
    \/ ProposeParent
    \/ registerStateMilestoneIndexEvent
    \/ Notified
    \/ ProposeCanceled
    \/ ProposeFails
    \/ ProposeAccepted

Next ==
    \/ CommitNotifies
    \/ CommitCopies
    \/ MilestoneReceived
    \/ MilestoneConfirmed
    \/ initializeEvents
    \/ RegisterEvents
    \/ onBlockSolid
    \/ onConfirmedMilestoneChanged
    \/ SendSignal
    \/ TimerFires
    \/ LoopStep
    \/ Done
    \/ ProposerStep
    \/ ProposerAbandons

Spec == Init /\ [][Next]_vars

(* Goroutines and timers make progress, and so do the node and the state   *)
(* of the coordinator as long as they are behind the milestones that exist.*)
(* A proposal that is tried again and again is accepted in the end: what   *)
(* it is refused for is a tip that was too old or a race with a block.     *)
(* No new milestone, solid block or shutdown has to happen.                *)
Fairness ==
    /\ WF_vars(stateIndex <= lmi /\ CommitNotifies)
    /\ WF_vars(CommitCopies)
    /\ WF_vars(lmi + 1 < stateIndex /\ MilestoneReceived)
    /\ WF_vars(MilestoneConfirmed)
    /\ WF_vars(initializeEvents \/ RegisterEvents)
    /\ WF_vars(onConfirmedMilestoneChanged)
    /\ WF_vars(SendSignal)
    /\ WF_vars(TimerFires)
    /\ WF_vars(LoopStep)
    /\ WF_vars(ProposerStep)
    /\ SF_vars(ProposeAccepted)

FairSpec == Spec /\ Fairness

-----------------------------------------------------------------------------
(* Types and limits: the selector never holds more than MaxTrackedBlocks.  *)
TypeOK ==
    /\ lmi \in Infos
    /\ cmi \in 0 .. lmi
    /\ stateIndex \in StartIndex .. MaxIndex + 1
    /\ bootstrap \in BOOLEAN
    /\ hooked \in BOOLEAN
    /\ events \in Seq(Infos)
    /\ tracked \in 0 .. MaxTrackedBlocks
    /\ confirmed \in Infos
    /\ sending \in Infos
    /\ signal \in {<< >>} \cup { << i >> : i \in Infos }
    /\ trigger \in BOOLEAN
    /\ timer \in {"never", "armed", "fired", "drained"}
    /\ info \in Infos
    /\ loop \in {"init", "hook", "first", "second", "blocked", "end"}
    /\ committing \in BOOLEAN
    /\ call \in {"check", "look", "wait", "propose"}
    /\ notified \in BOOLEAN
    /\ proposed \subseteq StartIndex .. MaxIndex + 1
    /\ pending \in [{"proposal"} -> Infos \cup {None}]
    /\ executing \in [key : {"proposal"}, value : Infos, canceled : BOOLEAN] \cup {None}
    /\ result \in {"none", "nil", "error"}
    /\ stopped \in BOOLEAN

(* The loop never waits for a timer that will not fire: in the first       *)
(* select the timer is running or its value has not been received, in the  *)
(* second its value has been received, as Reset requires (loop.go 104,     *)
(* 108, 168).                                                              *)
TimerReady ==
    /\ loop # "blocked"
    /\ loop = "first" => timer # "drained"
    /\ loop = "second" => timer = "drained"

(* No wake-up is lost, although ProposeParent registers for an index and   *)
(* looks at the state without a common lock while Commit notifies and then *)
(* copies the state (coordinator.go 284): whoever waits without having     *)
(* been notified waits for an index that no Commit has reached.            *)
NoLostWakeUp ==
    Calling({"wait"}) /\ ~ notified =>
        executing.value + 1 > (IF committing THEN stateIndex + 1 ELSE stateIndex)

(* The loop hears of every milestone once, in increasing order, although   *)
(* the latest milestone is signalled at the start and its confirmation is  *)
(* reported again later (loop.go 58, 156).                                 *)
SignalsIncrease ==
    [][ signal # << >> /\ signal' = << >> =>
          \/ Head(signal) > info
          \/ info = 0 /\ Head(signal) = StartIndex - 1 ]_vars

(* The milestones the loop has yet to hear of are newer than the last one, *)
(* in the order handler, channel, loop; only the first signal may repeat   *)
(* the index 0.                                                            *)
SignalOrder ==
    /\ info <= confirmed
    /\ signal # << >> =>
         /\ Head(signal) <= confirmed
         /\ Head(signal) > info \/ (info = 0 /\ Head(signal) = StartIndex - 1)
    /\ sending # 0 =>
         /\ sending = confirmed
         /\ sending > info
         /\ signal # << >> => Head(signal) < sending

(* Until the handlers are registered only the first signal has been sent.  *)
Starting ==
    /\ loop \in {"init", "hook"} => timer = "never" /\ ~ hooked /\ info = 0 /\ sending = 0
    /\ loop = "init" => signal = << >> /\ confirmed = 0
    /\ ~ hooked => events = << >>
    /\ ~ bootstrap => lmi >= StartIndex
    /\ committing => stateIndex <= MaxIndex

(* Inductive.                                                              *)
LoopInv ==
    /\ TypeOK
    /\ TimerReady
    /\ NoLostWakeUp
    /\ SignalOrder
    /\ Starting

Proposed(i) == i \in proposed \/ lmi >= i \/ loop = "end"

(* While the loop runs, a milestone the node has confirmed as its latest   *)
(* and that was signalled is followed by a proposal for the next one, or a *)
(* newer milestone, no matter how triggers, timers, retries and signals    *)
(* interleave.                                                             *)
NextIsProposed ==
    \A i \in StartIndex - 1 .. MaxIndex :
        lmi = i /\ cmi = i /\ confirmed = i ~> Proposed(i + 1)

(* "for each confirmed milestone, reset the selector and signal its        *)
(* arrival for the coordinator loop" (component.go 265): then the next one *)
(* is proposed after every confirmed milestone.                            *)
NextIsAlwaysProposed ==
    \A i \in StartIndex - 1 .. MaxIndex : lmi = i /\ cmi = i ~> Proposed(i + 1)
=============================================================================
