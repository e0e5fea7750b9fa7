# Verification of inx-tendercoo

inx-tendercoo issues the milestones of an IOTA network. A committee of
validators agrees, with the help of Tendermint, on the parents and the contents
of each milestone and signs it together. This directory holds TLA+ models of the
program, the TLC configurations that check them on small instances, and proofs
that TLAPS checks for every value of the constants. The paths in this text are
relative to the repository.

    tlc -config MCChain.cfg MCCoordinator      # one run
    tlapm CoordinatorProofs.tla                # the proofs of one module

## The system

| component | source | state | operations |
|---|---|---|---|
| committee | `pkg/decoo/committee.go` | key ranges, N, T, F | members of a milestone, `VerifySingle`, `maxFaulty` |
| application state | `pkg/decoo/appstate.go`, `state.go` | proposals, counts, proofs, essence, signatures, index, last milestone | `Reset`, `Copy`, `Hash`, reading a state back from a milestone |
| transactions | `pkg/decoo/txs.go` | none | `Apply` of `Parent`, `Proof` and `PartialSignature` |
| ABCI application | `pkg/decoo/app.go`, `commit.go` | `checkState`, `deliverState`, block header | `CheckTx`, `BeginBlock`, `DeliverTx`, `EndBlock`, `Commit`, solid callbacks |
| coordinator | `pkg/decoo/coordinator.go` | queue of broadcasts, notifier of state changes | `Bootstrap`, `InitState`, `ProposeParent`, `Start`, `Stop` |
| broadcast queue | `pkg/decoo/queue` | list, index by key, timer, running value | `Submit`, loop, retry, `Stop` |
| milestone loop | `components/decoo/loop.go`, `component.go` | last milestone, two channels, timer, proposer | event handlers, two selects, `proposeParent` |
| tip selector | `pkg/selector/heaviest.go` | tracked blocks with bit sets, tips | `OnNewSolidBlock`, `Reset`, `SelectTips` |
| resume | `components/decoo/coordinator.go`, `pkg/decoo/state.go` | Tendermint block store, last signed height | finding the milestone to continue from |
| INX client | `components/decoo/inx.go`, `pkg/decoo/inx.go` | none | `ComputeWhiteFlag`, submission of blocks |
| application wiring | `components/decoo/component.go`, `main.go`, `app.go`, `shutdown.go` | goroutines of the worker | start, wait for and stop of the coordinator |
| configuration, generated code | `components/decoo/tendermint.go`, `params.go`, `*.pb.go`, `types` | configuration files | empty blocks, signing state, local client |

How they interact. The node reports solid blocks and confirmed milestones as
events. Solid blocks go to the tip selector, a confirmed milestone resets it and
signals the milestone loop. When the next milestone is due the loop submits
`proposeParent` to its proposer, a queue with a single key, which retries it
until it succeeds. `proposeParent` selects tips and calls
`Coordinator.ProposeParent`, which broadcasts a `Parent` transaction as soon as
the state has reached that milestone. Tendermint orders transactions into blocks.
At the end of a block every validator that misses its proof for a proposed block
registers a callback and, once the block is solid, broadcasts a `Proof` through
the broadcast queue. When parents proposed by more than F members have proofs of
more than F members, the essence of the milestone is created. From then on
every commit broadcasts the missing partial signatures, until T of them are part
of the state; that commit hands the milestone to the node and resets the state
for the next index.

What is hard. Byzantine members put proposals, proofs and signatures of their
choice into blocks. Transactions arrive late, repeatedly, in any order and in the
next milestone, possibly of another committee. The queue is used by several
goroutines and cancels, retries and stops concurrently. The loop selects between
three channels and a timer that must be drained exactly once. The selector gives
up its lock while solid blocks arrive. `CheckTx` judges by a state that is one
block old and a refusal is final. A validator restarts by replaying blocks from
the metadata of a milestone, while its node and the others have moved on, and
calls of the node may fail anywhere. A panic stops goroutines that wait for the
one that panics.

What makes it correct, by component:

* committee and application: a milestone has a parent an honest member proposed,
  its parents are solid, its signatures verify, nobody signs two milestones of one
  index, milestones form a chain with increasing timestamps from which a
  validator can resume, callbacks never belong to an old milestone;
* queue: the last value of a key is executed until it succeeds, nothing starves,
  the list never is empty when an element is taken, `Stop` returns;
* loop: it neither blocks on its timer nor forgets to propose after a milestone;
* selector: the selection is greedy with respect to the real past cones and its
  result can always be used;
* broadcast: what the first `CheckTx` refuses is sent again, in time;
* resume: a validator that restarts reaches the state of the others, submits the
  same milestones, never starts ahead of Tendermint, and no milestone is lost;
* stopping: `Stop` returns, whoever calls it.

`PROJECT.json` lists the hazards with their source lines and the properties that
cover them.

## The modules

**Committee**, **AppState**, **Coordinator** model `pkg/decoo`. `Committee` has
the key ranges and the fault bound. `AppState` has one variable per field of the
Go struct, and one operator per `Apply`. `Coordinator` adds the phases of a block
(`BeginBlock`, `DeliverTx`, `EndBlock`, `Commit`), the solid callbacks, the
transactions that were broadcast, and the part of the tangle that matters.
The parts of the inductive invariants of its proofs are at its end.

**MilestoneChain** is what the committee promises to the Tangle, without blocks,
votes and nodes: an essence is agreed on that names the milestone issued last, it
is issued unchanged before another one is agreed on, and only issued milestones
are published. `Coordinator` and `Resume` both implement it: `Promise` is the
refinement mapping of each. In `Coordinator` a milestone is published when it is
issued, in `Resume` some time later and perhaps repeatedly.

* Tendermint is external: it delivers the same blocks to all correct validators,
  so their `deliverState`s are one state. It may deliver a transaction that was
  broadcast at any time, any number of times, or never; a rejected transaction is
  a stuttering step. Byzantine members get anything they could sign into a block.
* Hashes do not collide and signatures cannot be forged: a milestone ID is the
  essence itself, a block ID the essence with its signatures, a signature the
  essence it signs.
* Time is counted in half seconds because the genesis file sets the minimum
  between two blocks to 500 ms, while milestones carry seconds.
* All validators see one tangle; a block is missing, valid as a parent, or
  outdated. A callback and a broadcast are one step each. `CheckTx`, calls that
  take time, the white flag and the submission of the milestone are left to
  `Broadcast` and `Resume`.

**KeyedQueue** models `queue.go` at the granularity of its mutex: each critical
section, the look at the shutdown channel, the callback and the timer are actions
of their own. **Mailbox** is what the queue promises, without list, timer and
loop; `Promise` in `KeyedQueue` is the refinement mapping.

**CoordinatorLoop** models the loop, both event handlers, the start (milestone
first, handlers afterwards, `component.go` 281) and `proposeParent`, with
the listener of `Coordinator.ProposeParent`: it registers for an index, then
looks at the state, while `Commit` notifies and then copies the state. Its
proposer is an instance of `Mailbox`, which `KeyedQueue` is shown to implement.
A milestone is represented by its index; a timer that is set may fire at any time.

**Heaviest** models the tip selector. `SelectTips` is a sequence of steps, since
it releases the mutex after it has copied the list of tips: one per iteration and
one per tip whose bits `referenceTip` clears. A solid block that arrives while
the bits of its parent are being cleared reads any mixture of old and new words
(`RacingBits`), which is what the unsynchronised access can yield. The proposer
runs one `SelectTips` at a time, and a block becomes solid once. The history
variables `trackedParents`, `index` and `earlier` serve the properties only.

**Broadcast** follows the transactions of one validator between its two copies of
the state. It extends `AppState`, whose variables are the `deliverState`, and
instantiates it a second time for the `checkState`, so that `CheckTx`,
`RecheckTx` and `DeliverTx` are the same `ApplyTx` on different variables. The
mempool is a sequence with a cache (external) from which `Copy` takes the
transactions of the block and those refused by the recheck (`Without`); a transaction it has seen is an
error, one that `CheckTx` refuses is logged and counts as sent. The queue is taken
by what `Mailbox` promises. A callback that was called is a goroutine of its own
(`running`) until it submits its proof. The other validators are correct; their
transactions reach the mempool by gossip and the block in any case. The
proposals of the validator itself do not use the queue and are in
`CoordinatorLoop`.

**Resume** models crashes and restarts. Blocks are reduced to what they do to the
state: make the parents sufficient, complete the signatures, or neither; a
milestone is identified by the blocks it was made from, which the metadata,
the white flag and the parents of the real one are functions of. The chain of
decided blocks is one variable, since Tendermint is external; what a validator
has signed, stored, pruned and executed is its own, and so is what its node has
received and confirmed. A validator signs a block before anybody stores it, which
is why `LastSignState.Height - 1` is used. `ReadConfirmedIndex` and
`ComputeWhiteFlag` are two steps, between which the node moves on. A failed call
ends the process by `stopOnPanic` (`Stopped`): memory is lost, disk and node are
not. `Resume` requires a synced node, takes the newest milestone that is not
above the signed height, and Tendermint replays (`ExecuteBlock`) the blocks after
its `MilestoneHeight`.

**Stopping** models where the goroutines are when the coordinator stops: the
consensus goroutine of Tendermint, the two queues, the goroutine in `Wait` and
the worker, with the mutex of Tendermint's local client and the `sync.Once` of
`Stop`. `Resume` takes for granted that a process that panics ends; `Stopping`
shows when it does not.

`CoordinatorProofs`, `KeyedQueueProofs`, `CoordinatorLoopProofs`,
`HeaviestProofs`, `BroadcastProofs`, `ResumeProofs` and `ResumeBoundsProofs` hold
the theorems, `Ranking` lemmas about listing a finite set of numbers in order. What their invariants need besides the properties is defined at the
end of `Coordinator`, `KeyedQueue`, `CoordinatorLoop` and `Heaviest`, otherwise at
the beginning of the proofs.

The `MC` modules give constants values that a configuration cannot express, and
symmetry sets. A definition whose comment begins with *Mutant* is a variant of
the one after it with a plausible mistake; the property it is listed with in
`PROJECT.json` detects it.

## The runs

Deadlock is not checked: the bounds end every model, and after a shutdown the
program has nothing left to do.

| run | instance | what it shows |
|---|---|---|
| `committee4` | N=4, T=3, one member silent, one Byzantine, one block, four Tendermint blocks, one milestone | `HonestParent`, `ParentsSolid` whatever the Byzantine member does (by hand, `SignaturesVerify` as well). Four is the smallest committee with F=1; three live members are just enough to reach T, so that every message matters. |
| `chain` | committee of one that changes between two milestones, blocks 0.5 s or 1 s apart, seven Tendermint blocks | nothing leaks from one milestone into the next: `SignedOnce`, `TimestampsIncrease`, `MilestonesChained`, `CallbacksCurrent`, old signatures and proposals do not count (`SignaturesVerify`, `WeightIsProposers`), and both milestones are the chain that `MilestoneChain` promises (`RefinesMilestoneChain`) |
| `parents` | all proposals of four members for three blocks and the last milestone, each with one proof (as many as the Byzantine member can give alone) or two, room for two parents, one `EndBlock` | the cut of the sorted parents is right (`ParentsAreSortedPrefix`) and leaves an honest parent |
| `queue` | three keys, two values, six submits, one Stop | `ListConsistent`, `OneTrigger`, `PopsElement`, `RefinesMailbox`, `QueuedIsExecuted`, `StopReturns`. Six submits allow each key to be replaced while it waits, runs and fails. |
| `loop` | milestones up to index 2, two tracked blocks, bootstrapping or not | `TimerReady`, `NoLostWakeUp`, `SignalsIncrease`, `NextIsProposed`. With two milestones every signal can be overtaken once, and with two blocks the selector fills up and is emptied. |
| `loop_start` | the same | violates `NextIsAlwaysProposed` |
| `heaviest` | five blocks with up to two parents, two tips, limit 1/2, two selections, one reset | `TipsAreChildless`, `MissingIsSelected`, `ResultUsable`, `FirstSelectionGreedy`. Five blocks are the fewest for which a tip can be heavier by its bits and lighter by what it adds. |
| `heaviest_repeat` | the same with four blocks | violates `EverySelectionGreedy` |
| `broadcast` | two validators, T=2, one candidate and the last milestone, two milestones, no empty blocks | `PartialPasses`, `ProofRepaired`, `SignatureArrives`. Two milestones let transactions, callbacks and queue entries of the first meet the second. |
| `resume` | two validators of which one decides alone, at most two blocks per milestone, two milestones and the first block of a third (five blocks), one failure, three blocks retained | `ReplayMatches`, `NeverAhead`, `SignersRetainBlocks`, `RefinesMilestoneChain`, `IssuedIsSubmitted`, `Rejoins`. A failure is a crash, a white flag timeout or a failed submission; a validator without power may lag behind by any number of blocks. The fifth block is the first that makes a validator prune: with one block more pruned, `SignersRetainBlocks` fails. A validator that has stored this block without signing may not start again, which is the last case of `CatchesUp`; without that case `Rejoins` fails. |
| `resume_pruned` | the same with six blocks | violates `BlocksRetained` |
| `stop_on_panic` | one of each goroutine | violates `StopsOnPanic` |

Fairness. In `KeyedQueue` the goroutines and the timer make progress and a
callback returns, with an error or without; no success is assumed, and nobody has
to submit or stop. In `CoordinatorLoop` goroutines and timers make progress, and
so do the node and the state as long as they are behind milestones that exist.
Strong fairness is assumed of one action, `ProposeAccepted`: a proposal that is
retried again and again is accepted at some point, since it is refused only for a
tip that is too old or because the state moves on at that moment. No new
milestone, solid block or shutdown has to happen. In `Broadcast` the queue takes
its values in turn (`Start`, strongly fair for each key, since other keys run in
between; `KeyedQueue` is first in, first out), a call that waits for the mempool
gets its lock (`broadcastTx`, strongly fair), and the head of the mempool is taken
into one of the next blocks (`DeliverFirst`); blocks are only assumed when
Tendermint makes one without empty blocks (`BlockDue`). In `Resume` whoever runs
executes, fetches and submits what is there, a supervisor starts a validator
again, nodes synchronise; nobody has to sign or decide a block, and the number of
failures is finite. `IssuedIsSubmitted` and `Rejoins` say that again and again nothing
is missing (`[]<>`). As the bounds end the chain, this is as strong as a leads-to for
each milestone and each stop. In `Stopping` every goroutine runs on as long as it can.

Other instances checked by hand. The invariants of `resume` and
`RefinesMilestoneChain` hold with three whole milestones (six blocks, 1.25 million
states), the invariants also with four milestones and 3 or 4 retained blocks (6.5
million). All properties of `resume` hold with two milestones and two failures, with
which both validators can lose a milestone (310,773 states), and for a single
validator with three milestones and three failures. For
`SignersRetainBlocks`, two blocks per milestone need 3 retained blocks (2 fail),
and with three blocks per milestone 5 fail while 6 showed no violation in 10
million states. That `3 * MaxBlocks - 3` blocks, three milestones' worth less
three, are always enough is proved below; these cases show that fewer are not.

## Findings

* `stop_on_panic`: when `EndBlock` panics, because the white flag fails for
  example, `stopOnPanic` waits in `Stop` for the broadcast queue, before
  Tendermint's local client has released its mutex. If the queue is in
  `BroadcastTxSync` at that time, it waits for this mutex, and canceling its
  context does not help, since the local RPC client does not look at it. The
  process neither continues nor ends. Without a panic a shutdown comes to its end
  (`ShutdownEnds`, checked by hand on the same 140 states): the worker stops the
  node before the coordinator.
* `resume_pruned`: pruning looks at the commit height only. A validator that has
  stored blocks without signing them, as it does while it catches up, resumes
  from the height it signed last, and the blocks after the milestone it finds
  may be gone although the pruning interval is longer than a milestone. Its
  own store then no longer holds what it needs to start again.
* `loop_start`: a milestone confirmed after `initializeEvents` has read the latest
  one and before the handlers are registered is never signalled, and the
  validator does not propose a parent for the next one.
* `heaviest_repeat`: `referenceTip` clears bits in the tracked blocks themselves.
  A second `SelectTips` without a reset in between, as a retried proposal makes
  it, may miss the heaviest tip.

Three more, too small for runs of their own. `process` in the queue looks at the
shutdown channel before it takes the mutex; if `Stop` closes the channel and finds
nothing to cancel in between, a callback starts that nobody cancels (against the
comments at `queue.go` 70 and 133), and `Stop` waits for it. When the selector is
full as the loop starts, the trigger can be taken before the first signal, and the
timer fires with an empty `milestoneInfo`, against the comment at `loop.go` 64;
`proposeParent` then finds the milestone obsolete, or the first signal repairs it.
And "this should not happen during resuming" (`components/decoo/coordinator.go`
44) does happen to a validator that has never signed a block before the others
have issued a milestone: it cannot start without the bootstrap flag, which
`validateLatest` refuses.

One limit of `ProofRepaired` is worth knowing. A callback that still runs when the
milestone changes submits its proof for the old index under the key of the peer,
and replaces the proof for the new one (`app.go` 325). Without empty blocks
nothing triggers another `EndBlock`, and the proof is missing until some other
transaction comes. The property therefore assumes that callbacks return within a
milestone (`CallsInTime`).

## The proofs

`CoordinatorProofs` proves, for all committees, fault sets, blocks and bounds:

* `TypeCorrect` and `CallbacksCurrentCorrect`: `TypeOK` and `CallbacksCurrent`.
  The type invariant alone is not inductive: a callback that fires or a
  transaction that is delivered late could bring in a block that is no candidate
  or an index that is too high. `TypeInv` adds that transactions sent for the
  current index are about candidates (`SentCurrent`), and so are callbacks
  (`CallbacksOfCandidates`), and that callbacks belong to the current milestone.
* `HonestParentCorrect`: `HonestParent`. `HonestParentInv` adds that the counts
  are the numbers of proposers (`CountsMatch`), that what the state holds of an
  honest member was sent by it (`ProposalsSent`), and that the essence has the
  current index. `WeightBound` shows that parents with a total count above F have
  more than F proposers, `FewByzantine` that one of these is honest, and
  `TruncateKeepsHonest` that the cut to `BlockMaxParents - 1` keeps an honest
  parent: if it drops one, the parents sorted before it are at least F+1, all
  with a proposer of their own.
* `WeightCorrect`: `WeightIsProposers`, from `CountsMatch`. The code adds up counters
  that are kept beside the map of proposals; the sum is the number of members
  that have proposed a valid parent.
* `ParentsSortedCorrect`: `ParentsAreSortedPrefix`. The code sorts, the model keeps the
  parents with few others before them; `TruncateIsPrefix` shows that this is a prefix
  of the one sorted list there is, with the lemmas of `Ranking`: in a finite total
  order, the number of elements before one is its position. `SelectedInv` adds that
  the proposals and proofs an essence was made from stay as they are until it is
  issued.
* `SignaturesCorrect` and `SignedOnceCorrect`: `SignaturesVerify` and
  `SignedOnce`. A signature carries no index, so `SignatureInv` adds that the
  signatures of the state are those of the essence to sign
  (`SignaturesCurrent`), and that what was signed before is either older than
  the current milestone or this very essence (`SignedCurrent`). It is needed in
  `EndBlock`, where an essence appears for an index nobody has signed yet, and in
  `Commit`, which signs again.
* `ParentsSolidCorrect`: `ParentsSolid`. `ParentsInv` adds that the proofs of
  honest members in the state were sent by them (`ProofsSent`) and only for solid
  blocks (`ProvedSolid`); more than F proofs include one of an honest member.
* `MilestonesChainedCorrect`: `MilestonesChained`. `ChainInv` adds that the state
  follows the milestone issued last (`StateFollows`) and that the essence is read
  back as the state it was made from (`EssenceOfState`): one milestone hands this
  to the next.
* `TimestampsIncreaseCorrect`: `TimestampsIncrease`. A timestamp is cut to seconds, and
  blocks are half a second apart. `TimeInv` shows that two blocks, thus a second, lie
  between two essences: signatures are over an essence that exists, so they
  are delivered one block after it at the earliest (`EssenceTime`), and the next
  essence is created one block after the commit at the earliest (`IssuedTime`).
* `EssenceFinalCorrect`: the action property `EssenceFinal`, which holds of every
  step of `Next` by itself. The runs check `RefinesMilestoneChain` in its place, which
  says the same of the essence and more of the chain.
* `ChainRefined`: `RefinesMilestoneChain`. `EndBlock` maps to `Agree`, `Commit` with
  enough signatures to `Issue`, and all else to a stutter. `TypeInv` is needed for
  the essence to differ from none.

The assumptions are those of the code: `CommitteeAssumption` (types),
`FaultAssumption` (at most F Byzantine members in each committee),
`ParentsAssumption` (`F + 1 <= BlockMaxParents - 1`, which `New` checks),
`BlockIDOrderAssumption` (`bytes.Compare` is a total order) and
`BlockTimeAssumption` (time between blocks is positive).

`ResumeProofs` proves, for all validators, quorums, thresholds, pruning intervals
and bounds, and any number of crashes and failures:

* `ReplayCorrect`: `ReplayMatches`. That the state of a running validator is the
  chain's at its height is not inductive, since `Resume` takes a state from a
  milestone. `ResumeInv` adds that the chain is what executing its blocks gives
  (`ChainSteps`), that every state of the chain, and the essence in it, lead back
  to the state at their `MilestoneHeight` (`ChainKnown`, `Known`), and that what is
  submitted and in the Tangle was issued by the chain. `ExecutedKnown` is the heart:
  each kind of block keeps this.
* `TangleCorrect`: `TangleMatches`. `IssuedOnce` adds that issued indices are below
  the current one, so that a new milestone differs from all before. The run checks
  `RefinesMilestoneChain`, which implies it.
* `NeverAheadCorrect`: `NeverAhead`, from `signed <= store + 1` and from knowing
  where a milestone in the Tangle started.
* `ResumedChainRefined`: `RefinesMilestoneChain`. `Decide` maps to `Agree`, `Issue` or a
  stutter, by what the block does to the newest state of the chain, and
  `submitMilestoneBlock` to `Publish` or a stutter. No other step is visible, a crash
  or a replay in particular: `ResumeInv` says that what a validator submits after it
  has executed blocks a second time is one of the milestones issued.

They use no assumption about quorums: that Tendermint decides one chain is part of
the model.

`ResumeBoundsProofs` continues with an invariant that counts (`BoundsInv`).

* `ResumeTypeCorrect`: `TypeOK`. Nobody signs a block after the last milestone, so
  that no index exceeds `MaxIndex`.
* `SignersRetainCorrect`: `SignersRetainBlocks`, if nothing is pruned or
  `maxRetainBlocks >= 3 * MaxBlocks - 3` (`RetainsThreeMilestones`). A milestone takes
  at most `MaxBlocks` blocks (`StateBounded`, by what Tendermint decides), and a
  validator only executes the block that creates an essence when its node has
  confirmed the milestone before it (`Confirmed`). It can thus execute the
  signatures of the milestone after the confirmed one, and all but the last two
  blocks of the next, which is `3 * MaxBlocks - 2` blocks after the reset of the
  confirmed one (`ThreeMilestones`); pruning leaves the last `maxRetainBlocks`, and
  one block less has to be there since the first one replayed is that after the
  reset. If the validator resumes from an older milestone, the next one starts
  above the height it has signed, and all it has executed is within one
  milestone; here the premise that it has signed what it stores is needed, and
  `resume_pruned` shows what happens without it.

`BroadcastProofs` proves `PartialPassesCorrect`: `PartialPasses`. The invariant says of
every signature in the queue that it is either older than the state or over its
essence, and in this case either the `checkState` has the essence or `Copy` is the
next step of the application (`SignatureKnown`). Nothing else writes the essence
of the `checkState` (`CheckTxKeeps`), and a new essence has an index no signature
in the queue has. That a transaction is refused (`~ ENABLED`) is not used.

`BroadcastTypeCorrect` proves `TypeOK`, which says that the mempool never holds a
transaction twice. `MempoolInv` adds why: a transaction of the queue that waits in the
mempool is in the cache (`OwnCached`), which refuses it a second time, and a proposal
that waits was accepted by the `checkState` that a second one would be checked by
(`ProposalsRegistered`). What `Copy` and the recheck do to the mempool is a lemma about
`Without`: what is left keeps its order and is still distinct. `NodeInv` says that the
queue sends nothing of other members and that proposed blocks are blocks.

`KeyedQueueProofs` proves, for all keys and values and any number of submits:

* `QueueTypeCorrect`, `ListCorrect`, `OneTriggerCorrect`, `PopsElementCorrect`: `TypeOK`,
  `ListConsistent`, `OneTrigger` and `PopsElement`, which need one another. `QueueInv` adds that a value
  that is executed while a newer one of its key waits has been canceled
  (`NewerCancels`): without it a retry could queue a key twice.
* `MailboxRefined`: `RefinesMailbox`. `Pending` maps the list, the index and the value
  that runs to one value per key; the lemmas say for each critical section which
  step of `Mailbox` it is, or that it is none. `CoordinatorLoop` and `Broadcast`, which
  use the queue by what `Mailbox` promises, rest on this theorem.

`NewerCancels` has a consequence for the code: the check at `queue.go` 155, "only add
it back to the queue if no new value with the same key was added", always
succeeds, since such a value has canceled the one that failed, and what is
canceled is not retried.

`CoordinatorLoopProofs` proves, for any number of milestones and tracked blocks:

* `LoopTypeCorrect` and `TimerReadyCorrect`: `TypeOK` and `TimerReady`.
* `NoLostWakeUpCorrect`: `NoLostWakeUp`. Between the registration and the look at the
  state nothing is claimed; the look finds either the new state or one that is
  still to be copied, by a `Commit` that had notified before the registration.
* `SignalsIncreaseCorrect`: the action property `SignalsIncrease`. It follows from an
  order of four indices: the milestone the loop knows, the one in the channel, the
  one a handler waits to send, and the last one confirmed (`SignalOrder`). `Starting`
  says that before the handlers are registered there is only the first signal.

`HeaviestProofs` proves, for any finite set of blocks, any limit and number of tips,
any number of calls and resets, and any outcome of the race between `referenceTip`
and `OnNewSolidBlock`:

* `TipsAreChildlessCorrect`: `TipsAreChildless`, from what is known of the tracked
  blocks alone (`BlocksInv`): parents are tracked with or before their children, and
  each tracked block has a bit of its own (`OwnBits`).
* `SelectorTypeCorrect`: `TypeOK`, with what the program counter says of the tips
  selected and still to be cleared (`CallsInv`, `Selecting`).
* `MissingIsSelectedCorrect` and `ResultUsableCorrect`: `MissingIsSelected`, `ResultUsable`
  (`BitsInv`). The tips of a call are of one generation, all tracked or all from
  before a reset (`OneGeneration`), so that their bits mean the same blocks;
  `referenceTip` therefore only clears bits of blocks that the selected tip
  references (`ClearedIsCovered`), and a tip always keeps its own bit.
* `FirstSelectionGreedyCorrect`: `FirstSelectionGreedy`. As long as nothing the listed
  tips reference has been selected before (`Untouched`), the bits of a tip are exactly
  those of the blocks that no tip selected so far references, before and after
  `referenceTip` has reached it (`BitsLeft`). Own bits make the number of bits the
  number of blocks (`CountIsCardinality`).

The past cone of a block is defined recursively, and what a recursive function
computes cannot be proved by induction over the blocks here. It is proved by
induction over the steps instead: that there is exactly one function that
satisfies the equation of `Cones` is an invariant (`ConesExist`), since a block that
becomes solid has solid parents and extends that function in one way.

The assumptions: `QueueAssumption` and `LoopAssumption` are about types and say that
`None` is none of the values; `HeaviestAssumption` says besides that `Blocks` is finite,
which loses nothing, since a violation of a safety property shows in finitely many
steps; `ResumeAssumption` is about types and `MaxBlocks >= 2`, as a milestone needs a
block with its parents and one with its signatures. TLC has checked the inductive
invariants on the instances of the runs, apart from `ConesExist`, which quantifies
over functions.

Every invariant, action property and refinement of the passing runs is proved.
Only model-checked are the liveness properties (`QueuedIsExecuted`, `StopReturns`,
`NextIsProposed`, `ProofRepaired`, `SignatureArrives`, `IssuedIsSubmitted`, `Rejoins`), which
are out of the prover's reach, as they need fairness and `ENABLED`, and the
counterexamples of the runs that expect one.

## Not modelled

* Tendermint and the node: external. Tendermint's consensus, mempool, block sync,
  handshake and local client appear as far as the code relies on them, the node's
  milestones and solid blocks as events.
* Byzantine members in `Broadcast` and `Resume`: what they can do to the agreement is
  in `Coordinator`; blocks, once decided, are the same for all.
* Own proposals in `Broadcast`; with them the instance is out of TLC's reach, and
  they do not share the queue.
* Writing configuration, genesis and key files, addresses and peers
  (`tendermint.go`), parameters, dependency injection, hexadecimal formatting,
  JSON and protocol buffers: no behaviour that depends on order or failure.
* The waiting for peers and for the first block to be solid before a start: it only
  delays.

## Possible continuations

* `Coordinator` and `Resume` in one module, so that Byzantine members and replays
  meet; `MilestoneChain` is what they have in common so far.
* Liveness of the committee as a whole, with `Broadcast` for every member: out of
  TLC's reach with the present level of detail.
