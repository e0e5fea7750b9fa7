-------------------------------- MODULE Resume --------------------------------
(***************************************************************************)
(* Validators that stop and start again (components/decoo/coordinator.go,  *)
(* component.go, inx.go, and the parts of pkg/decoo/app.go and commit.go   *)
(* that meet a replayed block).  A validator keeps no state of its own: it *)
(* finds a milestone in the Tangle, takes the state back from it, and lets *)
(* Tendermint replay the blocks after that milestone's height.             *)
(*                                                                         *)
(* A block is what it does to the state: the proofs that make the parents  *)
(* sufficient, the signatures that complete the milestone, or neither.  A  *)
(* milestone is identified by the blocks it was made from.  The node and   *)
(* the Tangle keep running when the validator stops.                       *)
(***************************************************************************)
EXTENDS Integers, Sequences, FiniteSets

CONSTANTS
    Validators,
    Quorums,          \* the sets of validators that can decide a block
    T,                \* the signature threshold of a milestone
    maxRetainBlocks,
    MaxIndex,         \* bound: the last milestone
    MaxHeight,        \* bound: the last block
    MaxBlocks,        \* the most blocks Tendermint takes for one milestone
    MaxFailures       \* bound: crashes and failed calls of the node

VARIABLES
    chain,       \* the decided blocks, each with the state it leads to
    tangle,      \* the milestones that have been submitted
    lmi, cmi,    \* the node's latest and confirmed milestone index
    signed,      \* pv.LastSignState.Height: written before the block store
    base, store, \* the first and the last block in the block store
    running,     \* whether the validator runs
    cms,         \* height of the last commit
    state,       \* deliverState
    whiteFlag,   \* the confirmed index ComputeWhiteFlag has read, or NotRead
    submitting,  \* milestones in a submitMilestoneBlock goroutine
    partial,     \* index of the last milestone that v has signed
    failures

nodeVars == << tangle, lmi, cmi >>
diskVars == << signed, base, store >>
memoryVars == << running, cms, state, whiteFlag, submitting >>
vars == << chain, nodeVars, diskVars, memoryVars, partial, failures >>

ASSUME ResumeAssumption ==
    /\ \A Q \in Quorums : Q \subseteq Validators /\ Q # {}
    /\ maxRetainBlocks \in Nat
    /\ MaxBlocks \in Nat /\ MaxBlocks >= 2
    /\ MaxIndex \in Nat /\ MaxHeight \in Nat /\ MaxFailures \in Nat

NotRead == -1

(* Milestone is the essence to sign, if there is one.  Since is the height *)
(* after which blocks have been delivered to this state.                   *)
Nil == [Index |-> 0]

ResetTo(height, index, last) ==
    [ MilestoneHeight |-> height, MilestoneIndex |-> index, LastMilestone |-> last,
      Since |-> height, Milestone |-> Nil ]

InitialState == ResetTo(0, 1, Nil)

(* createMilestoneEssence: what is proved in the blocks since the reset    *)
(* decides the parents, the metadata the rest.                             *)
Essence(s, height) ==
    [ Index |-> s.MilestoneIndex, MilestoneHeight |-> s.MilestoneHeight,
      PreviousMilestoneID |-> s.LastMilestone, From |-> s.Since, To |-> height ]

CreatesEssence(s, block) == block = "parents" /\ s.Milestone = Nil
IssuesMilestone(s, block) == block = "signatures" /\ s.Milestone # Nil

(* The state after EndBlock and Commit of a block.                         *)
Executed(s, block, height) ==
    IF CreatesEssence(s, block)
    THEN [s EXCEPT !.Milestone = Essence(s, height)]
    ELSE IF IssuesMilestone(s, block)
         THEN ResetTo(height, s.MilestoneIndex + 1, s.Milestone)
         ELSE s

(* The state of a validator that never stopped.                            *)
StateAt(height) == IF height = 0 THEN InitialState ELSE chain[height].state

Height == Len(chain)
Latest == StateAt(Height)

(* The milestones that have been issued by the chain.                      *)
Issued == { StateAt(h - 1).Milestone : h \in { k \in 1 .. Height :
                IssuesMilestone(StateAt(k - 1), chain[k].block) } }

Init ==
    /\ chain = << >>
    /\ tangle = {}
    /\ lmi = [v \in Validators |-> 0]
    /\ cmi = [v \in Validators |-> 0]
    /\ signed = [v \in Validators |-> 0]
    /\ base = [v \in Validators |-> 1]
    /\ store = [v \in Validators |-> 0]
    /\ running = [v \in Validators |-> TRUE]
    /\ cms = [v \in Validators |-> 0]
    /\ state = [v \in Validators |-> InitialState]
    /\ whiteFlag = [v \in Validators |-> NotRead]
    /\ submitting = [v \in Validators |-> {}]
    /\ partial = [v \in Validators |-> 0]
    /\ failures = 0

-----------------------------------------------------------------------------
(* Tendermint.                                                             *)

CaughtUp(v) ==
    running[v] /\ whiteFlag[v] = NotRead /\ cms[v] = store[v] /\ store[v] = Height

(* A validator signs a block before anybody stores it.                     *)
Sign(v) ==
    /\ CaughtUp(v)
    /\ Latest.MilestoneIndex <= MaxIndex /\ Height < MaxHeight
    /\ signed[v] <= Height
    /\ signed' = [signed EXCEPT ![v] = Height + 1]
    /\ UNCHANGED << chain, nodeVars, base, store, memoryVars, partial, failures >>

(* What the next block may contain: proofs of a milestone are only made by *)
(* validators whose node has confirmed the one before it, signatures by    *)
(* validators that hold the essence.                                       *)
Decidable(block) ==
    LET blocks == Height + 1 - Latest.MilestoneHeight
    IN  \/ /\ block = "empty"
           /\ blocks + (IF Latest.Milestone = Nil THEN 2 ELSE 1) <= MaxBlocks
        \/ /\ block = "parents"
           /\ Latest.Milestone = Nil
           /\ blocks + 1 <= MaxBlocks
           /\ \E u \in Validators : cmi[u] >= Latest.MilestoneIndex - 1
        \/ /\ block = "signatures"
           /\ Latest.Milestone # Nil
           /\ Cardinality({ u \in Validators : partial[u] = Latest.MilestoneIndex }) >= T

Decide(v, block) ==
    /\ CaughtUp(v)
    /\ \E Q \in Quorums : v \in Q /\ \A u \in Q : signed[u] = Height + 1
    /\ Decidable(block)
    /\ chain' = Append(chain, [block |-> block, state |-> Executed(Latest, block, Height + 1)])
    /\ store' = [store EXCEPT ![v] = Height + 1]
    /\ UNCHANGED << nodeVars, signed, base, memoryVars, partial, failures >>

(* Whether some other validator still has the next block of v.             *)
Available(v) ==
    \E u \in Validators \ {v} : base[u] <= store[v] + 1 /\ store[v] + 1 <= store[u]

(* A block that others have decided.                                       *)
FetchBlock(v) ==
    /\ running[v]
    /\ cms[v] = store[v]
    /\ Available(v)
    /\ store' = [store EXCEPT ![v] = @ + 1]
    /\ UNCHANGED << chain, nodeVars, signed, base, memoryVars, partial, failures >>

-----------------------------------------------------------------------------
(* The application executes a block, replayed or new.                      *)

Larger(m, n) == IF m > n THEN m ELSE n

(* Mutant: a block too many is pruned.                                     *)
retainHeightPlusOne(commitHeight) ==
    IF maxRetainBlocks = 0 THEN 0 ELSE Larger(commitHeight - maxRetainBlocks + 1, 0)

(* The blocks below are pruned; 0 means none.                              *)
retainHeight(commitHeight) ==
    IF maxRetainBlocks = 0 THEN 0 ELSE Larger(commitHeight - maxRetainBlocks, 0)

NextBlock(v) == chain[cms[v] + 1].block

Commit(v) ==
    LET height == cms[v] + 1
    IN  /\ cms' = [cms EXCEPT ![v] = height]
        /\ state' = [state EXCEPT ![v] = Executed(@, NextBlock(v), height)]
        /\ base' = [base EXCEPT ![v] = Larger(@, retainHeight(height))]
        /\ submitting' = IF IssuesMilestone(state[v], NextBlock(v))
                         THEN [submitting EXCEPT ![v] = @ \cup {state[v].Milestone}]
                         ELSE submitting
        /\ whiteFlag' = [whiteFlag EXCEPT ![v] = NotRead]
        /\ UNCHANGED << chain, nodeVars, signed, store, running, partial, failures >>

(* A block that creates no essence.                                        *)
ExecuteBlock(v) ==
    /\ running[v]
    /\ cms[v] < store[v]
    /\ ~ CreatesEssence(state[v], NextBlock(v))
    /\ Commit(v)

(* Mutant: the latest index is read instead of the confirmed one.          *)
ReadLatestIndex(v) ==
    /\ running[v]
    /\ cms[v] < store[v]
    /\ whiteFlag[v] = NotRead
    /\ CreatesEssence(state[v], NextBlock(v))
    /\ whiteFlag' = [whiteFlag EXCEPT ![v] = lmi[v]]
    /\ UNCHANGED << chain, nodeVars, diskVars, running, cms, state, submitting, partial,
                    failures >>

(* EndBlock creates the essence: ComputeWhiteFlag reads the confirmed      *)
(* milestone index first.                                                  *)
ReadConfirmedIndex(v) ==
    /\ running[v]
    /\ cms[v] < store[v]
    /\ whiteFlag[v] = NotRead
    /\ CreatesEssence(state[v], NextBlock(v))
    /\ whiteFlag' = [whiteFlag EXCEPT ![v] = cmi[v]]
    /\ UNCHANGED << chain, nodeVars, diskVars, running, cms, state, submitting, partial,
                    failures >>

(* Memory is lost, disk and node are not.  A panic ends the process, too:  *)
(* stopOnPanic stops the coordinator, and the goroutine that waits for     *)
(* that panics.                                                            *)
Stopped(v) ==
    /\ running' = [running EXCEPT ![v] = FALSE]
    /\ cms' = [cms EXCEPT ![v] = 0]
    /\ state' = [state EXCEPT ![v] = InitialState]
    /\ whiteFlag' = [whiteFlag EXCEPT ![v] = NotRead]
    /\ submitting' = [submitting EXCEPT ![v] = {}]
    /\ UNCHANGED << chain, nodeVars, diskVars, partial >>

index(v) == state[v].MilestoneIndex

(* The Merkle roots of an existing milestone are taken from it, if it has  *)
(* the same parents.                                                       *)
QueryMatches(v) ==
    \E ms \in tangle : ms.Index = index(v) /\ ms = Essence(state[v], cms[v] + 1)

(* Mutant: past milestones are not queried.                                *)
WhiteFlagComputed(v) == index(v) = cmi[v] + 1

(* The node only computes the milestone after its confirmed one.  If it    *)
(* has confirmed another one since, its error leads to the query as well.  *)
WhiteFlagSucceeds(v) ==
    /\ index(v) <= whiteFlag[v] + 1
    /\ \/ whiteFlag[v] > 0 /\ index(v) <= whiteFlag[v] /\ QueryMatches(v)
       \/ /\ ~ (whiteFlag[v] > 0 /\ index(v) <= whiteFlag[v])
          /\ index(v) = cmi[v] + 1 \/ QueryMatches(v)

ComputeWhiteFlag(v) ==
    /\ whiteFlag[v] # NotRead
    /\ WhiteFlagSucceeds(v)
    /\ Commit(v)

WhiteFlagFails(v) ==
    /\ whiteFlag[v] # NotRead
    /\ ~ WhiteFlagSucceeds(v)
    /\ Stopped(v)
    /\ UNCHANGED failures

(* The parents do not become solid before whiteFlagTimeout.                *)
WhiteFlagTimeout(v) ==
    /\ whiteFlag[v] # NotRead
    /\ failures < MaxFailures
    /\ failures' = failures + 1
    /\ Stopped(v)

(* The signature reaches the others once the coordinator is started.       *)
BroadcastPartial(v) ==
    /\ CaughtUp(v)
    /\ state[v].Milestone # Nil
    /\ partial[v] < index(v)
    /\ partial' = [partial EXCEPT ![v] = index(v)]
    /\ UNCHANGED << chain, nodeVars, diskVars, memoryVars, failures >>

-----------------------------------------------------------------------------
(* submitMilestoneBlock.                                                   *)

Submitted(v, ms) ==
    /\ submitting' = [submitting EXCEPT ![v] = @ \ {ms}]
    /\ UNCHANGED << chain, lmi, cmi, diskVars, running, cms, state, whiteFlag, partial >>

(* A milestone that the node knows already is skipped.                     *)
submitMilestoneBlock(v, ms) ==
    /\ ms \in submitting[v]
    /\ tangle' = IF ms.Index <= lmi[v] THEN tangle ELSE tangle \cup {ms}
    /\ Submitted(v, ms)
    /\ UNCHANGED failures

(* The submission fails, but the block is present, sent by somebody else.  *)
SubmitAlreadyPresent(v, ms) ==
    /\ ms \in submitting[v]
    /\ ms \in tangle
    /\ failures < MaxFailures
    /\ failures' = failures + 1
    /\ Submitted(v, ms)
    /\ UNCHANGED tangle

(* Mutant: the error is only logged.                                       *)
SubmitFailsQuietly(v, ms) ==
    /\ ms \in submitting[v]
    /\ ms.Index > lmi[v]
    /\ failures < MaxFailures
    /\ failures' = failures + 1
    /\ Submitted(v, ms)
    /\ UNCHANGED tangle

SubmitFails(v, ms) ==
    /\ ms \in submitting[v]
    /\ ms.Index > lmi[v]
    /\ failures < MaxFailures
    /\ failures' = failures + 1
    /\ Stopped(v)

(* The node receives milestones in any order, and confirms them in theirs. *)
NodeReceives(v, ms) ==
    /\ ms \in tangle
    /\ ms.Index > lmi[v]
    /\ lmi' = [lmi EXCEPT ![v] = ms.Index]
    /\ UNCHANGED << chain, tangle, cmi, diskVars, memoryVars, partial, failures >>

NodeConfirms(v) ==
    /\ cmi[v] < lmi[v]
    /\ \E ms \in tangle : ms.Index = cmi[v] + 1
    /\ cmi' = [cmi EXCEPT ![v] = @ + 1]
    /\ UNCHANGED << chain, tangle, lmi, diskVars, memoryVars, partial, failures >>

-----------------------------------------------------------------------------
Crash(v) ==
    /\ running[v]
    /\ failures < MaxFailures
    /\ failures' = failures + 1
    /\ Stopped(v)

(* Tendermint does not start when the application is ahead of its blocks   *)
(* or when the blocks to replay are gone.                                  *)
Replayable(v, height) == height <= store[v] /\ base[v] <= height + 1

Restarted(v, s) ==
    /\ ~ running[v]
    /\ Replayable(v, s.MilestoneHeight)
    /\ running' = [running EXCEPT ![v] = TRUE]
    /\ cms' = [cms EXCEPT ![v] = s.MilestoneHeight]
    /\ state' = [state EXCEPT ![v] = s]
    /\ UNCHANGED << chain, nodeVars, diskVars, whiteFlag, submitting, partial, failures >>

(* With the bootstrap flag, which validateLatest refuses once there is a   *)
(* milestone.                                                              *)
Bootstrap(v) ==
    /\ lmi[v] = 0
    /\ Restarted(v, InitialState)

(* Mutant: the last signed block is taken to be stored.                    *)
tendermintHeightSigned(v) == signed[v]

(* The state file of the private validator is written before the blocks.   *)
tendermintHeight(v) == signed[v] - 1

Synced(v) == lmi[v] > 0 /\ lmi[v] = cmi[v]

(* Walk down the milestone chain from the confirmed one.                   *)
Compatible(v) ==
    { ms \in tangle : ms.Index <= cmi[v] /\ ms.MilestoneHeight <= tendermintHeight(v) }

ResumeMilestones(v) ==
    { ms \in Compatible(v) : \A other \in Compatible(v) : other.Index <= ms.Index }

(* Mutant: resume behind the milestone instead of in front of it.          *)
NewStateAfterMilestone(ms) == ResetTo(ms.To, ms.Index + 1, ms)

(* Mutant: resume at the block that created the essence.                   *)
NewStateAtEssence(ms) == ResetTo(ms.To, ms.Index, ms.PreviousMilestoneID)

NewStateFromMilestone(ms) ==
    ResetTo(ms.MilestoneHeight, ms.Index, ms.PreviousMilestoneID)

Resume(v) ==
    /\ tendermintHeight(v) >= 0
    /\ Synced(v)
    /\ \E ms \in ResumeMilestones(v) : Restarted(v, NewStateFromMilestone(ms))

Next ==
    \E v \in Validators :
        \/ Sign(v)
        \/ \E block \in {"empty", "parents", "signatures"} : Decide(v, block)
        \/ FetchBlock(v)
        \/ ExecuteBlock(v)
        \/ ReadConfirmedIndex(v)
        \/ ComputeWhiteFlag(v)
        \/ WhiteFlagFails(v)
        \/ WhiteFlagTimeout(v)
        \/ BroadcastPartial(v)
        \/ \E ms \in submitting[v] :
              submitMilestoneBlock(v, ms) \/ SubmitAlreadyPresent(v, ms) \/ SubmitFails(v, ms)
        \/ \E ms \in tangle : NodeReceives(v, ms)
        \/ NodeConfirms(v)
        \/ Crash(v)
        \/ Bootstrap(v)
        \/ Resume(v)

Spec == Init /\ [][Next]_vars

(* Whoever runs executes and submits what is there, a stopped validator is *)
(* started again by its supervisor, and nodes synchronise.  Nobody has to  *)
(* sign or decide another block.                                           *)
Fairness ==
    \A v \in Validators :
        /\ WF_vars(FetchBlock(v))
        /\ WF_vars(ExecuteBlock(v))
        /\ WF_vars(ReadConfirmedIndex(v))
        /\ WF_vars(ComputeWhiteFlag(v) \/ WhiteFlagFails(v))
        /\ WF_vars(\E ms \in submitting[v] : submitMilestoneBlock(v, ms))
        /\ WF_vars(\E ms \in tangle : NodeReceives(v, ms))
        /\ WF_vars(NodeConfirms(v))
        /\ WF_vars(Bootstrap(v) \/ Resume(v))

FairSpec == Spec /\ Fairness
-----------------------------------------------------------------------------
(* Types.                                                                  *)
TypeOK ==
    /\ \A h \in 1 .. Height : chain[h].block \in {"empty", "parents", "signatures"}
    /\ \A v \in Validators :
          /\ cmi[v] \in 0 .. lmi[v] /\ lmi[v] \in 0 .. MaxIndex
          /\ store[v] \in 0 .. Height /\ signed[v] \in 0 .. Height + 1
          /\ cms[v] \in 0 .. store[v]
          /\ base[v] \in 1 .. Height + 1
          /\ whiteFlag[v] \in NotRead .. cmi[v]
    /\ partial \in [Validators -> 0 .. MaxIndex]
    /\ failures \in 0 .. MaxFailures

(* A validator that has resumed from a milestone and replayed the blocks   *)
(* after it has the state of those that never stopped, and never executes  *)
(* a block twice or leaves one out.  Tendermint compares the hash of the   *)
(* state with the next block and refuses to continue otherwise.            *)
ReplayMatches == \A v \in Validators : running[v] => state[v] = StateAt(cms[v])

(* Replays submit no other milestones than those that the chain has        *)
(* issued, and for each index all validators submit the same one.          *)
TangleMatches ==
    /\ tangle \subseteq Issued
    /\ \A m1, m2 \in tangle : m1.Index = m2.Index => m1 = m2

ResumeHeights(v) ==
    IF ~ running[v] /\ Synced(v) THEN { ms.MilestoneHeight : ms \in ResumeMilestones(v) }
                                 ELSE {}

(* Wherever a validator stops, the height it resumes from is one its       *)
(* Tendermint has a block for: the application is never ahead, although    *)
(* the node has moved on (components/decoo/coordinator.go 36-43).          *)
NeverAhead ==
    \A v \in Validators : \A height \in ResumeHeights(v) : height <= store[v]

(* The blocks to replay have not been pruned, if the validator has signed  *)
(* its last block and maxRetainBlocks is at least what three milestones    *)
(* can take, less three blocks: pruning does not look at milestones        *)
(* (app.go 243).                                                           *)
Retained(v) == \A height \in ResumeHeights(v) : base[v] <= height + 1

SignersRetainBlocks ==
    \A v \in Validators : signed[v] >= store[v] => Retained(v)

(* "the Tendermint blockchain contains all information needed to recreate  *)
(* previous milestones" and the plugin "can always be restarted without    *)
(* issues" (README.md 18, 22): the blocks to replay are there.             *)
BlocksRetained == \A v \in Validators : Retained(v)

(* Whoever stops, resumes from an older milestone and replays blocks, what *)
(* the Tangle sees is still one chain of milestones: none is issued twice, *)
(* replaced, skipped, or submitted before it is issued (README.md 18).     *)
Promise == INSTANCE MilestoneChain
             WITH FirstIndex <- 1,
                  Genesis    <- Nil,
                  nextIndex  <- Latest.MilestoneIndex,
                  last       <- Latest.LastMilestone,
                  essence    <- Latest.Milestone,
                  issued     <- Issued,
                  published  <- tangle

RefinesMilestoneChain == Promise!Spec

(* A milestone that has been issued reaches the Tangle, although every     *)
(* validator may crash before it has submitted it and every submission may *)
(* fail a number of times: the replay submits it again (app.go 210).  The  *)
(* bounds end the chain, so that no milestone is missing for ever if there *)
(* is always a later time at which none is.                                *)
IssuedIsSubmitted == []<>(Issued \subseteq tangle)

(* A validator that has signed a block before it stops catches up with the *)
(* others in the end, unless blocks it misses have been pruned: by all the *)
(* others, or by itself, which takes blocks it has stored without signing  *)
(* (app.go 243).  One that only lags behind catches up, too.               *)
HasPruned(v) == signed[v] < store[v] /\ ~ Retained(v)

CatchesUp(v) ==
    \/ running[v] /\ cms[v] = Height
    \/ store[v] < Height /\ \A u \in Validators \ {v} : store[v] + 1 < base[u]
    \/ HasPruned(v)

Rejoins == \A v \in Validators : []<>(signed[v] > 0 => CatchesUp(v))
=============================================================================
