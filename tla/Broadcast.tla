------------------------------- MODULE Broadcast -------------------------------
(***************************************************************************)
(* How the transactions of one validator, self, reach the application      *)
(* state (pkg/decoo/app.go, coordinator.go): the two copies of the state,  *)
(* the Tendermint mempool between them, the callbacks of solid blocks, and *)
(* the broadcast queue.  The parents it proposes itself do not go through  *)
(* the queue and are left to CoordinatorLoop.                              *)
(*                                                                         *)
(* The variables of AppState are the deliverState, check is the            *)
(* checkState.  The queue is taken by what it promises (Mailbox).  Blocks  *)
(* pass through                                                            *)
(*   idle -BeginBlock-> deliver -EndBlock-> commit -Commit-> copy          *)
(*        -Copy-> recheck -RecheckTx-> idle                                *)
(* Commit holds the lock of the checkState while it is at copy; Tendermint *)
(* holds the lock of the mempool at copy and recheck.  Heights and times   *)
(* do not matter here and are 0.  The other validators are correct, their  *)
(* transactions arrive by gossip or in blocks.                             *)
(***************************************************************************)
EXTENDS AppState, Sequences, SequencesExt

CONSTANTS
    self,
    CreateEmptyBlocks    \* of the Tendermint configuration

VARIABLES
    cState, cParentByIssuer, cIssuerCountByParent,          \* checkState
    cProofIssuersByBlockID, cMilestone, cSignaturesByIssuer,
    phase,       \* of the current block
    block,       \* its transactions, and whether each was accepted
    changed,     \* the last block has changed the state
    mempool,     \* transactions that have passed CheckTx
    unchecked,   \* those of them that still have to be checked again
    cache,       \* transactions of the queue the mempool does not take again
    callbacks,   \* awaited block -> [index, peerID]
    running,     \* callbacks that have been called but have not submitted
    pending, executing,                                     \* broadcastQueue
    tangle

checkVars == << cState, cParentByIssuer, cIssuerCountByParent, cProofIssuersByBlockID,
                cMilestone, cSignaturesByIssuer >>
blockVars == << phase, block, changed >>
mempoolVars == << mempool, unchecked, cache >>
solidVars == << callbacks, running >>
queueVars == << pending, executing >>
vars == << appVars, checkVars, blockVars, mempoolVars, solidVars, queueVars, tangle >>

check == INSTANCE AppState
           WITH State                 <- cState,
                ParentByIssuer        <- cParentByIssuer,
                IssuerCountByParent   <- cIssuerCountByParent,
                ProofIssuersByBlockID <- cProofIssuersByBlockID,
                Milestone             <- cMilestone,
                SignaturesByIssuer    <- cSignaturesByIssuer

Keys == Validators \cup {"partial"}

ASSUME BroadcastAssumption ==
    /\ self \in Honest
    /\ Byzantine = {}
    /\ CreateEmptyBlocks \in BOOLEAN

Others == Validators \ {self}
Index == State.MilestoneIndex
-----------------------------------------------------------------------------
Init ==
    /\ InitAppState
    /\ check!InitAppState
    /\ phase = "idle"
    /\ block = EmptyMap
    /\ changed = FALSE
    /\ mempool = << >>
    /\ unchecked = << >>
    /\ cache = {}
    /\ callbacks = EmptyMap
    /\ running = {}
    /\ pending = [k \in Keys |-> Nil]
    /\ executing = Nil
    /\ tangle = [b \in Blocks |-> "missing"]

-----------------------------------------------------------------------------
(* The mempool: a transaction that it has seen is an error, one that       *)
(* CheckTx refuses is not.                                                 *)
mempoolLocked == phase \in {"copy", "recheck"}

(* What is in the cache matters only for what the queue sends: the state   *)
(* takes no other transaction twice either.                                *)
OfQueue(txs) == { tx \in txs : tx.issuer = self /\ tx.type # "Parent" }

InCache(tx) ==
    /\ ~ mempoolLocked
    /\ tx \in cache
    /\ UNCHANGED << checkVars, mempool, cache >>

CheckTxPasses(tx) ==
    /\ ~ mempoolLocked
    /\ tx \notin cache
    /\ check!ApplyTx(tx)
    /\ mempool' = Append(mempool, tx)
    /\ cache' = cache \cup OfQueue({tx})

CheckTxRefuses(tx) ==
    /\ ~ mempoolLocked
    /\ tx \notin cache
    /\ ~ ENABLED check!ApplyTx(tx)
    /\ UNCHANGED << checkVars, mempool, cache >>

(* Transactions of the other validators.                                   *)
OthersParents == { ParentTx(v, Index, b) : v \in Others, b \in Blocks }

OthersTxs ==
    OthersParents
      \cup { ProofTx(v, Index, b) : v \in Others, b \in Blocks }
      \cup (IF Milestone = Nil THEN {} ELSE { PartialSignatureTx(v, Milestone) : v \in Others })

(* Only proposals matter for what CheckTx says of our own transactions.    *)
Gossip(tx) ==
    /\ tx \in OthersParents
    /\ CheckTxPasses(tx)
    /\ UNCHANGED << appVars, blockVars, unchecked, solidVars, queueVars, tangle >>

-----------------------------------------------------------------------------
(* The broadcast queue, by the actions of Mailbox, executes broadcastTx.   *)

(* Mutant: a value does not replace one that waits already.                *)
SubmitKeepingOld(k, tx) ==
    /\ pending' = IF pending[k] = Nil THEN [pending EXCEPT ![k] = tx] ELSE pending
    /\ UNCHANGED executing

Submit(k, tx) ==
    /\ pending' = [pending EXCEPT ![k] = tx]
    /\ executing' = IF executing # Nil /\ executing.key = k
                    THEN [executing EXCEPT !.canceled = TRUE] ELSE executing

Start(k) ==
    /\ executing = Nil
    /\ pending[k] # Nil
    /\ executing' = [key |-> k, value |-> pending[k], canceled |-> FALSE]
    /\ UNCHANGED << appVars, checkVars, blockVars, mempoolVars, solidVars, pending, tangle >>

(* The execution has succeeded: a value that was replaced meanwhile leaves *)
(* the new one.                                                            *)
Done ==
    /\ executing' = Nil
    /\ pending' = IF executing.canceled THEN pending ELSE [pending EXCEPT ![executing.key] = Nil]

Failed == executing' = Nil /\ UNCHANGED pending

(* A refusal is only logged.  The local client of Tendermint does not look *)
(* at the context: a call that is canceled reaches the mempool as well.    *)
broadcastTx ==
    /\ executing # Nil
    /\ LET tx == executing.value
       IN  \/ (CheckTxPasses(tx) \/ CheckTxRefuses(tx)) /\ Done
           \/ InCache(tx) /\ Failed
    /\ UNCHANGED << appVars, blockVars, unchecked, solidVars, tangle >>

-----------------------------------------------------------------------------
(* The TangleListener calls a callback when its block is solid and drops   *)
(* it; the call runs on its own.                                           *)
BlockSolid(b) ==
    /\ b \in DOMAIN callbacks
    /\ tangle[b] # "missing"
    /\ callbacks' = [x \in DOMAIN callbacks \ {b} |-> callbacks[x]]
    /\ running' = running \cup { [ index |-> callbacks[b].index, peerID |-> callbacks[b].peerID,
                                   blockID |-> b, meta |-> tangle[b] ] }
    /\ UNCHANGED << appVars, checkVars, blockVars, mempoolVars, queueVars, tangle >>

processParent(call) ==
    /\ call \in running
    /\ running' = running \ {call}
    /\ IF call.meta = "valid"
       THEN Submit(call.peerID, ProofTx(self, call.index, call.blockID))
       ELSE UNCHANGED queueVars
    /\ UNCHANGED << appVars, checkVars, blockVars, mempoolVars, callbacks, tangle >>

TangleMoves(b) ==
    /\ \/ tangle[b] = "missing" /\ tangle' = [tangle EXCEPT ![b] = "valid"]
       \/ tangle[b] = "valid" /\ tangle' = [tangle EXCEPT ![b] = "outdated"]
    /\ UNCHANGED << appVars, checkVars, blockVars, mempoolVars, solidVars, queueVars >>

-----------------------------------------------------------------------------
(* Blocks.                                                                 *)

(* Without empty blocks Tendermint makes one when there are transactions   *)
(* and one after a block that has changed the state.                       *)
BlockDue == changed \/ mempool # << >> \/ CreateEmptyBlocks

BeginBlock ==
    /\ phase = "idle"
    /\ Index <= MaxIndex
    /\ phase' = "deliver"
    /\ block' = EmptyMap
    /\ changed' = FALSE
    /\ UNCHANGED << appVars, checkVars, mempoolVars, solidVars, queueVars, tangle >>

Deliverable == Range(mempool) \cup OthersTxs

(* What a block says matters later only for what is in the mempool.        *)
Record(tx, accepted) ==
    block' = IF tx \in Range(mempool) THEN Put(block, tx, accepted) ELSE block

DeliverTx(tx) ==
    /\ phase = "deliver"
    /\ tx \notin DOMAIN block
    /\ \/ /\ ApplyTx(tx)
          /\ Record(tx, TRUE)
          /\ changed' = TRUE
       \/ /\ ~ ENABLED ApplyTx(tx)
          /\ Record(tx, FALSE)
          /\ UNCHANGED << appVars, changed >>
    /\ UNCHANGED << checkVars, phase, mempoolVars, solidVars, queueVars, tangle >>

CreateEssence ==
    /\ Milestone = Nil
    /\ ParentWeight > F
    /\ callbacks' = EmptyMap
    /\ createMilestoneEssence(0)
    /\ changed' = TRUE

ProposersOf(b) == { v \in DOMAIN ParentByIssuer : ParentByIssuer[v] = b }

(* Mutant: only parents that CheckTx has not seen yet are registered.      *)
AwaitedNew ==
    { ParentByIssuer[v] : v \in DOMAIN ParentByIssuer \ DOMAIN cParentByIssuer }

(* The parents of the state that our proof is missing for.                 *)
Awaited ==
    { b \in { ParentByIssuer[v] : v \in DOMAIN ParentByIssuer } : self \notin ProofIssuers(b) }

(* A parent with several proposers is processed once, in the name of one   *)
(* of them: maps have no order.                                            *)
AwaitParents ==
    /\ Milestone = Nil
    /\ ParentWeight <= F
    /\ \E peerID \in [Awaited -> Validators] :
          /\ \A b \in Awaited : peerID[b] \in ProposersOf(b)
          /\ callbacks' =
                [ b \in Awaited \cup DOMAIN callbacks |->
                    IF b \in DOMAIN callbacks THEN callbacks[b]
                    ELSE [index |-> Index, peerID |-> peerID[b]] ]
    /\ UNCHANGED << Milestone, changed >>

(* Mutant: the new essence is signed right away.                           *)
EndBlockSigning ==
    /\ phase = "deliver"
    /\ phase' = "commit"
    /\ \/ CreateEssence /\ Submit("partial", PartialSignatureTx(self, Milestone'))
       \/ AwaitParents /\ UNCHANGED queueVars
       \/ Milestone # Nil /\ UNCHANGED << callbacks, Milestone, changed, queueVars >>
    /\ UNCHANGED << State, ParentByIssuer, IssuerCountByParent, ProofIssuersByBlockID,
                    SignaturesByIssuer, checkVars, block, mempoolVars, running, tangle >>

EndBlock ==
    /\ phase = "deliver"
    /\ phase' = "commit"
    /\ \/ CreateEssence
       \/ AwaitParents
       \/ Milestone # Nil /\ UNCHANGED << callbacks, Milestone, changed >>
    /\ UNCHANGED << State, ParentByIssuer, IssuerCountByParent, ProofIssuersByBlockID,
                    SignaturesByIssuer, checkVars, block, mempoolVars, running, queueVars, tangle >>

Signs ==
    /\ Milestone # Nil
    /\ Cardinality(DOMAIN SignaturesByIssuer) < T
    /\ self \notin DOMAIN SignaturesByIssuer

broadcastPartial ==
    IF Signs THEN Submit("partial", PartialSignatureTx(self, Milestone))
             ELSE UNCHANGED queueVars

MilestoneDone == Milestone # Nil /\ Cardinality(DOMAIN SignaturesByIssuer) >= T

(* Commit takes the locks, signs, and starts the next milestone.           *)
Commit ==
    /\ phase = "commit"
    /\ phase' = "copy"
    /\ broadcastPartial
    /\ IF MilestoneDone
       THEN /\ Reset(NextState(0))
            /\ changed' = TRUE
       ELSE UNCHANGED << appVars, changed >>
    /\ UNCHANGED << checkVars, block, mempoolVars, solidVars, tangle >>

(* Mutant: Copy forgets the embedded State.                                *)
CopyMaps ==
    /\ cParentByIssuer' = ParentByIssuer
    /\ cIssuerCountByParent' = IssuerCountByParent
    /\ cProofIssuersByBlockID' = ProofIssuersByBlockID
    /\ cMilestone' = Milestone
    /\ cSignaturesByIssuer' = SignaturesByIssuer
    /\ UNCHANGED cState

CopyState ==
    /\ cState' = State
    /\ cParentByIssuer' = ParentByIssuer
    /\ cIssuerCountByParent' = IssuerCountByParent
    /\ cProofIssuersByBlockID' = ProofIssuersByBlockID
    /\ cMilestone' = Milestone
    /\ cSignaturesByIssuer' = SignaturesByIssuer

(* The transactions that are not among those removed, in their order.      *)
Without(txs, removed) ==
    LET kept == { i \in DOMAIN txs : txs[i] \notin removed }
        earlier(i) == { j \in kept : j < i }
    IN  [ n \in 1 .. Cardinality(kept) |->
            txs[CHOOSE i \in kept : Cardinality(earlier(i)) = n - 1] ]

(* ... and copies the deliverState; the mempool drops what was in the      *)
(* block, and remembers what was accepted.                                 *)
Copy ==
    /\ phase = "copy"
    /\ CopyState
    /\ LET left == Without(mempool, DOMAIN block)
       IN  /\ unchecked' = left
           /\ phase' = IF left = << >> THEN "idle" ELSE "recheck"
    /\ mempool' = << >>
    /\ cache' = (cache \cup OfQueue({ tx \in DOMAIN block : block[tx] }))
                  \ { tx \in DOMAIN block : ~ block[tx] }
    /\ block' = EmptyMap
    /\ UNCHANGED << appVars, changed, solidVars, queueVars, tangle >>

RecheckTx ==
    /\ phase = "recheck"
    /\ LET tx == Head(unchecked)
       IN  \/ /\ check!ApplyTx(tx)
              /\ mempool' = Append(mempool, tx)
              /\ UNCHANGED cache
           \/ /\ ~ ENABLED check!ApplyTx(tx)
              /\ cache' = cache \ {tx}
              /\ UNCHANGED << checkVars, mempool >>
    /\ unchecked' = Tail(unchecked)
    /\ phase' = IF Len(unchecked) = 1 THEN "idle" ELSE "recheck"
    /\ UNCHANGED << appVars, block, changed, solidVars, queueVars, tangle >>

Next ==
    \/ \E tx \in OthersTxs : Gossip(tx)
    \/ \E k \in Keys : Start(k)
    \/ broadcastTx
    \/ \E b \in DOMAIN callbacks : BlockSolid(b)
    \/ \E call \in running : processParent(call)
    \/ \E b \in Blocks : TangleMoves(b)
    \/ BeginBlock
    \/ \E tx \in Deliverable : DeliverTx(tx)
    \/ EndBlock
    \/ Commit
    \/ Copy
    \/ RecheckTx

Spec == Init /\ [][Next]_vars

DeliverFirst == mempool # << >> /\ DeliverTx(Head(mempool))

(* Goroutines run, calls return, a block is made when one is due, and the  *)
(* first transaction of the mempool is taken into one of the next blocks.  *)
(* The queue is first in, first out: every value gets its turn.  The lock  *)
(* of the mempool does not starve a call that waits for it.                *)
Fairness ==
    /\ \A k \in Keys : SF_vars(Start(k))
    /\ SF_vars(broadcastTx)
    /\ \A b \in Blocks : WF_vars(BlockSolid(b))
    /\ WF_vars(\E call \in running : processParent(call))
    /\ WF_vars(BlockDue /\ BeginBlock)
    /\ SF_vars(DeliverFirst)
    /\ WF_vars(EndBlock)
    /\ WF_vars(Commit \/ Copy \/ RecheckTx)

FairSpec == Spec /\ Fairness
-----------------------------------------------------------------------------
TypeOK ==
    /\ phase \in {"idle", "deliver", "commit", "copy", "recheck"}
    /\ \A i, j \in DOMAIN mempool : mempool[i] = mempool[j] => i = j
    /\ OfQueue(Range(mempool) \cup Range(unchecked)) \subseteq cache
    /\ (phase = "recheck") = (unchecked # << >>)
    /\ DOMAIN callbacks \subseteq Blocks
    /\ cState.MilestoneIndex \in { Index, Index - 1 }

(* "the PartialSignature tx only passes CheckTx once the checkState has    *)
(* been updated to contain the milestone" (app.go 194): the signature is   *)
(* submitted before, but it never meets a CheckTx that does not know the   *)
(* essence yet, which would refuse it without a retry.                     *)
PartialPasses ==
    Milestone # Nil /\ executing # Nil /\ ~ mempoolLocked =>
        (executing.value = PartialSignatureTx(self, Milestone) => cMilestone = Milestone)

(* Calls of callbacks end before the milestone changes.  Otherwise a late  *)
(* one replaces the proof of the next milestone in the queue: it has the   *)
(* same key, and ClearBlockSolidCallbacks does not stop it.                *)
CallsInTime == [](\A call \in running : call.index = Index)

Unproved(b) == ProposersOf(b) # {} /\ self \notin ProofIssuers(b)

(* A valid parent that was proposed gets our proof as long as one is       *)
(* needed, although CheckTx may refuse it silently while the checkState is *)
(* behind (coordinator.go 299), blocks may carry it before the parent, and *)
(* no block has to follow when nothing changes: EndBlock registers again.  *)
ProofRepaired ==
    CallsInTime =>
        \A b \in Blocks :
            Unproved(b) /\ Milestone = Nil /\ tangle[b] = "valid" ~>
                ~ Unproved(b) \/ Milestone # Nil \/ tangle[b] = "outdated"

(* Our signature becomes part of every essence, or the milestone is issued *)
(* without it.                                                             *)
SignatureArrives ==
    \A i \in StartIndex .. MaxIndex :
        Milestone.Index = i ~> Index > i \/ self \in DOMAIN SignaturesByIssuer
=============================================================================
