----------------------------- MODULE Coordinator -----------------------------
(***************************************************************************)
(* The coordinator as a Tendermint application (pkg/decoo/app.go,          *)
(* coordinator.go): how the committee agrees on one milestone after the    *)
(* other.                                                                  *)
(*                                                                         *)
(* Tendermint delivers the same blocks to every correct validator and the  *)
(* application is deterministic, so the deliverStates of the correct       *)
(* validators are one state here (the variables of AppState) and every     *)
(* action of a block is a step of all of them.  What differs between       *)
(* validators stays separate: their solid callbacks, and the transactions  *)
(* each of them has sent.  A transaction that was sent may be delivered    *)
(* late, several times, in any order, or never.                            *)
(*                                                                         *)
(* A block passes through the phases                                       *)
(*     idle -BeginBlock-> deliver -DeliverTx*- -EndBlock-> commit -Commit->*)
(***************************************************************************)
EXTENDS AppState

CONSTANTS
    TimeSteps,      \* the half seconds that may pass between two blocks
    MaxHeight,      \* bound: the last Tendermint block
    MaxProposals    \* bound: parents one validator proposes per milestone

VARIABLES
    phase,        \* of the current block
    header,       \* [Height, Time] of the current or last block
    callbacks,    \* validator -> (awaited block -> milestone index)
    sent,         \* the transactions correct validators have broadcast
    tangle,       \* block -> what a node's metadata says about it
    milestones    \* the milestone blocks handed to submitMilestoneBlock

envVars == << phase, header, callbacks, sent, tangle, milestones >>
vars == << appVars, envVars >>

(* The genesis file sets TimeIotaMs to 500: consecutive blocks are at      *)
(* least half a second apart.                                              *)
ASSUME BlockTimeAssumption ==
    /\ TimeSteps \subseteq Nat \ {0}
    /\ MaxHeight \in Nat
    /\ MaxProposals \in Nat

(* A block is not solid yet, it is a valid milestone parent, or it has     *)
(* been referenced by a milestone or has fallen below max depth.           *)
BlockStatus == {"missing", "valid", "outdated"}

(* ValidParent of the node's metadata.  Milestone blocks issued by the     *)
(* committee are solid and above max depth when they are proposed.         *)
ValidParent(b) == b \in Blocks => tangle[b] = "valid"
Solid(b) == b \in Blocks => tangle[b] # "missing"

(* The blocks somebody may propose for the current milestone.              *)
Candidates == Blocks \cup {State.LastMilestoneBlockID}

ProposalsOf(v, index) ==
    { tx \in sent : tx.type = "Parent" /\ tx.issuer = v /\ tx.index = index }

(* What Byzantine members can get into a block.  A signature that is not   *)
(* over the current essence is represented by Nil.                         *)
ByzantineTxs ==
    LET indices == State.MilestoneIndex - 1 .. State.MilestoneIndex
    IN  { ParentTx(v, i, b) : v \in Byzantine, i \in indices, b \in Candidates }
          \cup { ProofTx(v, i, b) : v \in Byzantine, i \in indices, b \in Candidates }
          \cup { PartialSignatureTx(v, s) : v \in Byzantine, s \in {Nil, Milestone} }

-----------------------------------------------------------------------------
Init ==
    /\ InitAppState
    /\ phase = "idle"
    /\ header = [Height |-> 0, Time |-> 0]
    /\ callbacks = [v \in Honest |-> EmptyMap]
    /\ sent = {}
    /\ tangle = [b \in Blocks |-> "missing"]
    /\ milestones = {}

(* A validator proposes a parent for the milestone its state has reached:  *)
(* an older index does not pass its own CheckTx, for a newer one it waits. *)
ProposeParent(v, b) ==
    /\ State.MilestoneIndex <= MaxIndex
    /\ ValidParent(b)
    /\ Cardinality(ProposalsOf(v, State.MilestoneIndex)) < MaxProposals
    /\ sent' = sent \cup {ParentTx(v, State.MilestoneIndex, b)}
    /\ UNCHANGED << appVars, phase, header, callbacks, tangle, milestones >>

(* The callback of an awaited block that has become solid.                 *)
processParent(v, b) ==
    /\ b \in DOMAIN callbacks[v]
    /\ Solid(b)
    /\ callbacks' = [callbacks EXCEPT ![v] = [x \in DOMAIN @ \ {b} |-> @[x]]]
    /\ sent' = IF ValidParent(b)
               THEN sent \cup {ProofTx(v, callbacks[v][b], b)}
               ELSE sent
    /\ UNCHANGED << appVars, phase, header, tangle, milestones >>

(* Mutant: blocks may carry the time of their predecessor.                 *)
BeginBlockSameTime(dt) ==
    /\ phase = "idle"
    /\ header.Height < MaxHeight
    /\ State.MilestoneIndex <= MaxIndex
    /\ phase' = "deliver"
    /\ header' = [Height |-> header.Height + 1, Time |-> header.Time + dt - 1]
    /\ UNCHANGED << appVars, callbacks, sent, tangle, milestones >>

BeginBlock(dt) ==
    /\ phase = "idle"
    /\ header.Height < MaxHeight
    /\ State.MilestoneIndex <= MaxIndex
    /\ phase' = "deliver"
    /\ header' = [Height |-> header.Height + 1, Time |-> header.Time + dt]
    /\ UNCHANGED << appVars, callbacks, sent, tangle, milestones >>

DeliverTx(tx) ==
    /\ phase = "deliver"
    /\ ApplyTx(tx)
    /\ UNCHANGED envVars

(* The blocks whose proposers are known and our proof is not.              *)
Awaited(v) ==
    { b \in { ParentByIssuer[i] : i \in DOMAIN ParentByIssuer } : v \notin ProofIssuers(b) }

(* A block that already has a callback keeps it: ErrAlreadyRegistered.     *)
registerProcessParentOnSolid(v) ==
    [ b \in DOMAIN callbacks[v] \cup Awaited(v) |->
        IF b \in DOMAIN callbacks[v] THEN callbacks[v][b] ELSE State.MilestoneIndex ]

(* Mutant: ClearBlockSolidCallbacks is not called.                         *)
CreateEssenceKeepingCallbacks ==
    /\ Milestone = Nil
    /\ ParentWeight > F
    /\ UNCHANGED callbacks
    /\ createMilestoneEssence(header.Time)

(* Mutant: an existing essence is replaced.                                *)
CreateEssenceAgain ==
    /\ ParentWeight > F
    /\ callbacks' = [v \in Honest |-> EmptyMap]
    /\ createMilestoneEssence(header.Time)

(* Enough parents: the callbacks are no longer relevant, the essence is    *)
(* created.                                                                *)
CreateEssence ==
    /\ Milestone = Nil
    /\ ParentWeight > F
    /\ callbacks' = [v \in Honest |-> EmptyMap]
    /\ createMilestoneEssence(header.Time)

(* Not enough parents: wait for the proposed ones to become solid.         *)
AwaitParents ==
    /\ Milestone = Nil
    /\ ParentWeight <= F
    /\ callbacks' = [v \in Honest |-> registerProcessParentOnSolid(v)]
    /\ UNCHANGED Milestone

EndBlock ==
    /\ phase = "deliver"
    /\ phase' = "commit"
    /\ \/ CreateEssence
       \/ AwaitParents
       \/ Milestone # Nil /\ UNCHANGED << callbacks, Milestone >>
    /\ UNCHANGED << State, ParentByIssuer, IssuerCountByParent, ProofIssuersByBlockID,
                    SignaturesByIssuer, header, sent, tangle, milestones >>

(* The validators whose signature is not yet part of the state sign.       *)
broadcastPartial ==
    sent' = IF Milestone # Nil /\ Cardinality(DOMAIN SignaturesByIssuer) < T
            THEN sent \cup { PartialSignatureTx(v, Milestone) :
                               v \in Honest \ DOMAIN SignaturesByIssuer }
            ELSE sent

MilestoneDone == Milestone # Nil /\ Cardinality(DOMAIN SignaturesByIssuer) >= T

Commit ==
    /\ phase = "commit"
    /\ phase' = "idle"
    /\ broadcastPartial
    /\ \/ /\ MilestoneDone
          /\ milestones' = milestones \cup {MilestoneBlockID(Milestone, SignaturesByIssuer)}
          /\ Reset(NextState(header.Height))
       \/ /\ ~ MilestoneDone
          /\ UNCHANGED << appVars, milestones >>
    /\ UNCHANGED << header, callbacks, tangle >>

(* The Tangle moves on by itself.                                          *)
BlockSolid(b) ==
    /\ tangle[b] = "missing"
    /\ tangle' = [tangle EXCEPT ![b] = "valid"]
    /\ UNCHANGED << appVars, phase, header, callbacks, sent, milestones >>

BlockOutdated(b) ==
    /\ tangle[b] = "valid"
    /\ tangle' = [tangle EXCEPT ![b] = "outdated"]
    /\ UNCHANGED << appVars, phase, header, callbacks, sent, milestones >>

Next ==
    \/ \E v \in Honest, b \in Candidates : ProposeParent(v, b)
    \/ \E v \in Honest : \E b \in DOMAIN callbacks[v] : processParent(v, b)
    \/ \E dt \in TimeSteps : BeginBlock(dt)
    \/ \E tx \in sent \cup ByzantineTxs : DeliverTx(tx)
    \/ EndBlock
    \/ Commit
    \/ \E b \in Blocks : BlockSolid(b) \/ BlockOutdated(b)

Spec == Init /\ [][Next]_vars

-----------------------------------------------------------------------------
(* Types: the maps are functions on members of the current committee and   *)
(* on candidate blocks, and only proposed blocks have proofs.              *)
TypeOK ==
    /\ State.MilestoneHeight \in 0 .. header.Height
    /\ State.MilestoneIndex \in StartIndex .. MaxIndex + 1
    /\ phase # "idle" => State.MilestoneIndex <= MaxIndex
    /\ ParentByIssuer \in [DOMAIN ParentByIssuer -> Candidates]
    /\ DOMAIN ParentByIssuer \subseteq Members(State.MilestoneIndex)
    /\ IssuerCountByParent \in [DOMAIN IssuerCountByParent -> Nat \ {0}]
    /\ DOMAIN IssuerCountByParent \subseteq Candidates
    /\ ProofIssuersByBlockID \in
          [DOMAIN ProofIssuersByBlockID -> SUBSET Members(State.MilestoneIndex)]
    /\ DOMAIN ProofIssuersByBlockID \subseteq DOMAIN IssuerCountByParent
    /\ DOMAIN SignaturesByIssuer \subseteq Members(State.MilestoneIndex)
    /\ phase \in {"idle", "deliver", "commit"}
    /\ header \in [Height : 0 .. MaxHeight, Time : Nat]
    /\ DOMAIN callbacks = Honest
    /\ \A v \in Honest : callbacks[v] \in [DOMAIN callbacks[v] -> Nat]
    /\ tangle \in [Blocks -> BlockStatus]

-----------------------------------------------------------------------------
(* What a milestone is made of.                                            *)

(* The essences that exist: those issued and the one being signed.         *)
Essences == { ms.payload : ms \in milestones }
              \cup (IF Milestone = Nil THEN {} ELSE {Milestone})

(* Every milestone, issued or waiting for signatures, has a parent that an *)
(* honest member proposed for it: the weight threshold of EndBlock and the *)
(* cut to BlockMaxParents-1 parents never leave only parents of Byzantine  *)
(* members (app.go 133-143, coordinator.go 104).                           *)
HasHonestParent(essence) ==
    \E v \in Honest, b \in essence.Parents : ParentTx(v, essence.Index, b) \in sent

HonestParent == \A essence \in Essences : HasHonestParent(essence)

(* Every parent besides the previous milestone was proved by an honest     *)
(* member for this very milestone, and so it is solid (app.go 132).        *)
ParentsProved(essence) ==
    \A b \in essence.Parents \ {essence.Metadata.LastMilestoneBlockID} :
        /\ \E v \in Honest : ProofTx(v, essence.Index, b) \in sent
        /\ Solid(b)

ParentsSolid == \A essence \in Essences : ParentsProved(essence)

(* The weight that EndBlock adds up from the counts is the number of       *)
(* members that have proposed a valid parent, each counted once whatever   *)
(* was proposed, proved and reset before (app.go 126): more than F of them *)
(* are enough for a milestone, and fewer never are.                        *)
ProposersOfValidParents ==
    { v \in DOMAIN ParentByIssuer : ParentByIssuer[v] \in ValidParents }

WeightIsProposers == ParentWeight = Cardinality(ProposersOfValidParents)

(* The parents of a milestone fit into a block, and they are what sorting  *)
(* the valid parents and cutting them off leaves, as createMilestoneEssence *)
(* does it with a comparison function (app.go 330-346): the members, who    *)
(* all read them from a map in another order, get the same parents.         *)
SortedLists(S) ==
    { list \in [1 .. Cardinality(S) -> S] :
        \A i, j \in 1 .. Cardinality(S) : i < j => SortsBefore(list[i], list[j]) }

ParentsAreSortedPrefix ==
    Milestone # Nil =>
        LET last    == State.LastMilestoneBlockID
            parents == ValidParents \ {last}
            kept    == IF Cardinality(parents) > BlockMaxParents - 1
                       THEN BlockMaxParents - 1 ELSE Cardinality(parents)
        IN  /\ \E list \in SortedLists(parents) :
                  Milestone.Parents = { list[i] : i \in 1 .. kept } \cup {last}
            /\ Cardinality(Milestone.Parents) <= BlockMaxParents

(* Every milestone that is issued passes VerifySignatures, which stops the *)
(* coordinator otherwise (app.go 381): it carries at least T signatures of *)
(* members of its own committee, all over this very essence, and those of  *)
(* honest members were really made.  A partial signature carries no index, *)
(* one of an earlier milestone must not count (txs.go 106).                *)
SignaturesVerify ==
    \A ms \in milestones :
        /\ Cardinality(DOMAIN ms.signatures) >= T
        /\ DOMAIN ms.signatures \subseteq Members(ms.payload.Index)
        /\ \A v \in DOMAIN ms.signatures :
              /\ ms.signatures[v] = ms.payload
              /\ v \in Honest => PartialSignatureTx(v, ms.payload) \in sent

(* Honest members never sign two different milestones with the same index. *)
SignedOnce ==
    \A a, b \in { tx \in sent : tx.type = "PartialSignature" } :
        a.signature.Index = b.signature.Index => a.signature = b.signature

(* A later milestone has a later timestamp, in seconds, although Tendermint *)
(* blocks are only half a second apart (app.go 350).                        *)
TimestampsIncrease ==
    \A e1, e2 \in Essences : e1.Index < e2.Index => e1.Timestamp < e2.Timestamp

(* There is one milestone per index, and each carries everything needed to *)
(* resume from it: the state NewStateFromMilestone reads back from it      *)
(* names the index, ID and block ID of the one milestone before it, and a  *)
(* later height (state.go 52).                                             *)
NewStateFromMilestone(essence) ==
    [ MilestoneHeight      |-> essence.Metadata.MilestoneHeight,
      MilestoneIndex       |-> essence.Index,
      LastMilestoneID      |-> essence.PreviousMilestoneID,
      LastMilestoneBlockID |-> essence.Metadata.LastMilestoneBlockID ]

Follows(essence, previous) ==
    LET state == NewStateFromMilestone(essence)
    IN  /\ state.MilestoneIndex = previous.payload.Index + 1
        /\ state.LastMilestoneID = previous.payload
        /\ state.LastMilestoneBlockID = previous
        /\ state.MilestoneHeight > previous.payload.Metadata.MilestoneHeight
        /\ previous \in essence.Parents

MilestonesChained ==
    /\ \A e1, e2 \in Essences : e1.Index = e2.Index => e1 = e2
    /\ \A essence \in Essences :
          essence.Index > StartIndex => \E ms \in milestones : Follows(essence, ms)
    /\ Milestone # Nil => NewStateFromMilestone(Milestone) = State

(* The comment at registerProcessParentOnSolid (app.go 291): ignoring      *)
(* ErrAlreadyRegistered is safe, because a registered callback always      *)
(* belongs to the current milestone and there is none once its essence     *)
(* exists.                                                                 *)
CallbacksCurrent ==
    \A v \in Honest : \A b \in DOMAIN callbacks[v] :
        callbacks[v][b] = State.MilestoneIndex /\ Milestone = Nil

(* The essence to sign is final: it changes only when it is created, and   *)
(* when the commit that issues it starts the next milestone.               *)
EssenceFinal ==
    [][ Milestone # Nil /\ Milestone' # Milestone =>
          /\ Milestone' = Nil
          /\ milestones' = milestones \cup {MilestoneBlockID(Milestone, SignaturesByIssuer)}
          /\ State'.MilestoneIndex = State.MilestoneIndex + 1 ]_vars
(* With its proposals, proofs, votes and late transactions the committee   *)
(* issues one chain of milestones: each commit with enough signatures      *)
(* issues the essence that was agreed on, and the next one names it        *)
(* (app.go 204-224).                                                       *)
Payloads == { ms.payload : ms \in milestones }

Promise == INSTANCE MilestoneChain
             WITH FirstIndex <- StartIndex,
                  Genesis    <- GenesisMilestoneID,
                  nextIndex  <- State.MilestoneIndex,
                  last       <- State.LastMilestoneID,
                  essence    <- Milestone,
                  issued     <- Payloads,
                  published  <- Payloads

RefinesMilestoneChain == Promise!Spec
-----------------------------------------------------------------------------
(* What the proofs need besides: the parts of the inductive invariants.    *)

Proposers(b) == { v \in DOMAIN ParentByIssuer : ParentByIssuer[v] = b }

(* IssuerCountByParent counts what ParentByIssuer lists.                   *)
CountsMatch ==
    /\ IsFiniteSet(DOMAIN IssuerCountByParent)
    /\ \A v \in DOMAIN ParentByIssuer : ParentByIssuer[v] \in DOMAIN IssuerCountByParent
    /\ \A b \in DOMAIN IssuerCountByParent :
          IssuerCountByParent[b] = Cardinality(Proposers(b))

(* What the state holds from an honest member, this member has sent.       *)
ProposalsSent ==
    \A v \in Honest \cap DOMAIN ParentByIssuer :
        ParentTx(v, State.MilestoneIndex, ParentByIssuer[v]) \in sent

EssenceCurrent == Milestone # Nil => Milestone.Index = State.MilestoneIndex

(* No correct validator is ahead of the state, and what it sends for the   *)
(* current milestone is about a candidate of this milestone.               *)
SentCurrent ==
    \A tx \in sent :
        /\ tx.issuer \in Honest
        /\ \/ tx.type = "Parent" /\ tx = ParentTx(tx.issuer, tx.index, tx.block)
           \/ tx.type = "Proof" /\ tx = ProofTx(tx.issuer, tx.index, tx.block)
           \/ tx.type = "PartialSignature" /\ tx = PartialSignatureTx(tx.issuer, tx.signature)
        /\ tx.type # "PartialSignature" =>
              /\ tx.index \in 0 .. State.MilestoneIndex
              /\ tx.index = State.MilestoneIndex => tx.block \in Candidates

CallbacksOfCandidates == \A v \in Honest : DOMAIN callbacks[v] \subseteq Candidates

TypeInv ==
    /\ TypeOK
    /\ SentCurrent
    /\ CallbacksOfCandidates
    /\ CallbacksCurrent

HonestParentInv ==
    /\ TypeInv
    /\ CountsMatch
    /\ ProposalsSent
    /\ EssenceCurrent
    /\ HonestParent

(* The parents of the essence are still what the state selects.            *)
EssenceSelected == Milestone # Nil => Milestone.Parents = MilestoneParents

SelectedInv ==
    /\ HonestParentInv
    /\ EssenceSelected

(* The signatures of the state are those of the essence to sign, and an    *)
(* honest member has sent its own.                                         *)
SignaturesCurrent ==
    /\ Milestone = Nil => DOMAIN SignaturesByIssuer = {}
    /\ \A v \in DOMAIN SignaturesByIssuer :
          /\ SignaturesByIssuer[v] = Milestone
          /\ v \in Honest => PartialSignatureTx(v, Milestone) \in sent

(* What honest members have signed is older than the current milestone, or *)
(* it is the essence to sign.                                              *)
SignedCurrent ==
    \A tx \in sent :
        tx.type = "PartialSignature" =>
            /\ tx.signature.Index \in 0 .. State.MilestoneIndex
            /\ tx.signature.Index = State.MilestoneIndex => tx.signature = Milestone

SignatureInv ==
    /\ TypeInv
    /\ EssenceCurrent
    /\ SignaturesCurrent
    /\ SignedCurrent
    /\ SignedOnce
    /\ SignaturesVerify

(* What the state holds of the proofs of an honest member, it has sent,    *)
(* and blocks that an honest member has proved are solid.                  *)
ProofsSent ==
    \A b \in DOMAIN ProofIssuersByBlockID :
        \A v \in Honest \cap ProofIssuersByBlockID[b] :
            ProofTx(v, State.MilestoneIndex, b) \in sent

ProvedSolid == \A tx \in sent : tx.type = "Proof" => Solid(tx.block)

ParentsInv ==
    /\ TypeInv
    /\ ProofsSent
    /\ ProvedSolid
    /\ ParentsSolid

(* The state is what is read back from the essence made from it, ...       *)
EssenceOfState ==
    /\ State = [ MilestoneHeight      |-> State.MilestoneHeight,
                 MilestoneIndex       |-> State.MilestoneIndex,
                 LastMilestoneID      |-> State.LastMilestoneID,
                 LastMilestoneBlockID |-> State.LastMilestoneBlockID ]
    /\ Milestone # Nil =>
          /\ NewStateFromMilestone(Milestone) = State
          /\ State.LastMilestoneBlockID \in Milestone.Parents

(* ... it follows the milestone issued last, and there is one of each      *)
(* earlier index at most.                                                  *)
StateFollows ==
    State.MilestoneIndex > StartIndex =>
        \E ms \in milestones :
            /\ State.MilestoneIndex = ms.payload.Index + 1
            /\ State.LastMilestoneID = ms.payload
            /\ State.LastMilestoneBlockID = ms
            /\ State.MilestoneHeight > ms.payload.Metadata.MilestoneHeight

IssuedOnce ==
    /\ \A ms \in milestones : ms.payload.Index \in 1 .. State.MilestoneIndex - 1
    /\ \A a, b \in milestones : a.payload.Index = b.payload.Index => a.payload = b.payload

IssuedFollow ==
    \A ms \in milestones :
        ms.payload.Index > StartIndex =>
            \E previous \in milestones : Follows(ms.payload, previous)

HeightGrows == phase # "idle" => State.MilestoneHeight < header.Height

ChainInv ==
    /\ TypeInv
    /\ EssenceOfState
    /\ StateFollows
    /\ IssuedOnce
    /\ IssuedFollow
    /\ HeightGrows

(* Signatures come at least one block after the essence, and the next      *)
(* essence one block after the commit: two half seconds.                   *)
EssenceTime ==
    Milestone # Nil =>
        /\ Milestone.Timestamp \in Nat
        /\ 2 * Milestone.Timestamp <= header.Time
        /\ phase = "deliver" \/ DOMAIN SignaturesByIssuer # {} =>
              2 * Milestone.Timestamp + 1 <= header.Time

IssuedTime ==
    \A ms \in milestones :
        /\ ms.payload.Timestamp \in Nat
        /\ 2 * ms.payload.Timestamp + 1 <= header.Time
        /\ phase # "idle" => 2 * ms.payload.Timestamp + 2 <= header.Time
        /\ Milestone # Nil => ms.payload.Timestamp < Milestone.Timestamp

TimeInv ==
    /\ ChainInv
    /\ Milestone = Nil => DOMAIN SignaturesByIssuer = {}
    /\ EssenceTime
    /\ IssuedTime
    /\ \A a, b \in milestones :
          a.payload.Index < b.payload.Index => a.payload.Timestamp < b.payload.Timestamp
=============================================================================
